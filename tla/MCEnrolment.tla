---------------------------- MODULE MCEnrolment ----------------------------
(***************************************************************************)
(* The instances of Enrolment that TLC checks.  Two stories in one run:    *)
(* the service of a machine beside the command that set it up, whose       *)
(* enrolments overlap; or beside another machine on which commands are     *)
(* run, whose disk it may share.                                           *)
(***************************************************************************)
EXTENDS Enrolment

CONSTANTS m1, m2,   \* machines
          s1,       \* the service of m1
          c1, c2    \* one-shot commands on m1 and on m2
VARIABLE story

MCAt == [p \in Process |-> IF p = c2 THEN m2 ELSE m1]

\* The machine m2 has not been heard of.
Nothing(d, files) == d = NewDevice /\ files = NoToken

MCInit == Init /\ story \in {"setup", "two machines"}
MCNext ==
  /\ Next
  /\ story = "setup" => proc'[c2] = Stopped /\ Nothing(device'[m2], saved'[m2])
  /\ story = "two machines" => proc'[c1] = Stopped
  /\ UNCHANGED story
MCSpec == MCInit /\ [][MCNext]_<<vars, story>> /\ Fairness
=============================================================================
