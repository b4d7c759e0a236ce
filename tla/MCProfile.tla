----------------------------- MODULE MCProfile ------------------------------
(***************************************************************************)
(* An instance of Profile for TLC: one package, delivered into any file    *)
(* of these lines, written from the first to the last.                     *)
(***************************************************************************)
EXTENDS Profile

\* Values over several lines that may stay open, a managed key, the managed
\* table and one of the employee's.
FewLines ==
  {Opening("list", "open"), Closing("close"), Opening("text", "basic"), Setting("model", "m1"),
   Header("own"), Header(codexManagedTable)}

MCNext ==
  \/ \E t \in Token, m \in Model : Publish(t, {m})
  \/ \E line \in FewLines : published = 1 /\ Insert(Len(file) + 1, line)

MCSpec == Init /\ [][MCNext]_vars
=============================================================================
