------------------------- MODULE MCApplicationTasks -------------------------
(***************************************************************************)
(* Instances of ApplicationTasks for TLC.                                  *)
(***************************************************************************)
EXTENDS ApplicationTasks
=============================================================================
