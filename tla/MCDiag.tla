------------------------------- MODULE MCDiag -------------------------------
(***************************************************************************)
(* The records of Diag and the buffer of DiagBuf on small instances.  The  *)
(* two share no state; one moves only while the other is as it started,    *)
(* which keeps their product out of the state space.                       *)
(***************************************************************************)
EXTENDS Diag, DiagBuf

MCInit == Init /\ BufInit

MCNext == \/ Init /\ BufNext /\ UNCHANGED vars
          \/ BufInit /\ Next /\ UNCHANGED bufVars

MCSpec == /\ MCInit /\ [][MCNext]_<<vars, bufVars>>
          /\ WF_bufVars(Double \/ Reallocate)
=============================================================================
