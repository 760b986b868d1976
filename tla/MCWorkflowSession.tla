-------------------------- MODULE MCWorkflowSession --------------------------
(***************************************************************************)
(* Instances of WorkflowSession for TLC.                                   *)
(***************************************************************************)
EXTENDS WorkflowSession

\* Run r1 hears its events twice, the others once.
MCCopies == [r \in Runs |-> IF r = "r1" THEN 2 ELSE 1]

\* Every event is heard once.
MCSingle == [r \in Runs |-> 1]

=============================================================================
