------------------------------ MODULE MCEvidence ------------------------------
(***************************************************************************)
(* Instances of Evidence for TLC.                                          *)
(***************************************************************************)
EXTENDS Evidence

\* A timestamping service's good answer and the ways it may be of no use; one
\* of them is of use to TypeScript only.
MCAnswers ==
  {[tsa |-> "digicert", token |-> t] : t \in {"good", "misread", "early"}}
  \cup {[tsa |-> "evilcorp-tsa", token |-> "good"]}

=============================================================================
