---------------------------- MODULE MCReceiptFile ----------------------------
(***************************************************************************)
(* Instances of ReceiptFile for TLC.                                       *)
(***************************************************************************)
EXTENDS ReceiptFile

=============================================================================
