------------------------ MODULE MCTransactionLedger ------------------------
(* A small instance of TransactionLedger for TLC.                          *)
EXTENDS TransactionLedger
=============================================================================
