------------------------- MODULE MCTransactionFlow -------------------------
EXTENDS TransactionFlow

CONSTANTS deposit, borrow, verdict
=============================================================================
