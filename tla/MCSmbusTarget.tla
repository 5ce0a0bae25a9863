--------------------------- MODULE MCSmbusTarget ---------------------------
(* Instances of SmbusTarget for TLC: commands of every type the SMC's table  *)
(* registers, with and without PEC where it registers both.                  *)
EXTENDS SmbusTarget

Table == <<
  [trans_type |-> "WRITE_BLOCK", pec |-> TRUE],
  [trans_type |-> "WRITE_WORD", pec |-> TRUE],
  [trans_type |-> "READ_WRITE_BLOCK", pec |-> FALSE],
  [trans_type |-> "READ_BLOCK", pec |-> TRUE],
  [trans_type |-> "WRITE_BYTE", pec |-> TRUE],
  [trans_type |-> "READ_WRITE_BLOCK", pec |-> TRUE],
  [trans_type |-> "WRITE_BLOCK", pec |-> FALSE],
  [trans_type |-> "READ_WORD", pec |-> TRUE],
  [trans_type |-> "READ_BYTE", pec |-> TRUE]>>
=============================================================================
