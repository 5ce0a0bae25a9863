----------------------------- MODULE MCMsgQueue -----------------------------
(* Instances of MsgQueue for TLC.                                            *)
EXTENDS MsgQueue

OneRequest == {[command |-> "test", value |-> 1]}
(* Requests that differ in status, in the words of the response and in what  *)
(* they do to the serial number.                                             *)
MixedRequests == {[command |-> "test", value |-> 1],
                  [command |-> "set_last_serial", value |-> 3],
                  [command |-> "handled", value |-> 2]}
=============================================================================
