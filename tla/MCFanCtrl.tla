----------------------------- MODULE MCFanCtrl -----------------------------
(* Instances of FanCtrl for TLC.                                             *)
EXTENDS FanCtrl
=============================================================================
