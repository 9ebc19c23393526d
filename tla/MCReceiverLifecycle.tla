------------------------- MODULE MCReceiverLifecycle -------------------------
(* A bounded instance of ReceiverLifecycle for TLC: two interfaces one after *)
(* the other, two reboots.                                                   *)
EXTENDS ReceiverLifecycle
=============================================================================
