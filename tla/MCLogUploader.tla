---------------------------- MODULE MCLogUploader ----------------------------
(* A bounded instance of LogUploader for TLC: two threads that log. *)
EXTENDS LogUploader

CONSTANTS p1, p2

TwoPosters == {p1, p2}
=============================================================================
