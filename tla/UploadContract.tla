---------------------------- MODULE UploadContract ----------------------------
(***************************************************************************)
(* What CurlStub promises the code that logs through it: the entries it    *)
(* takes are handed to curl_post in the order they were taken, each once   *)
(* and in whole batches, and when its destructor has returned none is left *)
(* behind.  It does not promise that the server got them: what curl_post   *)
(* returns is ignored, and a batch that failed is not tried again.         *)
(***************************************************************************)
EXTENDS Integers, Sequences

CONSTANTS Posters      \* the threads that log

VARIABLES
    accepted,     \* the entries taken, in the order post() took them
    handed,       \* the entries given to curl_post, in the order given
    gone          \* the destructor has returned

vars == <<accepted, handed, gone>>

Init == accepted = <<>> /\ handed = <<>> /\ gone = FALSE

\* post() takes an entry of thread p.
Take(p) ==
    /\ ~gone
    /\ accepted' = Append(accepted, p)
    /\ UNCHANGED <<handed, gone>>

\* A flush hands over everything that was taken and not yet handed over.
HandOver ==
    /\ ~gone /\ handed # accepted
    /\ handed' = accepted
    /\ UNCHANGED <<accepted, gone>>

Finish ==
    /\ ~gone /\ handed = accepted
    /\ gone' = TRUE
    /\ UNCHANGED <<accepted, handed>>

Next == (\E p \in Posters : Take(p)) \/ HandOver \/ Finish

Spec == Init /\ [][Next]_vars
=============================================================================
