----------------------------- MODULE MCTagWriting -----------------------------
(***************************************************************************)
(* TagWriting for TLC: two tags, each with an EPC of its own at the start; *)
(* callers may ask for a third EPC or for one that a tag has already.  The *)
(* tags are interchangeable, each together with its first EPC.             *)
(***************************************************************************)
EXTENDS TagWriting, TLC

SmallFactory == [t \in Tids |-> t]

Interchangeable == Permutations(Tids)

=============================================================================
