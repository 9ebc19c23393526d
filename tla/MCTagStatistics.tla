--------------------------- MODULE MCTagStatistics ---------------------------
(***************************************************************************)
(* TagStatistics for TLC, with arrays of two and three digits.  <<1>> and  *)
(* the empty EPC fit, <<1, 1>> and <<1, 1, 2, 2>> do not; the array of the *)
(* first of these, read on into a TID <<2, 2>>, reads as the second.  Only *)
(* the antennas are interchangeable.                                       *)
(***************************************************************************)
EXTENDS TagStatistics, TLC

FitAndLongEpcs == {<<>>, <<1>>, <<1, 1>>, <<1, 1, 2, 2>>}
FitAndLongTids == {<<2, 2>>, <<3, 3>>, <<3, 3, 3>>}
FitTids == {<<2, 2>>, <<3, 3>>}
OneDigit == <<3>>

Interchangeable == Permutations(Antennas)

=============================================================================
