--------------------------- MODULE MCReaderSettings ---------------------------
(***************************************************************************)
(* ReaderSettings for TLC.  The values of different settings differ, so    *)
(* that a reply taken for another shows.  Power 1 is below the range of a  *)
(* VD4 and 31 above it; a V6 is not in the table.                          *)
(***************************************************************************)
EXTENDS ReaderSettings

SmallAsked ==
    [s \in AllSettings |->
        CASE s = "power" -> {1, 31} [] s = "regulation" -> {3}
          [] s = "antenna" -> {4}   [] s = "loopAntenna" -> {6}
          [] s = "loopTime" -> {50} [] s = "time" -> {71}]

SmallFactory ==
    [s \in AllSettings |->
        CASE s = "power" -> 12   [] s = "regulation" -> 2
          [] s = "antenna" -> 1  [] s = "loopAntenna" -> 5
          [] s = "loopTime" -> 9 [] s = "time" -> 70]

=============================================================================
