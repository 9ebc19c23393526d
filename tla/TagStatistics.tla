---------------------------- MODULE TagStatistics ----------------------------
(***************************************************************************)
(* RFStatistics: it reads a memory bank of the tags in the field again and *)
(* again until the reference time has passed, counts the lines it got into *)
(* one record per tag, by the rule of the caller, and copies the records   *)
(* to the caller's buffer.  The reader is external: it answers a read with *)
(* any lines it can send, those of an earlier command included.  The       *)
(* handle stays open during a call (HandleTable has the look-ups).         *)
(*                                                                         *)
(* A text is a sequence of digits.  A record keeps texts in arrays of char *)
(* of a fixed length: a text that fills its array has no NUL there, and    *)
(* who reads the array reads on into the next field of the record.         *)
(***************************************************************************)
EXTENDS Integers, Sequences, FiniteSets

CONSTANTS
    Antennas,      \* antennas of the reader
    Epcs,          \* what is in the EPC banks of the tags
    Tids,          \* what is read from the banks the caller may ask for
    EPC_LEN,       \* char epc[EPC_LEN], 64 in the code
    TID_LEN,       \* char tid[TID_LEN], 64 in the code
    ReaderID,      \* what readerID, which follows tid, is read as
    Rooms,         \* the values of *stat_count at a call
    MaxLines       \* bound: lines that one call collects

ASSUME TextAssumption ==
    /\ Epcs \subseteq Seq(Nat) /\ Tids \subseteq Seq(Nat) /\ ReaderID \in Seq(Nat)
    /\ \A tid \in Tids : Len(tid) > 1        \* one digit would be an error
ASSUME LengthAssumption == EPC_LEN \in Nat \ {0} /\ TID_LEN \in Nat \ {0}
ASSUME RoomsAssumption == Rooms \subseteq Nat
ASSUME LinesAssumption == MaxLines \in Nat

Rules == {"BY_EPC", "BY_TID", "BY_EPC_OR_TID"}

\* The empty text.
Empty == << >>

\* The case labels of RfidParseUR, whose EPC and TID branches are the same.
Banks == {"EPC", "TID", "USER", "NONE"}

\* What a response line has after "-U": the EPC bank, a comma and the bank
\* asked for ("tag") or an error digit ("error"); an EPC bank too short for
\* protocol word and CRC ("short"), where with nothing between the two it is
\* a "tag" of the empty EPC; the EPC bank with no comma, as InventoryEPC's
\* reader sends it ("bare"); or nothing ("end").
Kinds == {"tag", "error", "short", "bare", "end"}

Lines == [antenna : Antennas, kind : Kinds, epc : Epcs, part2 : Tids]

\* epc.is_match is "unset", an uninitialized bool, when epc was not parsed.
Parses ==
    [antenna : Antennas, is_match : {"yes", "no", "unset"},
     epc : Epcs \union {Empty}, tid : Tids \union {Empty}]

\* What memcpy leaves of a text in an array of n char.  (It also copies what
\* lies behind a shorter text and its NUL, which nobody reads.)
Stored(text, n) == IF Len(text) < n THEN text ELSE SubSeq(text, 1, n)
EpcField(text) == Stored(text, EPC_LEN)
TidField(text) == Stored(text, TID_LEN)

Records ==
    [antenna : Antennas, epc : {EpcField(text) : text \in Epcs \union {Empty}},
     tid : {TidField(text) : text \in Tids \union {Empty}}, count : Nat]

VARIABLES
    pc,             \* "idle", "reading", "counting" or "filling"
    rule,           \* statistics_rule of the call
    bank,           \* bankType of the call
    room,           \* *stat_count when the call began
    reader_result,  \* the lines collected, parsed
    counted,        \* the lines of reader_result that were counted
    i,              \* the line DoStatisticHelper is at
    stat_result,    \* the records
    buffer,         \* the units the call wrote, from the first of the buffer
    ret             \* result code of the last call

vars == <<pc, rule, bank, room, reader_result, counted, i, stat_result,
          buffer, ret>>

Init ==
    /\ pc = "idle" /\ ret = "RFID_OK"
    /\ rule \in Rules /\ bank \in Banks /\ room \in Rooms
    /\ reader_result = <<>> /\ stat_result = <<>> /\ buffer = <<>>
    /\ counted = {} /\ i = 1

-----------------------------------------------------------------------------
(* Parsing *)

RfidParseUR(line) ==
    LET read == bank # "NONE" /\ line.kind \in {"tag", "error", "short"}
        match == read /\ line.kind # "short"
    IN  [antenna |-> line.antenna,
         is_match |-> IF ~read THEN "unset"
                      ELSE IF match THEN "yes" ELSE "no",
         epc |-> IF match THEN line.epc ELSE Empty,
         tid |-> IF read /\ line.kind # "error" /\ bank # "USER"
                 THEN line.part2 ELSE Empty]

HasData(line) == line.kind # "end"

-----------------------------------------------------------------------------
(* RFStatistics: the reads *)

\* No buffer, or no place for its size.
RejectBuffer ==
    /\ pc = "idle"
    /\ ret' = "RFID_ERR_INVALID_BUFFER"
    /\ UNCHANGED <<pc, rule, bank, room, reader_result, counted, i,
                   stat_result, buffer>>

\* The buffer is cleared first, and *stat_count is left as it was.
RejectHandle ==
    /\ pc = "idle"
    /\ room' \in Rooms
    /\ buffer' = <<>>
    /\ ret' = "RFID_ERR_INVALID_HANDLE"
    /\ UNCHANGED <<pc, rule, bank, reader_result, counted, i, stat_result>>

Call ==
    /\ pc = "idle"
    /\ rule' \in Rules /\ bank' \in Banks /\ room' \in Rooms
    /\ reader_result' = <<>> /\ stat_result' = <<>> /\ buffer' = <<>>
    /\ counted' = {} /\ i' = 1 /\ ret' = "RFID_OK"
    /\ pc' = "reading"

\* A line that the callback of ReadMultiBank keeps, and what ReadBankHelper
\* makes of it.
Collect ==
    /\ pc = "reading" /\ Len(reader_result) < MaxLines
    /\ \E line \in Lines :
          /\ HasData(line)
          /\ reader_result' = Append(reader_result, RfidParseUR(line))
    /\ UNCHANGED <<pc, rule, bank, room, counted, i, stat_result, buffer, ret>>

\* A read is over; its result code is overwritten, so a read that was
\* refused or cut short ends in RFID_OK.  The reference time has passed or
\* has not.
ReadEnds ==
    /\ pc = "reading"
    /\ ret' = "RFID_OK"
    /\ pc' \in {"reading", "counting"}
    /\ UNCHANGED <<rule, bank, room, reader_result, counted, i, stat_result,
                   buffer>>

-----------------------------------------------------------------------------
(* DoStatisticHelper *)

\* The text that the char array of a record is read as.
TidText(item) ==
    IF Len(item.tid) < TID_LEN THEN item.tid ELSE item.tid \o ReaderID
EpcText(item) ==
    IF Len(item.epc) < EPC_LEN THEN item.epc ELSE item.epc \o TidText(item)

\* Slips: antennas are not told apart; both texts have to agree; a record
\* without TID takes any.
AntennaSlip(item, parse) ==
    \/ rule = "BY_EPC" /\ EpcText(item) = parse.epc
    \/ rule = "BY_TID" /\ parse.tid # Empty /\ TidText(item) = parse.tid
    \/ /\ rule = "BY_EPC_OR_TID"
       /\ EpcText(item) = parse.epc \/ TidText(item) = parse.tid

AndSlip(item, parse) ==
    /\ item.antenna = parse.antenna
    /\ \/ rule = "BY_EPC" /\ EpcText(item) = parse.epc
       \/ rule = "BY_TID" /\ parse.tid # Empty /\ TidText(item) = parse.tid
       \/ /\ rule = "BY_EPC_OR_TID"
          /\ EpcText(item) = parse.epc /\ TidText(item) = parse.tid

WildcardSlip(item, parse) ==
    /\ item.antenna = parse.antenna
    /\ \/ rule = "BY_EPC" /\ EpcText(item) = parse.epc
       \/ rule = "BY_TID" /\ parse.tid # Empty /\ TidText(item) = parse.tid
       \/ /\ rule = "BY_EPC_OR_TID"
          /\ EpcText(item) = parse.epc \/ TidText(item) \in {parse.tid, Empty}

Matches(item, parse) ==
    /\ item.antenna = parse.antenna
    /\ \/ rule = "BY_EPC" /\ EpcText(item) = parse.epc
       \/ rule = "BY_TID" /\ parse.tid # Empty /\ TidText(item) = parse.tid
       \/ /\ rule = "BY_EPC_OR_TID"
          /\ EpcText(item) = parse.epc \/ TidText(item) = parse.tid

\* p->count += 1, and the TID when the record has none.
Repeated(item, parse) ==
    [antenna |-> item.antenna, epc |-> item.epc,
     tid |-> IF item.tid = Empty THEN TidField(parse.tid) ELSE item.tid,
     count |-> item.count + 1]

\* Slip: the count of a new record is left to the line that repeats it.
NewStatSlip(parse) ==
    [antenna |-> parse.antenna, epc |-> EpcField(parse.epc),
     tid |-> TidField(parse.tid), count |-> 0]

new_stat(parse) ==
    [antenna |-> parse.antenna, epc |-> EpcField(parse.epc),
     tid |-> TidField(parse.tid), count |-> 1]

\* An uninitialized is_match reads as either value.
MayCount(parse) == parse.is_match \in {"yes", "unset"}
MaySkip(parse) == parse.is_match \in {"no", "unset"}

AtLine == pc = "counting" /\ i \in DOMAIN reader_result

\* Slip: the iterator is advanced twice.
AdvanceSlip ==
    /\ i' = i + 2
    /\ UNCHANGED <<pc, rule, bank, room, reader_result, buffer, ret>>

Advance ==
    /\ i' = i + 1
    /\ UNCHANGED <<pc, rule, bank, room, reader_result, buffer, ret>>

SkipLine ==
    /\ AtLine /\ MaySkip(reader_result[i])
    /\ Advance
    /\ UNCHANGED <<counted, stat_result>>

\* find_if gives the first record that matches.
CountAgain ==
    /\ AtLine /\ MayCount(reader_result[i])
    /\ \E k \in DOMAIN stat_result :
          /\ Matches(stat_result[k], reader_result[i])
          /\ \A j \in 1..(k - 1) : ~Matches(stat_result[j], reader_result[i])
          /\ stat_result' =
                [stat_result EXCEPT ![k] = Repeated(@, reader_result[i])]
    /\ counted' = counted \union {i}
    /\ Advance

NewRecord ==
    /\ AtLine /\ MayCount(reader_result[i])
    /\ \A k \in DOMAIN stat_result :
          ~Matches(stat_result[k], reader_result[i])
    /\ stat_result' = Append(stat_result, new_stat(reader_result[i]))
    /\ counted' = counted \union {i}
    /\ Advance

CountingEnds ==
    /\ pc = "counting" /\ i \notin DOMAIN reader_result
    /\ pc' = "filling"
    /\ UNCHANGED <<rule, bank, room, reader_result, counted, i, stat_result,
                   buffer, ret>>

-----------------------------------------------------------------------------
(* RFStatistics: the copy *)

\* The number of units the loop lets in: its test is for the size of
\* stat_result, not for room.
Limit == Len(stat_result)

Fill ==
    /\ pc = "filling"
    /\ LET fits == Len(stat_result) <= Limit
       IN  /\ buffer' = SubSeq(stat_result, 1,
                               IF fits THEN Len(stat_result) ELSE Limit)
           /\ ret' = IF fits THEN ret ELSE "RFID_ERR_BUFFER_OVERFLOW"
    /\ pc' = "idle"
    /\ UNCHANGED <<rule, bank, room, reader_result, counted, i, stat_result>>

Next ==
    \/ RejectBuffer \/ RejectHandle \/ Call \/ Collect \/ ReadEnds
    \/ SkipLine \/ CountAgain \/ NewRecord \/ CountingEnds \/ Fill

Spec == Init /\ [][Next]_vars

-----------------------------------------------------------------------------
(* Properties *)

\* Every variable keeps its type, and the lines counted are behind i.
TypeOK ==
    /\ pc \in {"idle", "reading", "counting", "filling"}
    /\ rule \in Rules /\ bank \in Banks /\ room \in Rooms
    /\ reader_result \in Seq(Parses)
    /\ stat_result \in Seq(Records) /\ buffer \in Seq(Records)
    /\ i \in 1..(Len(reader_result) + 1)
    /\ counted \subseteq 1..(i - 1)
    /\ ret \in {"RFID_OK", "RFID_ERR_INVALID_BUFFER",
                "RFID_ERR_INVALID_HANDLE", "RFID_ERR_BUFFER_OVERFLOW"}

\* A text that fits its array with the NUL behind it.
EpcFits(epc) == Len(epc) < EPC_LEN
TidFits(tid) == Len(tid) < TID_LEN

\* The lines counted for an antenna and an EPC, or an antenna and a TID.
OfEpc(a, e) ==
    {n \in counted : reader_result[n].antenna = a /\ reader_result[n].epc = e}
OfTid(a, t) ==
    {n \in counted : reader_result[n].antenna = a /\ reader_result[n].tid = t}

\* For every text that fits, and whatever other lines came, ones that do not
\* fit included, the find-or-append loop counts what a tally per tag would:
\* by EPC, each record has the number of lines of its antenna and EPC; by
\* TID, those of its antenna and TID, or the one line without a TID it was
\* made for.  (A text that does not fit is found again only when the field
\* behind it is empty or happens to go on as the text does: otherwise each
\* of its lines makes a record of its own.)
TallyExact ==
    \A k \in DOMAIN stat_result :
        LET item == stat_result[k]
        IN  /\ rule = "BY_EPC" /\ EpcFits(item.epc) =>
                   item.count = Cardinality(OfEpc(item.antenna, item.epc))
            /\ rule = "BY_TID" /\ TidFits(item.tid) =>
                   item.count = IF item.tid = Empty THEN 1
                                ELSE Cardinality(OfTid(item.antenna, item.tid))

\* A line may have been counted in a record.
CountedIn(item, parse) ==
    /\ item.antenna = parse.antenna
    /\ \/ item.epc = EpcField(parse.epc)
       \/ item.tid = TidField(parse.tid)
       \/ parse.tid = Empty

\* Whatever the rule, and however lines without TID, with errors or with no
\* EPC came between: the counted lines can be dealt out to the records, each
\* to one of its antenna that has what its array holds of the line's EPC or
\* TID (a line without TID may be in any), so that every record has as many
\* as its count says.  Texts that do not fit are no exception.
CountedOnce ==
    \E home \in [counted -> DOMAIN stat_result] :
        /\ \A n \in counted : CountedIn(stat_result[home[n]], reader_result[n])
        /\ \A k \in DOMAIN stat_result :
              stat_result[k].count = Cardinality({n \in counted : home[n] = k})

\* A line without TID began a record, whose TID was then filled in.
BeganWithoutTid(item) ==
    \E n \in counted :
        /\ reader_result[n].antenna = item.antenna
        /\ EpcField(reader_result[n].epc) = item.epc
        /\ reader_result[n].tid = Empty

\* What the rule says is one tag has one record per antenna, as far as its
\* text fits: one EPC unless the rule is by TID, one TID when it is.  By EPC
\* or TID, at most one record has no TID, and two come to one TID only by the
\* fill-in, when the EPC of one of them was first read without a TID: lines
\* (e1, -), (e2, t1), (e1, t1) leave two records of t1.
OneRecordPerTag ==
    \A j, k \in DOMAIN stat_result :
        LET one == stat_result[j]  other == stat_result[k]
        IN  j # k /\ one.antenna = other.antenna =>
                /\ rule # "BY_TID" /\ EpcFits(one.epc) => one.epc # other.epc
                /\ rule = "BY_TID" /\ one.tid # Empty /\ TidFits(one.tid) =>
                      one.tid # other.tid
                /\ rule = "BY_EPC_OR_TID" /\ TidFits(one.tid)
                   /\ one.tid = other.tid =>
                      /\ one.tid # Empty
                      /\ BeganWithoutTid(one) \/ BeganWithoutTid(other)

\* EPC and TID of a record, as far as its arrays hold them, were read
\* together, in one line of that antenna, although the record found for a
\* line may be another tag's (with BY_EPC_OR_TID two lines without TID match,
\* whatever their EPCs) and the TID may have been filled in later.
TidOfSameTag ==
    \A k \in DOMAIN stat_result :
        \E n \in counted :
            /\ reader_result[n].antenna = stat_result[k].antenna
            /\ EpcField(reader_result[n].epc) = stat_result[k].epc
            /\ TidField(reader_result[n].tid) = stat_result[k].tid

\* c_if.cpp:433 says of stat_count "max units of buffer": the call writes no
\* more units than that.
StatCountRespected == Len(buffer) <= room

=============================================================================
