------------------------- MODULE TagStatistics_proofs -------------------------
(***************************************************************************)
(* For any antennas, any texts and lengths of the arrays, any number of    *)
(* lines and any rule: the find-or-append loop of DoStatisticHelper counts *)
(* each tag whose text fits exactly and keeps one record of it, counts no  *)
(* line twice, and joins no EPC with another tag's TID.                    *)
(*                                                                         *)
(* The arrays come in through MatchedTexts alone: a record that reads as a *)
(* text holds what memcpy left of it, and one that holds a text that fits  *)
(* reads as that text.  The tally of a record does not follow from itself: *)
(* that a new record begins at 1 needs that no line of its tag was counted *)
(* before, which is EveryLineHasRecord.  CountedOnce is inductive as it    *)
(* stands: the record that took a line (home) keeps it, for its antenna    *)
(* and EPC never change and its TID only from the empty one.               *)
(***************************************************************************)
EXTENDS TagStatistics, FiniteSetTheorems, SequenceTheorems, TLAPS

\* By EPC or by TID, every counted line has the record of its tag, if the
\* text fits.
EveryLineHasRecord ==
    \A n \in counted :
        LET parse == reader_result[n]
        IN  /\ rule = "BY_EPC" /\ EpcFits(parse.epc) =>
                  \E k \in DOMAIN stat_result :
                     /\ stat_result[k].antenna = parse.antenna
                     /\ stat_result[k].epc = parse.epc
            /\ rule = "BY_TID" /\ TidFits(parse.tid) /\ parse.tid # Empty =>
                  \E k \in DOMAIN stat_result :
                     /\ stat_result[k].antenna = parse.antenna
                     /\ stat_result[k].tid = parse.tid

\* Counting begins with nothing counted.
NothingCounted == pc = "reading" => counted = {} /\ stat_result = <<>>

Inv == /\ TypeOK /\ NothingCounted /\ EveryLineHasRecord
       /\ TallyExact /\ CountedOnce /\ OneRecordPerTag /\ TidOfSameTag

-----------------------------------------------------------------------------
(* Texts and the arrays that hold them.                                    *)

\* What an array holds of a text.
LEMMA StoredText ==
    ASSUME NEW n \in Nat \ {0}, NEW text \in Seq(Nat)
    PROVE  /\ Stored(text, n) \in Seq(Nat) /\ Len(Stored(text, n)) <= n
           /\ Len(text) < n => Stored(text, n) = text
           /\ Len(Stored(text, n)) < n => Stored(text, n) = text
  <1>1. CASE Len(text) < n
    BY <1>1 DEF Stored
  <1>2. CASE ~(Len(text) < n)
    <2>1. \A k \in 1..n : text[k] \in Nat
      BY <1>2
    <2>2. SubSeq(text, 1, n) \in Seq(Nat) /\ Len(SubSeq(text, 1, n)) = n
      BY <2>1, SubSeqProperties
    <2> QED BY <1>2, <2>2 DEF Stored
  <1> QED BY <1>1, <1>2

\* An array with no NUL is read on into what follows, but holds no less of
\* that text.
LEMMA StoredOfRead ==
    ASSUME NEW n \in Nat \ {0}, NEW field \in Seq(Nat), Len(field) <= n,
           NEW next \in Seq(Nat), NEW text,
           text = IF Len(field) < n THEN field ELSE field \o next
    PROVE  text \in Seq(Nat) /\ Stored(text, n) = field
  <1>1. CASE Len(field) < n
    BY <1>1 DEF Stored
  <1>2. CASE ~(Len(field) < n)
    <2>1. Len(field) = n /\ text = field \o next
      BY <1>2
    <2>2. text \in Seq(Nat) /\ Len(text) = n + Len(next)
      BY <2>1, ConcatProperties
    <2>3. SubSeq(text, 1, n) = SubSeq(field, 1, n)
      BY <2>1, SubSeqOfConcat1
    <2>4. SubSeq(field, 1, n) = field
      BY <2>1
    <2> QED BY <2>2, <2>3, <2>4 DEF Stored
  <1> QED BY <1>1, <1>2

LEMMA TextsAreSequences ==
    /\ Epcs \union {Empty} \subseteq Seq(Nat)
    /\ Tids \union {Empty} \subseteq Seq(Nat)
  <1>1. Epcs \subseteq Seq(Nat) /\ Tids \subseteq Seq(Nat)
    BY Zenon, TextAssumption
  <1>2. Empty \in Seq(Nat)
    BY DEF Empty
  <1> QED BY <1>1, <1>2

LEMMA RecordTexts ==
    ASSUME NEW item \in Records
    PROVE  /\ item.epc \in Seq(Nat) /\ Len(item.epc) <= EPC_LEN
           /\ item.tid \in Seq(Nat) /\ Len(item.tid) <= TID_LEN
  <1>1. /\ item.epc \in {EpcField(text) : text \in Epcs \union {Empty}}
        /\ item.tid \in {TidField(text) : text \in Tids \union {Empty}}
    BY DEF Records
  <1>2. /\ Epcs \union {Empty} \subseteq Seq(Nat)
        /\ Tids \union {Empty} \subseteq Seq(Nat)
    BY TextsAreSequences
  <1>3. PICK epc \in Seq(Nat), tid \in Seq(Nat) :
           item.epc = Stored(epc, EPC_LEN) /\ item.tid = Stored(tid, TID_LEN)
    BY <1>1, <1>2 DEF EpcField, TidField
  <1> QED BY <1>3, StoredText, LengthAssumption

\* The fields made of the texts of a line.
LEMMA FittingFields ==
    ASSUME NEW parse \in Parses
    PROVE  /\ EpcFits(EpcField(parse.epc)) => EpcField(parse.epc) = parse.epc
           /\ TidFits(TidField(parse.tid)) => TidField(parse.tid) = parse.tid
           /\ EpcFits(parse.epc) => EpcField(parse.epc) = parse.epc
           /\ TidFits(parse.tid) => TidField(parse.tid) = parse.tid
           /\ TidFits(Empty)
           /\ TidField(parse.tid) = Empty => parse.tid = Empty
  <1>1. /\ Epcs \union {Empty} \subseteq Seq(Nat)
        /\ Tids \union {Empty} \subseteq Seq(Nat)
    BY TextsAreSequences
  <1>2. parse.epc \in Seq(Nat) /\ parse.tid \in Seq(Nat)
    BY <1>1 DEF Parses
  <1>3. EPC_LEN \in Nat \ {0} /\ TID_LEN \in Nat \ {0}
    BY LengthAssumption
  <1>4. /\ EpcFits(EpcField(parse.epc)) => EpcField(parse.epc) = parse.epc
        /\ TidFits(TidField(parse.tid)) => TidField(parse.tid) = parse.tid
        /\ EpcFits(parse.epc) => EpcField(parse.epc) = parse.epc
        /\ TidFits(parse.tid) => TidField(parse.tid) = parse.tid
    BY <1>2, <1>3, StoredText DEF EpcFits, TidFits, EpcField, TidField
  <1>5. TidFits(Empty)
    BY <1>3 DEF TidFits, Empty
  <1> QED BY <1>4, <1>5

\* What it means that a record reads as the text of a line.
LEMMA MatchedTexts ==
    ASSUME NEW item \in Records, NEW parse \in Parses
    PROVE  /\ EpcText(item) = parse.epc => item.epc = EpcField(parse.epc)
           /\ TidText(item) = parse.tid => item.tid = TidField(parse.tid)
           /\ EpcFits(item.epc) => EpcText(item) = item.epc
           /\ TidFits(item.tid) => TidText(item) = item.tid
           /\ EpcFits(EpcField(parse.epc)) => EpcField(parse.epc) = parse.epc
           /\ TidFits(TidField(parse.tid)) => TidField(parse.tid) = parse.tid
           /\ EpcFits(parse.epc) => EpcField(parse.epc) = parse.epc
           /\ TidFits(parse.tid) => TidField(parse.tid) = parse.tid
           /\ TidFits(Empty)
           /\ TidField(parse.tid) = Empty => parse.tid = Empty
  <1>1. /\ item.epc \in Seq(Nat) /\ Len(item.epc) <= EPC_LEN
        /\ item.tid \in Seq(Nat) /\ Len(item.tid) <= TID_LEN
    BY RecordTexts
  <1>2. EPC_LEN \in Nat \ {0} /\ TID_LEN \in Nat \ {0} /\ ReaderID \in Seq(Nat)
    BY LengthAssumption, TextAssumption
  <1>3. TidText(item) \in Seq(Nat) /\ TidField(TidText(item)) = item.tid
    BY <1>1, <1>2, StoredOfRead DEF TidText, TidField
  <1>4. EpcField(EpcText(item)) = item.epc
    BY <1>1, <1>2, <1>3, StoredOfRead DEF EpcText, EpcField
  <1>5. /\ EpcFits(item.epc) => EpcText(item) = item.epc
        /\ TidFits(item.tid) => TidText(item) = item.tid
    BY DEF EpcFits, TidFits, EpcText, TidText
  <1> QED BY <1>3, <1>4, <1>5, FittingFields

-----------------------------------------------------------------------------
\* A record is repeated with its antenna and EPC; its TID changes only from
\* the empty one to that of the line.
LEMMA RepeatedRecord ==
    ASSUME NEW item \in Records, NEW parse \in Parses
    PROVE  /\ Repeated(item, parse) \in Records
           /\ Repeated(item, parse).antenna = item.antenna
           /\ Repeated(item, parse).epc = item.epc
           /\ Repeated(item, parse).count = item.count + 1
           /\ Repeated(item, parse).tid =
                 IF item.tid = Empty THEN TidField(parse.tid) ELSE item.tid
  <1> DEFINE tid == IF item.tid = Empty THEN TidField(parse.tid) ELSE item.tid
  <1>1. tid \in {TidField(text) : text \in Tids \union {Empty}}
    BY DEF Records, Parses
  <1>2. Repeated(item, parse) =
           [antenna |-> item.antenna, epc |-> item.epc, tid |-> tid,
            count |-> item.count + 1]
    BY DEF Repeated
  <1> HIDE DEF tid
  <1>3. /\ item.antenna \in Antennas
        /\ item.epc \in {EpcField(text) : text \in Epcs \union {Empty}}
        /\ item.count + 1 \in Nat
    BY DEF Records
  <1>4. Repeated(item, parse) \in Records
    BY <1>1, <1>2, <1>3 DEF Records
  <1> QED BY <1>2, <1>4 DEF tid

LEMMA NewStatRecord ==
    ASSUME NEW parse \in Parses
    PROVE  new_stat(parse) \in Records
  BY DEF new_stat, Parses, Records

LEMMA ParseType ==
    ASSUME NEW line \in Lines
    PROVE  RfidParseUR(line) \in Parses
  <1> DEFINE read == bank # "NONE" /\ line.kind \in {"tag", "error", "short"}
             match == read /\ line.kind # "short"
  <1>1. line.antenna \in Antennas /\ line.epc \in Epcs /\ line.part2 \in Tids
    BY DEF Lines
  <1>2. (IF ~read THEN "unset" ELSE IF match THEN "yes" ELSE "no")
            \in {"yes", "no", "unset"}
    OBVIOUS
  <1>3. (IF match THEN line.epc ELSE Empty) \in Epcs \union {Empty}
    BY <1>1
  <1>4. (IF read /\ line.kind # "error" /\ bank # "USER"
         THEN line.part2 ELSE Empty) \in Tids \union {Empty}
    BY <1>1
  <1> HIDE DEF read, match
  <1>5. [antenna |-> line.antenna,
         is_match |-> IF ~read THEN "unset" ELSE IF match THEN "yes" ELSE "no",
         epc |-> IF match THEN line.epc ELSE Empty,
         tid |-> IF read /\ line.kind # "error" /\ bank # "USER"
                 THEN line.part2 ELSE Empty] \in Parses
    BY <1>1, <1>2, <1>3, <1>4 DEF Parses
  <1> QED BY <1>5 DEF RfidParseUR, read, match

\* Before the first line there is nothing to deal out.
LEMMA NoneCounted ==
    ASSUME counted = {}, stat_result = << >>
    PROVE  CountedOnce
  <1> DEFINE none == [n \in {} |-> 1]
  <1>1. none \in [counted -> DOMAIN stat_result] /\ DOMAIN stat_result = {}
    OBVIOUS
  <1> QED BY <1>1 DEF CountedOnce

LEMMA InvInit == Init => Inv
  <1> SUFFICES ASSUME Init PROVE Inv
    OBVIOUS
  <1>1. << >> \in Seq(Parses) /\ << >> \in Seq(Records) /\ Len(<< >>) = 0
    OBVIOUS
  <1>2. TypeOK
    BY <1>1 DEF Init, TypeOK
  <1>3. counted = {} /\ stat_result = << >> /\ DOMAIN stat_result = {}
    BY DEF Init
  <1>4. CountedOnce
    BY <1>3, NoneCounted
  <1> QED BY <1>2, <1>3, <1>4 DEF Init, Inv, NothingCounted, EveryLineHasRecord,
              TallyExact, OneRecordPerTag, TidOfSameTag

-----------------------------------------------------------------------------
\* Every step keeps the types.
LEMMA TypeStep == Inv /\ [Next]_vars => TypeOK'
  <1> SUFFICES ASSUME Inv, [Next]_vars PROVE TypeOK'
    OBVIOUS
  <1>0. TypeOK
    BY DEF Inv
  <1> USE DEF TypeOK
  <1>1. CASE RejectBuffer
    BY <1>0, <1>1 DEF RejectBuffer
  <1>2. CASE RejectHandle
    <2>1. << >> \in Seq(Records)
      OBVIOUS
    <2> QED BY <1>0, <1>2, <2>1 DEF RejectHandle
  <1>3. CASE Call
    <2>1. << >> \in Seq(Parses) /\ << >> \in Seq(Records) /\ Len(<< >>) = 0
      OBVIOUS
    <2> QED BY <1>0, <1>3, <2>1 DEF Call
  <1>4. CASE Collect
    <2>1. PICK line \in Lines :
             reader_result' = Append(reader_result, RfidParseUR(line))
      BY <1>4 DEF Collect
    <2>2. RfidParseUR(line) \in Parses
      BY ParseType
    <2>3. /\ reader_result' \in Seq(Parses)
          /\ Len(reader_result') = Len(reader_result) + 1
      BY <1>0, <2>1, <2>2
    <2>4. i \in 1..(Len(reader_result') + 1)
      BY <1>0, <2>3
    <2> QED BY <1>0, <1>4, <2>3, <2>4 DEF Collect
  <1>5. CASE ReadEnds
    BY <1>0, <1>5 DEF ReadEnds
  <1>6. CASE SkipLine
    <2>1. i \in 1..Len(reader_result)
      BY <1>0, <1>6 DEF SkipLine, AtLine
    <2> QED BY <1>0, <1>6, <2>1 DEF SkipLine, Advance
  <1>7. CASE CountAgain
    <2>1. i \in 1..Len(reader_result) /\ reader_result[i] \in Parses
      BY <1>0, <1>7 DEF CountAgain, AtLine
    <2>2. PICK k \in DOMAIN stat_result :
             stat_result' =
                [stat_result EXCEPT ![k] = Repeated(@, reader_result[i])]
      BY <1>7 DEF CountAgain
    <2>3. Repeated(stat_result[k], reader_result[i]) \in Records
      BY <1>0, <2>1, RepeatedRecord
    <2>4. stat_result' \in Seq(Records)
      BY <1>0, <2>2, <2>3
    <2>5. counted' = counted \union {i} /\ i' = i + 1
      BY <1>7 DEF CountAgain, Advance
    <2>6. i' \in 1..(Len(reader_result) + 1) /\ counted' \subseteq 1..(i' - 1)
      BY <1>0, <2>1, <2>5
    <2> QED BY <1>0, <1>7, <2>4, <2>6 DEF CountAgain, Advance
  <1>8. CASE NewRecord
    <2>1. i \in 1..Len(reader_result) /\ reader_result[i] \in Parses
      BY <1>0, <1>8 DEF NewRecord, AtLine
    <2>2. stat_result' \in Seq(Records)
      BY <1>0, <1>8, <2>1, NewStatRecord DEF NewRecord
    <2>3. counted' = counted \union {i} /\ i' = i + 1
      BY <1>8 DEF NewRecord, Advance
    <2>4. i' \in 1..(Len(reader_result) + 1) /\ counted' \subseteq 1..(i' - 1)
      BY <1>0, <2>1, <2>3
    <2> QED BY <1>0, <1>8, <2>2, <2>4 DEF NewRecord, Advance
  <1>9. CASE CountingEnds
    BY <1>0, <1>9 DEF CountingEnds
  <1>10. CASE Fill
    <2>1. SubSeq(stat_result, 1, Len(stat_result)) \in Seq(Records)
      BY <1>0
    <2>2. buffer' = SubSeq(stat_result, 1, Len(stat_result)) /\ ret' = ret
      BY <1>0, <1>10 DEF Fill, Limit
    <2> QED BY <1>0, <1>10, <2>1, <2>2 DEF Fill
  <1>11. CASE UNCHANGED vars
    BY <1>0, <1>11 DEF vars
  <1> QED BY <1>1, <1>2, <1>3, <1>4, <1>5, <1>6, <1>7, <1>8, <1>9, <1>10, <1>11
          DEF Next

-----------------------------------------------------------------------------
(* A step that counts no line leaves records and lines counted alone, or   *)
(* begins with none.                                                       *)

Quiet == \/ counted' = {} /\ stat_result' = << >>
         \/ UNCHANGED <<rule, reader_result, counted, stat_result>>

LEMMA QuietStep ==
    ASSUME Inv, [Next]_vars, ~CountAgain, ~NewRecord
    PROVE  Quiet
  <1>1. CASE Collect
    BY <1>1 DEF Collect, Quiet, Inv, NothingCounted
  <1>2. CASE ~Collect
    BY <1>2 DEF Next, vars, Quiet, RejectBuffer, RejectHandle, Call, ReadEnds,
                SkipLine, Advance, CountingEnds, Fill
  <1> QED BY <1>1, <1>2

LEMMA NoneCountedNext ==
    ASSUME counted' = {}, stat_result' = << >>
    PROVE  CountedOnce'
  <1> DEFINE none == [n \in {} |-> 1]
  <1>1. none \in [counted' -> DOMAIN stat_result'] /\ DOMAIN stat_result' = {}
    OBVIOUS
  <1> QED BY <1>1 DEF CountedOnce

LEMMA QuietKeeps ==
    ASSUME Inv, Quiet
    PROVE  /\ EveryLineHasRecord' /\ TallyExact' /\ CountedOnce'
           /\ OneRecordPerTag' /\ TidOfSameTag'
  <1>1. CASE counted' = {} /\ stat_result' = << >>
    <2>1. CountedOnce'
      BY <1>1, NoneCountedNext
    <2> QED BY <1>1, <2>1 DEF EveryLineHasRecord, TallyExact,
                              OneRecordPerTag, TidOfSameTag
  <1>2. CASE UNCHANGED <<rule, reader_result, counted, stat_result>>
    <2>1. EveryLineHasRecord'
      BY <1>2 DEF Inv, EveryLineHasRecord
    <2>2. TallyExact'
      BY <1>2 DEF Inv, TallyExact, OfEpc, OfTid
    <2>3. OneRecordPerTag' /\ TidOfSameTag'
      BY <1>2 DEF Inv, OneRecordPerTag, BeganWithoutTid, TidOfSameTag
    <2>4. CountedOnce'
      BY <1>2 DEF Inv, CountedOnce
    <2> QED BY <2>1, <2>2, <2>3, <2>4
  <1> QED BY <1>1, <1>2 DEF Quiet

\* No line is counted, and no record made, before the reads are over.
LEMMA NothingCountedStep == Inv /\ [Next]_vars => NothingCounted'
  <1> SUFFICES ASSUME Inv, [Next]_vars PROVE NothingCounted'
    OBVIOUS
  <1> QED BY DEF Inv, NothingCounted, Next, vars, RejectBuffer, RejectHandle,
                 Call, Collect, ReadEnds, SkipLine, CountAgain, NewRecord,
                 AtLine, Advance, CountingEnds, Fill

-----------------------------------------------------------------------------
(* The two steps that count a line.                                        *)

LEMMA CountFacts ==
    ASSUME Inv, CountAgain \/ NewRecord
    PROVE  /\ rule' = rule /\ reader_result' = reader_result
           /\ counted' = counted \union {i} /\ i \notin counted
           /\ i \in DOMAIN reader_result /\ reader_result[i] \in Parses
           /\ IsFiniteSet(counted)
           /\ stat_result \in Seq(Records) /\ rule \in Rules
  <1>1. /\ rule' = rule /\ reader_result' = reader_result
        /\ counted' = counted \union {i} /\ i \in DOMAIN reader_result
    BY DEF CountAgain, NewRecord, Advance, AtLine
  <1>2. i \in Nat /\ counted \subseteq 1..(i - 1)
    BY DEF Inv, TypeOK
  <1>3. IsFiniteSet(1..(i - 1))
    BY <1>2, FS_Interval
  <1>4. IsFiniteSet(counted)
    BY <1>2, <1>3, FS_Subset
  <1>5. i \notin counted
    BY <1>2
  <1> QED BY <1>1, <1>4, <1>5 DEF Inv, TypeOK

\* The record that a line is counted in again.
LEMMA AgainFacts ==
    ASSUME Inv, CountAgain
    PROVE  \E k \in DOMAIN stat_result :
              /\ Matches(stat_result[k], reader_result[i])
              /\ stat_result' \in Seq(Records)
              /\ DOMAIN stat_result' = DOMAIN stat_result
              /\ \A j \in DOMAIN stat_result :
                    j # k => stat_result'[j] = stat_result[j]
              /\ stat_result'[k].antenna = stat_result[k].antenna
              /\ stat_result'[k].epc = stat_result[k].epc
              /\ stat_result'[k].count = stat_result[k].count + 1
              /\ stat_result'[k].tid = IF stat_result[k].tid = Empty
                                       THEN TidField(reader_result[i].tid)
                                       ELSE stat_result[k].tid
  <1>1. PICK k \in DOMAIN stat_result :
           /\ Matches(stat_result[k], reader_result[i])
           /\ stat_result' =
                 [stat_result EXCEPT ![k] = Repeated(@, reader_result[i])]
    BY DEF CountAgain
  <1>2. stat_result[k] \in Records /\ reader_result[i] \in Parses
    BY CountFacts
  <1>3. Repeated(stat_result[k], reader_result[i]) \in Records
    BY <1>2, RepeatedRecord
  <1>4. stat_result' \in Seq(Records)
    BY <1>1, <1>3, CountFacts
  <1>5. stat_result'[k] = Repeated(stat_result[k], reader_result[i])
    BY <1>1, CountFacts
  <1>6. /\ stat_result'[k].antenna = stat_result[k].antenna
        /\ stat_result'[k].epc = stat_result[k].epc
        /\ stat_result'[k].count = stat_result[k].count + 1
        /\ stat_result'[k].tid = IF stat_result[k].tid = Empty
                                 THEN TidField(reader_result[i].tid)
                                 ELSE stat_result[k].tid
    BY <1>2, <1>5, RepeatedRecord
  <1>7. /\ DOMAIN stat_result' = DOMAIN stat_result
        /\ \A j \in DOMAIN stat_result :
              j # k => stat_result'[j] = stat_result[j]
    BY <1>1, CountFacts
  <1> QED BY <1>1, <1>4, <1>6, <1>7

\* The record that is made for a line.
LEMMA NewFacts ==
    ASSUME Inv, NewRecord
    PROVE  LET last == Len(stat_result) + 1
           IN  /\ \A k \in DOMAIN stat_result :
                     /\ ~Matches(stat_result[k], reader_result[i])
                     /\ stat_result'[k] = stat_result[k] /\ k # last
               /\ DOMAIN stat_result' = DOMAIN stat_result \union {last}
               /\ stat_result'[last].antenna = reader_result[i].antenna
               /\ stat_result'[last].epc = EpcField(reader_result[i].epc)
               /\ stat_result'[last].tid = TidField(reader_result[i].tid)
               /\ stat_result'[last].count = 1
  <1>1. /\ stat_result' = Append(stat_result, new_stat(reader_result[i]))
        /\ \A k \in DOMAIN stat_result :
              ~Matches(stat_result[k], reader_result[i])
    BY DEF NewRecord
  <1>2. stat_result \in Seq(Records) /\ new_stat(reader_result[i]) \in Records
    BY CountFacts, NewStatRecord
  <1>3. /\ stat_result'[Len(stat_result) + 1] = new_stat(reader_result[i])
        /\ DOMAIN stat_result' = DOMAIN stat_result \union {Len(stat_result) + 1}
        /\ \A k \in DOMAIN stat_result : /\ stat_result'[k] = stat_result[k]
                                         /\ k # Len(stat_result) + 1
    BY <1>1, <1>2
  <1> QED BY <1>1, <1>3 DEF new_stat

-----------------------------------------------------------------------------
\* What counting a line adds to the tallies.
LEMMA EpcTally ==
    ASSUME Inv, CountAgain \/ NewRecord, NEW a, NEW e
    PROVE  /\ Cardinality(OfEpc(a, e)) \in Nat
           /\ Cardinality(OfEpc(a, e)') =
                 IF reader_result[i].antenna = a /\ reader_result[i].epc = e
                 THEN Cardinality(OfEpc(a, e)) + 1
                 ELSE Cardinality(OfEpc(a, e))
  <1>1. IsFiniteSet(OfEpc(a, e)) /\ i \notin OfEpc(a, e)
    BY CountFacts, FS_Subset DEF OfEpc
  <1>2. OfEpc(a, e)' =
           IF reader_result[i].antenna = a /\ reader_result[i].epc = e
           THEN OfEpc(a, e) \union {i} ELSE OfEpc(a, e)
    BY CountFacts DEF OfEpc
  <1>3. Cardinality(OfEpc(a, e) \union {i}) = Cardinality(OfEpc(a, e)) + 1
    BY <1>1, FS_AddElement
  <1>4. Cardinality(OfEpc(a, e)) \in Nat
    BY <1>1, FS_CardinalityType
  <1> QED BY <1>2, <1>3, <1>4

LEMMA TidTally ==
    ASSUME Inv, CountAgain \/ NewRecord, NEW a, NEW t
    PROVE  /\ Cardinality(OfTid(a, t)) \in Nat
           /\ Cardinality(OfTid(a, t)') =
                 IF reader_result[i].antenna = a /\ reader_result[i].tid = t
                 THEN Cardinality(OfTid(a, t)) + 1
                 ELSE Cardinality(OfTid(a, t))
  <1>1. IsFiniteSet(OfTid(a, t)) /\ i \notin OfTid(a, t)
    BY CountFacts, FS_Subset DEF OfTid
  <1>2. OfTid(a, t)' =
           IF reader_result[i].antenna = a /\ reader_result[i].tid = t
           THEN OfTid(a, t) \union {i} ELSE OfTid(a, t)
    BY CountFacts DEF OfTid
  <1>3. Cardinality(OfTid(a, t) \union {i}) = Cardinality(OfTid(a, t)) + 1
    BY <1>1, FS_AddElement
  <1>4. Cardinality(OfTid(a, t)) \in Nat
    BY <1>1, FS_CardinalityType
  <1> QED BY <1>2, <1>3, <1>4

-----------------------------------------------------------------------------
(* Each part of the invariant under the two steps.                         *)

\* The records' antennas, EPCs and, by TID, TIDs stay, and a new line's is
\* that of the record it is counted in.
LEMMA RecordCountedAgain ==
    ASSUME Inv, CountAgain
    PROVE  EveryLineHasRecord'
  <1>1. PICK k \in DOMAIN stat_result :
           /\ Matches(stat_result[k], reader_result[i])
           /\ DOMAIN stat_result' = DOMAIN stat_result
           /\ \A j \in DOMAIN stat_result :
                 j # k => stat_result'[j] = stat_result[j]
           /\ stat_result'[k].antenna = stat_result[k].antenna
           /\ stat_result'[k].epc = stat_result[k].epc
           /\ stat_result'[k].tid = IF stat_result[k].tid = Empty
                                    THEN TidField(reader_result[i].tid)
                                    ELSE stat_result[k].tid
    BY AgainFacts
  <1>2. \A j \in DOMAIN stat_result :
           /\ stat_result'[j].antenna = stat_result[j].antenna
           /\ stat_result'[j].epc = stat_result[j].epc
           /\ stat_result[j].tid # Empty =>
                 stat_result'[j].tid = stat_result[j].tid
    BY <1>1
  <1>3. stat_result[k] \in Records /\ reader_result[i] \in Parses
    BY <1>1, CountFacts
  <1>4. ASSUME rule = "BY_EPC", NEW n \in counted', EpcFits(reader_result[n].epc)
        PROVE  \E j \in DOMAIN stat_result :
                  /\ stat_result[j].antenna = reader_result[n].antenna
                  /\ stat_result[j].epc = reader_result[n].epc
    <2>1. CASE n \in counted
      BY <1>4, <2>1 DEF Inv, EveryLineHasRecord
    <2>2. CASE n = i
      BY <1>1, <1>3, <1>4, <2>2, MatchedTexts DEF Matches
    <2> QED BY <1>4, <2>1, <2>2, CountFacts
  <1>5. ASSUME rule = "BY_TID", NEW n \in counted',
               TidFits(reader_result[n].tid), reader_result[n].tid # Empty
        PROVE  \E j \in DOMAIN stat_result :
                  /\ stat_result[j].antenna = reader_result[n].antenna
                  /\ stat_result[j].tid = reader_result[n].tid
    <2>1. CASE n \in counted
      BY <1>5, <2>1 DEF Inv, EveryLineHasRecord
    <2>2. CASE n = i
      BY <1>1, <1>3, <1>5, <2>2, MatchedTexts DEF Matches
    <2> QED BY <1>5, <2>1, <2>2, CountFacts
  <1>6. rule' = rule /\ reader_result' = reader_result
    BY CountFacts
  <1>7. ASSUME NEW n \in counted', rule = "BY_EPC", EpcFits(reader_result[n].epc)
        PROVE  \E j \in DOMAIN stat_result' :
                  /\ stat_result'[j].antenna = reader_result[n].antenna
                  /\ stat_result'[j].epc = reader_result[n].epc
    BY <1>1, <1>2, <1>4, <1>7
  <1>8. ASSUME NEW n \in counted', rule = "BY_TID",
               TidFits(reader_result[n].tid), reader_result[n].tid # Empty
        PROVE  \E j \in DOMAIN stat_result' :
                  /\ stat_result'[j].antenna = reader_result[n].antenna
                  /\ stat_result'[j].tid = reader_result[n].tid
    BY <1>1, <1>2, <1>5, <1>8
  <1> QED BY <1>6, <1>7, <1>8 DEF EveryLineHasRecord, EpcFits, TidFits

LEMMA RecordMade ==
    ASSUME Inv, NewRecord
    PROVE  EveryLineHasRecord'
  <1> PICK last : last = Len(stat_result) + 1
    OBVIOUS
  <1>1. /\ \A j \in DOMAIN stat_result : stat_result'[j] = stat_result[j]
        /\ DOMAIN stat_result' = DOMAIN stat_result \union {last}
        /\ stat_result'[last].antenna = reader_result[i].antenna
        /\ stat_result'[last].epc = EpcField(reader_result[i].epc)
        /\ stat_result'[last].tid = TidField(reader_result[i].tid)
    BY NewFacts
  <1>2. rule' = rule /\ reader_result' = reader_result
    BY CountFacts
  <1>3. /\ EpcFits(reader_result[i].epc) =>
              EpcField(reader_result[i].epc) = reader_result[i].epc
        /\ TidFits(reader_result[i].tid) =>
              TidField(reader_result[i].tid) = reader_result[i].tid
    BY CountFacts, FittingFields
  <1>4. ASSUME NEW n \in counted', rule = "BY_EPC", EpcFits(reader_result[n].epc)
        PROVE  \E j \in DOMAIN stat_result' :
                  /\ stat_result'[j].antenna = reader_result[n].antenna
                  /\ stat_result'[j].epc = reader_result[n].epc
    <2>1. CASE n \in counted
      BY <1>1, <1>4, <2>1 DEF Inv, EveryLineHasRecord
    <2>2. CASE n = i
      BY <1>1, <1>3, <1>4, <2>2
    <2> QED BY <1>4, <2>1, <2>2, CountFacts
  <1>5. ASSUME NEW n \in counted', rule = "BY_TID",
               TidFits(reader_result[n].tid), reader_result[n].tid # Empty
        PROVE  \E j \in DOMAIN stat_result' :
                  /\ stat_result'[j].antenna = reader_result[n].antenna
                  /\ stat_result'[j].tid = reader_result[n].tid
    <2>1. CASE n \in counted
      BY <1>1, <1>5, <2>1 DEF Inv, EveryLineHasRecord
    <2>2. CASE n = i
      BY <1>1, <1>3, <1>5, <2>2
    <2> QED BY <1>5, <2>1, <2>2, CountFacts
  <1> QED BY <1>2, <1>4, <1>5 DEF EveryLineHasRecord, EpcFits, TidFits

\* TallyExact, record by record.
LEMMA TallyByRecord ==
    ASSUME rule' = rule,
           \A j \in DOMAIN stat_result' : \A a, e, t :
              /\ a = stat_result'[j].antenna
              /\ e = stat_result'[j].epc /\ t = stat_result'[j].tid
              => /\ rule = "BY_EPC" /\ EpcFits(e) =>
                       stat_result'[j].count = Cardinality(OfEpc(a, e)')
                 /\ rule = "BY_TID" /\ TidFits(t) =>
                       stat_result'[j].count =
                          IF t = Empty THEN 1 ELSE Cardinality(OfTid(a, t)')
    PROVE  TallyExact'
  <1>1. SUFFICES ASSUME NEW j \in DOMAIN stat_result'
                 PROVE  (LET item == stat_result[j]
                         IN  /\ rule = "BY_EPC" /\ EpcFits(item.epc) => item.count =
                                    Cardinality(OfEpc(item.antenna, item.epc))
                             /\ rule = "BY_TID" /\ TidFits(item.tid) => item.count =
                                    IF item.tid = Empty THEN 1 ELSE
                                    Cardinality(OfTid(item.antenna, item.tid)))'
    BY DEF TallyExact
  <1>2. PICK a, e, t : /\ a = stat_result'[j].antenna
                       /\ e = stat_result'[j].epc /\ t = stat_result'[j].tid
    OBVIOUS
  <1>3. /\ OfEpc(stat_result[j].antenna, stat_result[j].epc)' = OfEpc(a, e)'
        /\ OfTid(stat_result[j].antenna, stat_result[j].tid)' = OfTid(a, t)'
    BY <1>2 DEF OfEpc, OfTid
  <1> QED BY <1>1, <1>2, <1>3 DEF EpcFits, TidFits

\* A line goes into the first record that matches, and no other matches.
LEMMA TallyCountedAgain ==
    ASSUME Inv, CountAgain
    PROVE  TallyExact'
  <1>1. PICK k \in DOMAIN stat_result :
           /\ Matches(stat_result[k], reader_result[i])
           /\ DOMAIN stat_result' = DOMAIN stat_result
           /\ \A j \in DOMAIN stat_result :
                 j # k => stat_result'[j] = stat_result[j]
           /\ stat_result'[k].antenna = stat_result[k].antenna
           /\ stat_result'[k].epc = stat_result[k].epc
           /\ stat_result'[k].count = stat_result[k].count + 1
           /\ stat_result'[k].tid = IF stat_result[k].tid = Empty
                                    THEN TidField(reader_result[i].tid)
                                    ELSE stat_result[k].tid
    BY AgainFacts
  <1>2. SUFFICES ASSUME NEW j \in DOMAIN stat_result, NEW a, NEW e, NEW t,
                        a = stat_result'[j].antenna,
                        e = stat_result'[j].epc, t = stat_result'[j].tid
                 PROVE  /\ rule = "BY_EPC" /\ EpcFits(e) =>
                              stat_result'[j].count = Cardinality(OfEpc(a, e)')
                        /\ rule = "BY_TID" /\ TidFits(t) =>
                              stat_result'[j].count =
                                 IF t = Empty THEN 1
                                 ELSE Cardinality(OfTid(a, t)')
    BY <1>1, CountFacts, TallyByRecord
  <1>3. a = stat_result[j].antenna /\ e = stat_result[j].epc
    BY <1>1, <1>2
  <1>4. /\ stat_result[k] \in Records /\ stat_result[j] \in Records
        /\ reader_result[i] \in Parses
    BY <1>1, CountFacts
  <1>5. CASE rule = "BY_EPC" /\ EpcFits(e)
    <2>1. stat_result[j].count = Cardinality(OfEpc(a, e))
      BY <1>3, <1>5 DEF Inv, TallyExact
    <2>2. CASE j = k
      <3>1. reader_result[i].antenna = a /\ reader_result[i].epc = e
        BY <1>1, <1>3, <1>4, <1>5, <2>2, MatchedTexts DEF Matches
      <3> QED BY <1>1, <1>5, <2>1, <2>2, <3>1, EpcTally
    <2>3. CASE j # k
      <3>1. ASSUME reader_result[i].antenna = a, reader_result[i].epc = e
            PROVE  FALSE
        <4>1. /\ stat_result[k].antenna = a
              /\ stat_result[k].epc = EpcField(reader_result[i].epc)
          BY <1>1, <1>4, <1>5, <3>1, MatchedTexts DEF Matches
        <4>2. stat_result[k].epc = e
          BY <1>4, <1>5, <3>1, <4>1, FittingFields
        <4> QED BY <1>1, <1>3, <1>5, <2>3, <4>1, <4>2 DEF Inv, OneRecordPerTag
      <3> QED BY <1>1, <1>5, <2>1, <2>3, <3>1, EpcTally
    <2> QED BY <2>2, <2>3
  <1>6. CASE rule = "BY_TID" /\ TidFits(t)
    <2>1. /\ stat_result[k].antenna = reader_result[i].antenna
          /\ reader_result[i].tid # Empty
          /\ stat_result[k].tid = TidField(reader_result[i].tid)
      BY <1>1, <1>4, <1>6, MatchedTexts DEF Matches
    <2>2. stat_result[k].tid # Empty
      BY <1>4, <2>1, FittingFields
    <2>3. t = stat_result[j].tid
      BY <1>1, <1>2, <2>2
    <2>4. stat_result[j].count = IF t = Empty THEN 1 ELSE Cardinality(OfTid(a, t))
      BY <1>3, <1>6, <2>3 DEF Inv, TallyExact
    <2>5. CASE j = k
      <3>1. reader_result[i].antenna = a /\ reader_result[i].tid = t /\ t # Empty
        BY <1>3, <1>4, <1>6, <2>1, <2>2, <2>3, <2>5, FittingFields
      <3> QED BY <1>1, <1>6, <2>4, <2>5, <3>1, TidTally
    <2>6. CASE j # k
      <3>1. ASSUME t # Empty, reader_result[i].antenna = a,
                   reader_result[i].tid = t
            PROVE  FALSE
        <4>1. stat_result[k].tid = t
          BY <1>4, <1>6, <2>1, <3>1, FittingFields
        <4> QED BY <1>1, <1>3, <1>6, <2>1, <2>3, <2>6, <3>1, <4>1
                DEF Inv, OneRecordPerTag
      <3> QED BY <1>1, <1>6, <2>4, <2>6, <3>1, TidTally
    <2> QED BY <2>5, <2>6
  <1> QED BY <1>5, <1>6

\* The first line of a tag: by EveryLineHasRecord none was counted before.
LEMMA TallyOfNew ==
    ASSUME Inv, NewRecord
    PROVE  TallyExact'
  <1> DEFINE last == Len(stat_result) + 1
  <1>1. SUFFICES ASSUME NEW j \in DOMAIN stat_result \union {last},
                        NEW a, NEW e, NEW t,
                        a = stat_result'[j].antenna,
                        e = stat_result'[j].epc, t = stat_result'[j].tid
                 PROVE  /\ rule = "BY_EPC" /\ EpcFits(e) =>
                              stat_result'[j].count = Cardinality(OfEpc(a, e)')
                        /\ rule = "BY_TID" /\ TidFits(t) =>
                              stat_result'[j].count =
                                 IF t = Empty THEN 1
                                 ELSE Cardinality(OfTid(a, t)')
    BY NewFacts, CountFacts, TallyByRecord
  <1>2. reader_result[i] \in Parses
    BY CountFacts
  <1>3. CASE j \in DOMAIN stat_result
    <2>1. /\ stat_result'[j] = stat_result[j] /\ stat_result[j] \in Records
          /\ ~Matches(stat_result[j], reader_result[i])
      BY <1>3, NewFacts, CountFacts
    <2>2. CASE rule = "BY_EPC" /\ EpcFits(e)
      <3>1. stat_result[j].count = Cardinality(OfEpc(a, e))
        BY <1>1, <1>3, <2>1, <2>2 DEF Inv, TallyExact
      <3>2. EpcText(stat_result[j]) = e
        BY <1>1, <1>2, <2>1, <2>2, MatchedTexts
      <3>3. ~(reader_result[i].antenna = a /\ reader_result[i].epc = e)
        BY <1>1, <2>1, <2>2, <3>2 DEF Matches
      <3> QED BY <2>1, <2>2, <3>1, <3>3, EpcTally
    <2>3. CASE rule = "BY_TID" /\ TidFits(t)
      <3>1. stat_result[j].count =
               IF t = Empty THEN 1 ELSE Cardinality(OfTid(a, t))
        BY <1>1, <1>3, <2>1, <2>3 DEF Inv, TallyExact
      <3>2. TidText(stat_result[j]) = t
        BY <1>1, <1>2, <2>1, <2>3, MatchedTexts
      <3>3. t = Empty \/ ~(reader_result[i].antenna = a /\ reader_result[i].tid = t)
        BY <1>1, <2>1, <2>3, <3>2 DEF Matches
      <3> QED BY <2>1, <2>3, <3>1, <3>3, TidTally
    <2> QED BY <2>2, <2>3
  <1>4. CASE j = last
    <2>1. /\ a = reader_result[i].antenna /\ e = EpcField(reader_result[i].epc)
          /\ t = TidField(reader_result[i].tid) /\ stat_result'[j].count = 1
      BY <1>1, <1>4, NewFacts
    <2>2. \A k \in DOMAIN stat_result : /\ stat_result[k] \in Records
                                        /\ ~Matches(stat_result[k], reader_result[i])
      BY NewFacts, CountFacts
    <2>3. CASE rule = "BY_EPC" /\ EpcFits(e)
      <3>1. reader_result[i].epc = e
        BY <1>2, <2>1, <2>3, FittingFields
      <3>2. ASSUME NEW n \in OfEpc(a, e) PROVE FALSE
        <4>1. PICK k \in DOMAIN stat_result :
                 stat_result[k].antenna = a /\ stat_result[k].epc = e
          BY <2>3, <3>2 DEF Inv, EveryLineHasRecord, OfEpc
        <4>2. EpcText(stat_result[k]) = e
          BY <1>2, <2>2, <2>3, <4>1, MatchedTexts
        <4> QED BY <2>1, <2>2, <2>3, <3>1, <4>1, <4>2 DEF Matches
      <3>3. Cardinality(OfEpc(a, e)) = 0
        BY <3>2, FS_EmptySet
      <3> QED BY <2>1, <2>3, <3>1, <3>3, EpcTally
    <2>4. CASE rule = "BY_TID" /\ TidFits(t) /\ t # Empty
      <3>1. reader_result[i].tid = t
        BY <1>2, <2>1, <2>4, FittingFields
      <3>2. ASSUME NEW n \in OfTid(a, t) PROVE FALSE
        <4>1. PICK k \in DOMAIN stat_result :
                 stat_result[k].antenna = a /\ stat_result[k].tid = t
          BY <2>4, <3>2 DEF Inv, EveryLineHasRecord, OfTid
        <4>2. TidText(stat_result[k]) = t
          BY <1>2, <2>2, <2>4, <4>1, MatchedTexts
        <4> QED BY <2>1, <2>2, <2>4, <3>1, <4>1, <4>2 DEF Matches
      <3>3. Cardinality(OfTid(a, t)) = 0
        BY <3>2, FS_EmptySet
      <3> QED BY <2>1, <2>4, <3>1, <3>3, TidTally
    <2>5. CASE rule = "BY_TID" /\ t = Empty
      BY <2>1, <2>5
    <2> QED BY <2>3, <2>4, <2>5
  <1> QED BY <1>1, <1>3, <1>4

\* A line more is dealt to record k, and the others keep their records.
LEMMA DealtTo ==
    ASSUME Inv, CountAgain \/ NewRecord, NEW k \in DOMAIN stat_result',
           CountedIn(stat_result'[k], reader_result[i]),
           \A j \in DOMAIN stat_result :
              /\ j \in DOMAIN stat_result'
              /\ \A n \in counted :
                    CountedIn(stat_result[j], reader_result[n]) =>
                       CountedIn(stat_result'[j], reader_result[n]),
           \A j \in DOMAIN stat_result' : j # k =>
              /\ j \in DOMAIN stat_result
              /\ stat_result'[j].count = stat_result[j].count,
           stat_result'[k].count = IF k \in DOMAIN stat_result
                                   THEN stat_result[k].count + 1 ELSE 1
    PROVE  CountedOnce'
  <1>1. PICK home \in [counted -> DOMAIN stat_result] :
           /\ \A n \in counted :
                 CountedIn(stat_result[home[n]], reader_result[n])
           /\ \A j \in DOMAIN stat_result :
                 stat_result[j].count = Cardinality({n \in counted : home[n] = j})
    BY DEF Inv, CountedOnce
  <1> DEFINE next ==
                [n \in counted \union {i} |-> IF n = i THEN k ELSE home[n]]
             Of(j) == {n \in counted : home[n] = j}
             OfNext(j) == {n \in counted \union {i} : next[n] = j}
  <1>2. counted' = counted \union {i} /\ i \notin counted
        /\ IsFiniteSet(counted) /\ reader_result' = reader_result
    BY CountFacts
  <1>3. next \in [counted' -> DOMAIN stat_result']
    BY <1>2
  <1>4. \A n \in counted' : CountedIn(stat_result'[next[n]], reader_result'[n])
    BY <1>1, <1>2
  <1>5. ASSUME NEW j \in DOMAIN stat_result'
        PROVE  stat_result'[j].count = Cardinality(OfNext(j))
    <2>1. IsFiniteSet(Of(j)) /\ i \notin Of(j)
      BY <1>2, FS_Subset
    <2>2. CASE j # k
      <3>1. OfNext(j) = Of(j)
        BY <1>2, <2>2
      <3> QED BY <1>1, <2>2, <3>1
    <2>3. CASE j = k
      <3>1. OfNext(j) = Of(j) \union {i}
        BY <1>2, <2>3
      <3>2. Cardinality(OfNext(j)) = Cardinality(Of(j)) + 1
        BY <2>1, <3>1, FS_AddElement
      <3>3. CASE k \in DOMAIN stat_result
        BY <1>1, <2>3, <3>2, <3>3
      <3>4. CASE k \notin DOMAIN stat_result
        <4>1. Of(j) = {}
          BY <1>1, <2>3, <3>4
        <4>2. Cardinality(Of(j)) = 0
          BY <4>1, FS_EmptySet
        <4> QED BY <2>3, <3>2, <3>4, <4>2
      <3> QED BY <3>3, <3>4
    <2> QED BY <2>2, <2>3
  <1> HIDE DEF next
  <1>6. \A j \in DOMAIN stat_result' :
           stat_result'[j].count = Cardinality({n \in counted' : next[n] = j})
    BY <1>2, <1>5
  <1> QED BY <1>3, <1>4, <1>6 DEF CountedOnce, CountedIn

LEMMA OnceCountedAgain ==
    ASSUME Inv, CountAgain
    PROVE  CountedOnce'
  <1>1. PICK k \in DOMAIN stat_result :
           /\ Matches(stat_result[k], reader_result[i])
           /\ DOMAIN stat_result' = DOMAIN stat_result
           /\ \A j \in DOMAIN stat_result :
                 j # k => stat_result'[j] = stat_result[j]
           /\ stat_result'[k].antenna = stat_result[k].antenna
           /\ stat_result'[k].epc = stat_result[k].epc
           /\ stat_result'[k].count = stat_result[k].count + 1
           /\ stat_result'[k].tid = IF stat_result[k].tid = Empty
                                    THEN TidField(reader_result[i].tid)
                                    ELSE stat_result[k].tid
    BY AgainFacts
  <1>2. CountedIn(stat_result'[k], reader_result[i])
    <2>1. stat_result[k] \in Records /\ reader_result[i] \in Parses
      BY <1>1, CountFacts
    <2>2. /\ stat_result[k].antenna = reader_result[i].antenna
          /\ \/ stat_result[k].epc = EpcField(reader_result[i].epc)
             \/ stat_result[k].tid = TidField(reader_result[i].tid)
      BY <1>1, <2>1, MatchedTexts DEF Matches
    <2> QED BY <1>1, <2>2 DEF CountedIn
  <1>3. \A j \in DOMAIN stat_result : \A n \in counted :
           CountedIn(stat_result[j], reader_result[n]) =>
              CountedIn(stat_result'[j], reader_result[n])
    <2>1. ASSUME NEW n \in counted, stat_result[k].tid = Empty,
                 stat_result[k].tid = TidField(reader_result[n].tid)
          PROVE  reader_result[n].tid = Empty
      <3>1. reader_result[n] \in Parses
        BY <2>1 DEF Inv, TypeOK
      <3> QED BY <2>1, <3>1, FittingFields
    <2> QED BY <1>1, <2>1 DEF CountedIn
  <1> QED BY <1>1, <1>2, <1>3, DealtTo

LEMMA OnceOfNew ==
    ASSUME Inv, NewRecord
    PROVE  CountedOnce'
  <1> PICK last : last = Len(stat_result) + 1
    OBVIOUS
  <1>1. /\ \A j \in DOMAIN stat_result :
              stat_result'[j] = stat_result[j] /\ j # last
        /\ DOMAIN stat_result' = DOMAIN stat_result \union {last}
        /\ stat_result'[last].antenna = reader_result[i].antenna
        /\ stat_result'[last].epc = EpcField(reader_result[i].epc)
        /\ stat_result'[last].count = 1
    BY NewFacts
  <1>2. CountedIn(stat_result'[last], reader_result[i])
    BY <1>1 DEF CountedIn
  <1>3. last \in DOMAIN stat_result' /\ last \notin DOMAIN stat_result
    BY <1>1
  <1> QED BY <1>1, <1>2, <1>3, DealtTo

\* A record without TID began without one: TidOfSameTag has the line.
LEMMA NoTidYet ==
    ASSUME Inv, NEW k \in DOMAIN stat_result, stat_result[k].tid = Empty
    PROVE  BeganWithoutTid(stat_result[k])
  <1>1. PICK n \in counted :
           /\ reader_result[n].antenna = stat_result[k].antenna
           /\ EpcField(reader_result[n].epc) = stat_result[k].epc
           /\ TidField(reader_result[n].tid) = Empty
    BY DEF Inv, TidOfSameTag
  <1>2. reader_result[n] \in Parses
    BY DEF Inv, TypeOK
  <1>3. reader_result[n].tid = Empty
    BY <1>1, <1>2, FittingFields
  <1> QED BY <1>1, <1>3 DEF BeganWithoutTid

\* How a record began does not change with the lines counted after.
LEMMA BeganStays ==
    ASSUME Inv, CountAgain \/ NewRecord, NEW k \in DOMAIN stat_result,
           k \in DOMAIN stat_result', BeganWithoutTid(stat_result[k]),
           stat_result'[k].antenna = stat_result[k].antenna,
           stat_result'[k].epc = stat_result[k].epc
    PROVE  BeganWithoutTid(stat_result[k])'
  <1>1. PICK n \in counted :
           /\ reader_result[n].antenna = stat_result[k].antenna
           /\ EpcField(reader_result[n].epc) = stat_result[k].epc
           /\ reader_result[n].tid = Empty
    BY DEF BeganWithoutTid
  <1>2. n \in counted' /\ reader_result' = reader_result
    BY CountFacts
  <1>3. /\ reader_result'[n].antenna = stat_result'[k].antenna
        /\ EpcField(reader_result'[n].epc) = stat_result'[k].epc
        /\ reader_result'[n].tid = Empty
    BY <1>1, <1>2
  <1> QED BY <1>2, <1>3 DEF BeganWithoutTid, EpcField, Empty

\* A TID is filled in only from a line with the EPC of the record: a record
\* without TID is found by its EPC, or by a line that has no TID either.
LEMMA FilledIn ==
    ASSUME Inv, CountAgain, NEW k \in DOMAIN stat_result,
           Matches(stat_result[k], reader_result[i]),
           stat_result[k].tid = Empty, TidField(reader_result[i].tid) # Empty
    PROVE  /\ rule # "BY_TID"
           /\ reader_result[i].antenna = stat_result[k].antenna
           /\ EpcField(reader_result[i].epc) = stat_result[k].epc
  <1>1. stat_result[k] \in Records /\ reader_result[i] \in Parses
    BY CountFacts
  <1>2. reader_result[i].tid # Empty
    BY <1>1, FittingFields
  <1>3. TidText(stat_result[k]) # reader_result[i].tid
    BY <1>1, <1>2, MatchedTexts
  <1> QED BY <1>1, <1>3, MatchedTexts DEF Matches

\* OneRecordPerTag, pair by pair.
LEMMA OneRecordByPair ==
    ASSUME rule' = rule,
           \A j, k \in DOMAIN stat_result' :
              j # k /\ stat_result'[j].antenna = stat_result'[k].antenna =>
                 /\ rule # "BY_TID" /\ EpcFits(stat_result'[j].epc) =>
                       stat_result'[j].epc # stat_result'[k].epc
                 /\ rule = "BY_TID" /\ stat_result'[j].tid # Empty
                    /\ TidFits(stat_result'[j].tid) =>
                       stat_result'[j].tid # stat_result'[k].tid
                 /\ rule = "BY_EPC_OR_TID" /\ TidFits(stat_result'[j].tid)
                    /\ stat_result'[j].tid = stat_result'[k].tid =>
                       /\ stat_result'[j].tid # Empty
                       /\ \/ BeganWithoutTid(stat_result[j])'
                          \/ BeganWithoutTid(stat_result[k])'
    PROVE  OneRecordPerTag'
  BY DEF OneRecordPerTag, EpcFits, TidFits, Empty, BeganWithoutTid

LEMMA OneRecordCountedAgain ==
    ASSUME Inv, CountAgain
    PROVE  OneRecordPerTag'
  <1>1. PICK k \in DOMAIN stat_result :
           /\ Matches(stat_result[k], reader_result[i])
           /\ DOMAIN stat_result' = DOMAIN stat_result
           /\ \A j \in DOMAIN stat_result :
                 j # k => stat_result'[j] = stat_result[j]
           /\ stat_result'[k].antenna = stat_result[k].antenna
           /\ stat_result'[k].epc = stat_result[k].epc
           /\ stat_result'[k].tid = IF stat_result[k].tid = Empty
                                    THEN TidField(reader_result[i].tid)
                                    ELSE stat_result[k].tid
    BY AgainFacts
  <1>2. \A j \in DOMAIN stat_result :
           /\ stat_result'[j].antenna = stat_result[j].antenna
           /\ stat_result'[j].epc = stat_result[j].epc
    BY <1>1
  <1>3. \A j \in DOMAIN stat_result : stat_result'[j].tid # stat_result[j].tid =>
           BeganWithoutTid(stat_result[j])' /\ rule # "BY_TID"
    <2>1. SUFFICES ASSUME stat_result'[k].tid # stat_result[k].tid
                   PROVE  BeganWithoutTid(stat_result[k])' /\ rule # "BY_TID"
      BY <1>1
    <2>2. stat_result[k].tid = Empty /\ TidField(reader_result[i].tid) # Empty
      BY <1>1, <2>1
    <2> QED BY <1>1, <1>2, <2>2, NoTidYet, BeganStays, FilledIn
  <1>4. SUFFICES
           ASSUME NEW j \in DOMAIN stat_result, NEW l \in DOMAIN stat_result,
                  j # l, stat_result[j].antenna = stat_result[l].antenna
           PROVE  /\ rule # "BY_TID" /\ EpcFits(stat_result'[j].epc) =>
                        stat_result'[j].epc # stat_result'[l].epc
                  /\ rule = "BY_TID" /\ stat_result'[j].tid # Empty
                     /\ TidFits(stat_result'[j].tid) =>
                        stat_result'[j].tid # stat_result'[l].tid
                  /\ rule = "BY_EPC_OR_TID" /\ TidFits(stat_result'[j].tid)
                     /\ stat_result'[j].tid = stat_result'[l].tid =>
                        /\ stat_result'[j].tid # Empty
                        /\ \/ BeganWithoutTid(stat_result[j])'
                           \/ BeganWithoutTid(stat_result[l])'
    BY <1>1, <1>2, CountFacts, OneRecordByPair
  <1>5. rule # "BY_TID" /\ EpcFits(stat_result'[j].epc) =>
           stat_result'[j].epc # stat_result'[l].epc
    BY <1>2, <1>4 DEF Inv, OneRecordPerTag
  <1>6. rule = "BY_TID" /\ stat_result'[j].tid # Empty
        /\ TidFits(stat_result'[j].tid) =>
           stat_result'[j].tid # stat_result'[l].tid
    BY <1>3, <1>4 DEF Inv, OneRecordPerTag
  <1>7. ASSUME rule = "BY_EPC_OR_TID", TidFits(stat_result'[j].tid),
               stat_result'[j].tid = stat_result'[l].tid
        PROVE  /\ stat_result'[j].tid # Empty
               /\ \/ BeganWithoutTid(stat_result[j])'
                  \/ BeganWithoutTid(stat_result[l])'
    <2>1. CASE /\ stat_result'[j].tid = stat_result[j].tid
               /\ stat_result'[l].tid = stat_result[l].tid
      <3>1. /\ stat_result[j].tid # Empty
            /\ BeganWithoutTid(stat_result[j]) \/ BeganWithoutTid(stat_result[l])
        BY <1>4, <1>7, <2>1 DEF Inv, OneRecordPerTag
      <3> QED BY <1>1, <1>2, <2>1, <3>1, BeganStays
    <2>2. CASE \/ stat_result'[j].tid # stat_result[j].tid
               \/ stat_result'[l].tid # stat_result[l].tid
      <3>1. stat_result'[k].tid # Empty /\ (j = k \/ l = k)
        BY <1>1, <2>2
      <3> QED BY <1>3, <1>7, <2>2, <3>1
    <2> QED BY <2>1, <2>2
  <1> QED BY <1>5, <1>6, <1>7

\* A line that no record matches has a text that no record holds, if it fits.
LEMMA OneRecordOfNew ==
    ASSUME Inv, NewRecord
    PROVE  OneRecordPerTag'
  <1> PICK last : last = Len(stat_result) + 1
    OBVIOUS
  <1>1. /\ \A j \in DOMAIN stat_result :
              /\ stat_result'[j] = stat_result[j] /\ j # last
              /\ stat_result[j] \in Records
              /\ ~Matches(stat_result[j], reader_result[i])
        /\ DOMAIN stat_result' = DOMAIN stat_result \union {last}
        /\ stat_result'[last].antenna = reader_result[i].antenna
        /\ stat_result'[last].epc = EpcField(reader_result[i].epc)
        /\ stat_result'[last].tid = TidField(reader_result[i].tid)
    BY NewFacts, CountFacts
  <1>2. reader_result[i] \in Parses /\ rule' = rule /\ rule \in Rules
    BY CountFacts
  <1>3. ASSUME NEW j \in DOMAIN stat_result,
               stat_result'[j].antenna = stat_result'[last].antenna
        PROVE  /\ rule # "BY_TID" =>
                     \/ ~EpcFits(stat_result'[j].epc)
                     \/ stat_result'[j].epc # stat_result'[last].epc
               /\ rule # "BY_EPC" =>
                     \/ ~TidFits(stat_result'[j].tid)
                     \/ stat_result'[j].tid # stat_result'[last].tid
                     \/ rule = "BY_TID" /\ stat_result'[j].tid = Empty
    <2>1. /\ ~Matches(stat_result[j], reader_result[i])
          /\ stat_result[j].antenna = reader_result[i].antenna
          /\ stat_result[j] \in Records /\ stat_result'[j] = stat_result[j]
      BY <1>1, <1>3
    <2>2. ASSUME EpcFits(stat_result[j].epc),
                 stat_result[j].epc = EpcField(reader_result[i].epc)
          PROVE  EpcText(stat_result[j]) = reader_result[i].epc
      BY <1>2, <2>1, <2>2, MatchedTexts
    <2>3. ASSUME TidFits(stat_result[j].tid),
                 stat_result[j].tid = TidField(reader_result[i].tid)
          PROVE  TidText(stat_result[j]) = reader_result[i].tid
      BY <1>2, <2>1, <2>3, MatchedTexts
    <2>4. TidField(reader_result[i].tid) # Empty => reader_result[i].tid # Empty
      BY <1>2, FittingFields
    <2> QED BY <1>1, <1>2, <2>1, <2>2, <2>3, <2>4 DEF Matches, Rules
  <1>4. \A j, k \in DOMAIN stat_result :
           j # k /\ stat_result'[j].antenna = stat_result'[k].antenna =>
              /\ rule # "BY_TID" /\ EpcFits(stat_result'[j].epc) =>
                    stat_result'[j].epc # stat_result'[k].epc
              /\ rule = "BY_TID" /\ stat_result'[j].tid # Empty
                 /\ TidFits(stat_result'[j].tid) =>
                    stat_result'[j].tid # stat_result'[k].tid
              /\ rule = "BY_EPC_OR_TID" /\ TidFits(stat_result'[j].tid)
                 /\ stat_result'[j].tid = stat_result'[k].tid =>
                    /\ stat_result'[j].tid # Empty
                    /\ \/ BeganWithoutTid(stat_result[j])'
                       \/ BeganWithoutTid(stat_result[k])'
    <2>1. \A j \in DOMAIN stat_result : BeganWithoutTid(stat_result[j]) =>
             BeganWithoutTid(stat_result[j])'
      BY <1>1, BeganStays
    <2> QED BY <1>1, <2>1 DEF Inv, OneRecordPerTag
  <1>5. SUFFICES
           ASSUME NEW j \in DOMAIN stat_result', NEW k \in DOMAIN stat_result',
                  j # k, stat_result'[j].antenna = stat_result'[k].antenna
           PROVE  /\ rule # "BY_TID" /\ EpcFits(stat_result'[j].epc) =>
                        stat_result'[j].epc # stat_result'[k].epc
                  /\ rule = "BY_TID" /\ stat_result'[j].tid # Empty
                     /\ TidFits(stat_result'[j].tid) =>
                        stat_result'[j].tid # stat_result'[k].tid
                  /\ rule = "BY_EPC_OR_TID" /\ TidFits(stat_result'[j].tid)
                     /\ stat_result'[j].tid = stat_result'[k].tid =>
                        /\ stat_result'[j].tid # Empty
                        /\ \/ BeganWithoutTid(stat_result[j])'
                           \/ BeganWithoutTid(stat_result[k])'
    BY <1>2, OneRecordByPair
  <1>6. CASE j \in DOMAIN stat_result /\ k \in DOMAIN stat_result
    BY <1>4, <1>5, <1>6
  <1>7. CASE j = last \/ k = last
    BY <1>1, <1>3, <1>5, <1>7
  <1> QED BY <1>1, <1>6, <1>7

LEMMA SameTagCountedAgain ==
    ASSUME Inv, CountAgain
    PROVE  TidOfSameTag'
  <1>1. PICK k \in DOMAIN stat_result :
           /\ Matches(stat_result[k], reader_result[i])
           /\ DOMAIN stat_result' = DOMAIN stat_result
           /\ \A j \in DOMAIN stat_result :
                 j # k => stat_result'[j] = stat_result[j]
           /\ stat_result'[k].antenna = stat_result[k].antenna
           /\ stat_result'[k].epc = stat_result[k].epc
           /\ stat_result'[k].tid = IF stat_result[k].tid = Empty
                                    THEN TidField(reader_result[i].tid)
                                    ELSE stat_result[k].tid
    BY AgainFacts
  <1>2. SUFFICES ASSUME NEW j \in DOMAIN stat_result
                 PROVE  \E n \in counted \union {i} :
                           /\ reader_result[n].antenna = stat_result'[j].antenna
                           /\ EpcField(reader_result[n].epc) = stat_result'[j].epc
                           /\ TidField(reader_result[n].tid) = stat_result'[j].tid
    BY <1>1, CountFacts DEF TidOfSameTag, EpcField, TidField
  <1>3. CASE stat_result'[j].tid = stat_result[j].tid
    BY <1>1, <1>3 DEF Inv, TidOfSameTag
  <1>4. CASE stat_result'[j].tid # stat_result[j].tid
    <2>1. /\ j = k /\ stat_result[k].tid = Empty
          /\ stat_result'[k].tid = TidField(reader_result[i].tid)
          /\ TidField(reader_result[i].tid) # Empty
      BY <1>1, <1>4
    <2>2. /\ reader_result[i].antenna = stat_result'[k].antenna
          /\ EpcField(reader_result[i].epc) = stat_result'[k].epc
      BY <1>1, <2>1, FilledIn
    <2> QED BY <2>1, <2>2
  <1> QED BY <1>3, <1>4

LEMMA SameTagOfNew ==
    ASSUME Inv, NewRecord
    PROVE  TidOfSameTag'
  BY NewFacts, CountFacts DEF Inv, TidOfSameTag, EpcField, TidField

-----------------------------------------------------------------------------
LEMMA InvStep == Inv /\ [Next]_vars => Inv'
  <1> SUFFICES ASSUME Inv, [Next]_vars PROVE Inv'
    OBVIOUS
  <1>1. TypeOK' /\ NothingCounted'
    BY TypeStep, NothingCountedStep
  <1>2. /\ EveryLineHasRecord' /\ TallyExact' /\ CountedOnce'
        /\ OneRecordPerTag' /\ TidOfSameTag'
    <2>1. CASE CountAgain
      BY <2>1, RecordCountedAgain, TallyCountedAgain, OnceCountedAgain,
         OneRecordCountedAgain, SameTagCountedAgain
    <2>2. CASE NewRecord
      BY <2>2, RecordMade, TallyOfNew, OnceOfNew, OneRecordOfNew, SameTagOfNew
    <2>3. CASE ~CountAgain /\ ~NewRecord
      BY <2>3, QuietStep, QuietKeeps
    <2> QED BY <2>1, <2>2, <2>3
  <1> QED BY <1>1, <1>2 DEF Inv

LEMMA AlwaysInv == Spec => []Inv
  BY InvInit, InvStep, PTL DEF Spec

\* By EPC and by TID, DoStatisticHelper counts the lines of every tag whose
\* text fits exactly, in whatever order lines, errors, lines without a comma
\* and lines of texts that do not fit come.
THEOREM TallyExactHolds == Spec => []TallyExact
  <1>1. Inv => TallyExact
    BY DEF Inv
  <1> QED BY <1>1, AlwaysInv, PTL

\* Each counted line is in the count of one record, under every rule and
\* whether its texts fit or not.
THEOREM CountedOnceHolds == Spec => []CountedOnce
  <1>1. Inv => CountedOnce
    BY DEF Inv
  <1> QED BY <1>1, AlwaysInv, PTL

\* A tag whose text fits has one record on an antenna; by EPC or TID, two
\* records have one TID only when one began without.
THEOREM OneRecordPerTagHolds == Spec => []OneRecordPerTag
  <1>1. Inv => OneRecordPerTag
    BY DEF Inv
  <1> QED BY <1>1, AlwaysInv, PTL

\* No record joins the EPC of one line with the TID of another tag's, as far
\* as its arrays hold them.
THEOREM TidOfSameTagHolds == Spec => []TidOfSameTag
  <1>1. Inv => TidOfSameTag
    BY DEF Inv
  <1> QED BY <1>1, AlwaysInv, PTL

=============================================================================
