---------------------------- MODULE PacketFraming ----------------------------
(***************************************************************************)
(* How the receiver cuts the byte stream of a reader into packets:         *)
(* CmdHandler::task_func appends what arrived to a buffer and lets three   *)
(* loops extract the lines, the heartbeats and the reboot answers that are *)
(* complete, at most MaxExtract of each per arrival.                       *)
(*                                                                         *)
(* A byte is a record: its class c, and where in the stream it is (at),    *)
(* which the code does not see.  A line is LF text CR LF, a heartbeat      *)
(* "3" "heartbeat" "00-16-" "44", a reboot answer "\x02A" CR.  A torn unit *)
(* is the end of one whose start went by before the connection was opened. *)
(* The model is one connection that begins with an empty buffer, as the    *)
(* first of a handler does: no start or stop of the receiver clears the    *)
(* buffer, so that one after a Reboot may find the start of a unit in it.  *)
(***************************************************************************)
EXTENDS Naturals, Sequences, SequencesExt

CONSTANTS
    Streams,      \* what the reader may send: sequences of units
    MaxChunk,     \* bytes one read returns at most (BUF_SIZE)
    MaxExtract    \* MAX_PACKET_EXTRACT_COUNT

Torn == {"torn_line", "torn_beat"}
Units == {"line", "beat", "boot"} \union Torn

\* A unit is torn only where the stream begins, and the connection that
\* reboots the reader is opened in time to see a whole answer.
ASSUME StreamsAssumption ==
    \A s \in Streams :
        /\ s \in Seq(Units)
        /\ \A i \in DOMAIN s :
              s[i] \in Torn => i = 1 /\ \A j \in DOMAIN s : s[j] # "boot"
ASSUME LimitsAssumption == MaxChunk \in Nat \ {0} /\ MaxExtract \in Nat \ {0}

Classes(u) ==
    CASE u = "line"      -> <<"LF", "text", "CR", "LF">>
      [] u = "torn_line" -> <<"text", "CR", "LF">>
      [] u = "beat"      -> <<"hex", "heartbeat", "00-16-", "hex">>
      [] u = "torn_beat" -> <<"00-16-", "hex">>
      [] u = "boot"      -> <<"x02A", "CR">>

VARIABLES
    stream,       \* the units the reader sends on this connection
    pos,          \* bytes received so far
    buffer,       \* CmdHandler::buffer
    phase,        \* "wait" for data, or the loop of task_func that runs
    count,        \* packets that loop extracted
    capped,       \* the loops of this task_func that stopped at the limit
    queue,        \* the packets pushed into the packet queue, in order
    beats,        \* what the heartbeat callback was called with, in order
    unheard,      \* heartbeats that were extracted with no callback set
    callback,     \* heartbeat_callback_function is set
    opened        \* OpenHeartbeat got the reader's answer and returned

vars == <<stream, pos, buffer, phase, count, capped, queue, beats, unheard,
          callback, opened>>

Bytes ==
    LET cs == FlattenSeq([n \in DOMAIN stream |-> Classes(stream[n])])
    IN [p \in DOMAIN cs |-> [c |-> cs[p], at |-> p]]

-----------------------------------------------------------------------------
(* The three patterns: the places <<first, last>> where the buffer matches *)

Spans == (DOMAIN buffer) \X (DOMAIN buffer)

LineMatches ==
    {m \in Spans :
        /\ m[1] + 2 <= m[2]
        /\ buffer[m[1]].c = "LF"
        /\ buffer[m[2] - 1].c = "CR" /\ buffer[m[2]].c = "LF"
        /\ \A i \in (m[1] + 1)..(m[2] - 2) : buffer[i].c \notin {"LF", "CR"}}

\* [0-9a-fA-F]+ takes every digit before the word, of whatever unit.
BeatMatches ==
    {m \in Spans :
        /\ m[1] + 3 <= m[2]
        /\ \A i \in m[1]..(m[2] - 3) : buffer[i].c = "hex"
        /\ buffer[m[2] - 2].c = "heartbeat"
        /\ buffer[m[2] - 1].c = "00-16-" /\ buffer[m[2]].c = "hex"}

BootMatches ==
    {m \in Spans :
        /\ m[2] = m[1] + 1
        /\ buffer[m[1]].c = "x02A" /\ buffer[m[2]].c = "CR"}

Matches(loop) ==
    CASE loop = "line" -> LineMatches
      [] loop = "beat" -> BeatMatches
      [] loop = "boot" -> BootMatches

LastSlip(ms) == CHOOSE m \in ms : \A o \in ms : o[1] <= m[1]

\* sregex_iterator stands at the leftmost match.
Found(ms) == CHOOSE m \in ms : \A o \in ms : m[1] <= o[1]

Text(m) == SubSeq(buffer, m[1], m[2])

CutSlip(m) == SubSeq(buffer, m[2] + 1, Len(buffer))

\* buffer.erase(match.position, match.length)
Cut(m) == SubSeq(buffer, 1, m[1] - 1) \o SubSeq(buffer, m[2] + 1, Len(buffer))

AfterSlip(loop) ==
    CASE loop = "line" -> "beat" [] OTHER -> "wait"

After(loop) ==
    CASE loop = "line" -> "beat" [] loop = "beat" -> "boot"
      [] loop = "boot" -> "wait"

LimitSlip(n) == n > MaxExtract

\* ++count < MAX_PACKET_EXTRACT_COUNT is false
Limit(n) == n = MaxExtract

-----------------------------------------------------------------------------
TypeOK ==
    LET Byte == [c : {"LF", "text", "CR", "hex", "heartbeat", "00-16-",
                      "x02A"},
                 at : DOMAIN Bytes]
    IN  /\ stream \in Streams
        /\ pos \in 0..Len(Bytes)
        /\ buffer \in Seq(Byte)
        /\ phase \in {"wait", "line", "beat", "boot"}
        /\ count \in 0..(MaxExtract - 1)
        /\ capped \subseteq {"line", "beat", "boot"}
        /\ queue \in Seq([type : {"line", "boot"}, text : Seq(Byte)])
        /\ beats \in Seq(Seq(Byte)) /\ unheard \in Seq(Seq(Byte))
        /\ callback \in BOOLEAN /\ opened \in BOOLEAN

\* The first connection of a handler: its buffer is still empty.
Init ==
    /\ stream \in Streams
    /\ pos = 0 /\ buffer = <<>>
    /\ phase = "wait" /\ count = 0 /\ capped = {}
    /\ queue = <<>> /\ beats = <<>> /\ unheard = <<>>
    /\ callback = FALSE /\ opened = FALSE

\* async_read_some returns bytes, and task_func appends them.
Receive ==
    /\ phase = "wait"
    /\ \E n \in 1..MaxChunk :
          /\ pos + n <= Len(Bytes)
          /\ pos' = pos + n
          /\ buffer' = buffer \o SubSeq(Bytes, pos + 1, pos + n)
    /\ phase' = "line" /\ count' = 0 /\ capped' = {}
    /\ UNCHANGED <<stream, queue, beats, unheard, callback, opened>>

\* One turn of the loop that runs, when it found the match m.
Extract(m) ==
    /\ buffer' = Cut(m)
    /\ IF Limit(count + 1)
       THEN /\ phase' = After(phase) /\ count' = 0
            /\ capped' = capped \union {phase}
       ELSE /\ count' = count + 1
            /\ UNCHANGED <<phase, capped>>
    /\ UNCHANGED <<stream, pos, callback, opened>>

ExtractToQueue ==
    /\ phase \in {"line", "boot"}
    /\ Matches(phase) # {}
    /\ LET m == Found(Matches(phase))
       IN  /\ queue' = Append(queue, [type |-> phase, text |-> Text(m)])
           /\ Extract(m)
    /\ UNCHANGED <<beats, unheard>>

\* A heartbeat goes to the callback; without one it is only logged.
ExtractBeat ==
    /\ phase = "beat"
    /\ BeatMatches # {}
    /\ LET m == Found(BeatMatches)
       IN  /\ IF callback
              THEN beats' = Append(beats, Text(m)) /\ UNCHANGED unheard
              ELSE unheard' = Append(unheard, Text(m)) /\ UNCHANGED beats
           /\ Extract(m)
    /\ UNCHANGED queue

NoMatch ==
    /\ phase # "wait"
    /\ Matches(phase) = {}
    /\ phase' = After(phase) /\ count' = 0
    /\ UNCHANGED <<stream, pos, buffer, capped, queue, beats, unheard,
                   callback, opened>>

\* set_heartbeat_callback, on another thread; nothing resets it later.
SetCallback ==
    /\ ~callback
    /\ callback' = TRUE
    /\ UNCHANGED <<stream, pos, buffer, phase, count, capped, queue, beats,
                   unheard, opened>>

\* PacketContent::to_string trims the white space at both ends; a line has
\* none inside.
to_string(packet) ==
    SelectSeq([i \in DOMAIN packet |-> packet[i].c],
              LAMBDA c : c \notin {"LF", "CR"})

\* The pattern of OpenHeartbeat is "\n@HeardbeatTime=(\\d*)\r\n".
IsTimeReply(response) == response = <<"LF", "text", "CR", "LF">>

\* OpenHeartbeat has sent its command and Send returns the line that answers
\* it: set the callback if the line is what was expected.
OpenHeartbeat ==
    /\ ~opened
    /\ opened' = TRUE
    /\ \E i \in DOMAIN queue :
          /\ queue[i].type = "line"
          /\ callback' = (callback \/ IsTimeReply(to_string(queue[i].text)))
    /\ UNCHANGED <<stream, pos, buffer, phase, count, capped, queue, beats,
                   unheard>>

Next ==
    \/ Receive \/ ExtractToQueue \/ ExtractBeat \/ NoMatch
    \/ SetCallback \/ OpenHeartbeat

Spec == Init /\ [][Next]_vars

-----------------------------------------------------------------------------
(* What the framing promises *)

LastAt(n) ==
    Len(FlattenSeq([i \in 1..n |-> Classes(stream[i])]))

Unit(n) == SubSeq(Bytes, LastAt(n - 1) + 1, LastAt(n))

\* The units of kind u, and whether one has arrived to its last byte.
Sent(u) == {n \in DOMAIN stream : stream[n] = u}
Arrived(n) == LastAt(n) <= pos

Packet(n) == [type |-> stream[n], text |-> Unit(n)]

\* The heartbeats in the order they were extracted.
Heard == unheard \o beats

\* The text of unit n, a heartbeat; the digits that are left of a torn one
\* may come first.
IsBeat(text, n) ==
    \/ text = Unit(n)
    \/ stream[1] = "torn_beat" /\ text = <<Bytes[2]>> \o Unit(n)

\* However the stream is cut into reads, whatever heartbeats and torn units
\* are in it and wherever a loop stops at its limit: each packet in the queue
\* is a line the reader sent, whole, and the lines before it in the stream
\* are those before it in the queue, so that none is lost, doubled or
\* overtaken; the same for the reboot answers (task_func, extract).
QueuedInOrder ==
    \A i \in DOMAIN queue :
        \E n \in Sent(queue[i].type) :
            /\ Arrived(n) /\ queue[i] = Packet(n)
            /\ \A m \in Sent(queue[i].type) :
                  m < n <=> \E j \in 1..(i - 1) : queue[j] = Packet(m)

\* The heartbeats too are extracted whole, once and in order, first those
\* nobody hears, then those the callback gets; all that one can bring of
\* another unit is the digits of one that was torn.
HeartbeatsInOrder ==
    \A i \in DOMAIN Heard :
        \E n \in Sent("beat") :
            /\ Arrived(n) /\ IsBeat(Heard[i], n)
            /\ \A m \in Sent("beat") :
                  m < n <=> \E j \in 1..(i - 1) : IsBeat(Heard[j], m)

\* Where a byte can be: the buffer, a queued packet, a heartbeat.
Parts == <<buffer>> \o [i \in DOMAIN queue |-> queue[i].text] \o Heard
Slots == UNION {{i} \X DOMAIN Parts[i] : i \in DOMAIN Parts}

\* Nothing is lost and nothing invented: each byte that arrived is in one
\* place, in the buffer or in one packet, and the buffer keeps the order (the
\* erase of extract takes the match and nothing else).
BytesConserved ==
    LET at == [s \in Slots |-> Parts[s[1]][s[2]].at]
    IN  /\ IsInjective(at) /\ Range(at) = 1..pos
        /\ \A i, j \in DOMAIN buffer : i < j => buffer[i].at < buffer[j].at

Extracted(n) ==
    IF stream[n] = "beat" THEN \E i \in DOMAIN Heard : IsBeat(Heard[i], n)
    ELSE \E i \in DOMAIN queue : queue[i] = Packet(n)

\* When the receiver waits for more, a packet that arrived whole is still in
\* the buffer only if the loop of its kind stopped at the limit.
NothingLeftBehind ==
    phase = "wait" =>
        \A u \in {"line", "beat", "boot"} \ capped :
            \A n \in Sent(u) : Arrived(n) => Extracted(n)

=============================================================================
