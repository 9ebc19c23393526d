----------------------------- MODULE HandleTable -----------------------------
(***************************************************************************)
(* The handles of the C API.  RFOpen makes an RfidInterface and adds it to *)
(* the vector HandleManager::handles, RFClose erases it, and every other   *)
(* call looks its handle up: is_valid_handle, get_rfid_ptr, clear_buffer,  *)
(* append_data, get_data.  Adding, erasing and append_data hold            *)
(* handles_mutex; the other look-ups do not, so that a look-up is two      *)
(* steps, the walk that yields an iterator and the use of that iterator,   *)
(* between which another thread may change the vector.                     *)
(*                                                                         *)
(* Each thread works on the handle it opened, as the threads of test.cpp   *)
(* do.  RfidInterface objects are numbered in the order they are made; the *)
(* number of one also stands for the text of its answers.                  *)
(***************************************************************************)
EXTENDS Integers, Sequences, SequencesExt

CONSTANTS
    Threads,      \* the threads of the application
    MaxOpens      \* bound: RFOpen calls in one behaviour

ASSUME BoundAssumption == MaxOpens \in Nat

Readers == 1..MaxOpens
INVALID_HANDLE == -1

\* The API by what a call does with its handle: one command; several
\* (RFWriteEPC, RFStatistics); a command whose answer is left in the handle's
\* buffer (RFInventoryEPC, RFSingleCommand); the same with a second test of
\* the handle (RFReadMultiBank); Set- and GetLoopAntenna.
Calls == {"simple", "several", "text", "read", "antenna"}

VARIABLES
    handles,      \* HandleManager::handles
    flow_count,   \* the next handle id
    opened,       \* RfidInterface objects made so far
    pc,           \* per thread: the step of the call it is in
    call,         \* per thread: the call it is in, or made last
    h,            \* per thread: the handle it passes
    iter,         \* per thread: position of the iterator it holds, 0 if none
    dangling,     \* per thread: its iterator is into storage given back
    rfid,         \* per thread: the RfidInterface a command runs on
    text,         \* per thread: the answer it is about to leave, <<>> if none
    result,       \* per thread: the handle whose buffer it was given
    mine,         \* history: the RfidInterface each thread opened, 0 if none
    fault,        \* "none", or the undefined behaviour that was met
    disturbed     \* history: the vector changed under another's iterator

table == <<handles, flow_count, opened>>
local == <<pc, call, h, iter, dangling, rfid, text, mine>>
vars == <<table, local, result, fault, disturbed>>

\* What the caller holds when it is not a char* into a handle's buffer.
None == -1
Stale == -2              \* a char* into a string that was given back
Null == -3
NoResult == {None, Stale, Null}

Lookups == {"valid", "again", "ptr", "clear", "data"}
Ids == 0..(MaxOpens - 1)

\* At most one answer belongs in a buffer; two stand for any more.
MaxText == 2

-----------------------------------------------------------------------------
\* find_if: the first unit with the handle, or the end.
FindSlip(id) ==
    IF \E i \in DOMAIN handles : handles[i].id >= id
    THEN CHOOSE i \in DOMAIN handles :
            /\ handles[i].id >= id
            /\ \A j \in 1..(i - 1) : handles[j].id < id
    ELSE Len(handles) + 1

Find(id) ==
    IF \E i \in DOMAIN handles : handles[i].id = id
    THEN CHOOSE i \in DOMAIN handles :
            /\ handles[i].id = id
            /\ \A j \in 1..(i - 1) : handles[j].id # id
    ELSE Len(handles) + 1

NextHandleSlip == Len(handles)
PreIncrementSlip == flow_count + 1
NextHandle == flow_count

ErasedSlip(i) == IF i < Len(handles) THEN RemoveAt(handles, i + 1)
                 ELSE RemoveAt(handles, i)
Erased(i) == RemoveAt(handles, i)

\* clear_buffer: a new string in the place of the old.
ClearedSlip(buf) == buf
Cleared(buf) == <<>>

Busy(t) == iter[t] # 0

\* The vector changes while a thread other than t holds an iterator.
Disturb(t) ==
    disturbed' = (disturbed \/ \E o \in Threads \ {t} : Busy(o))

\* The string of unit id is replaced or changed: no char* into it is good.
Spoil(id, t) ==
    result' = [o \in Threads |->
                  IF o = t THEN None
                  ELSE IF result[o] = id THEN Stale ELSE result[o]]

-----------------------------------------------------------------------------
Init ==
    /\ handles = <<>> /\ flow_count = 0 /\ opened = 0
    /\ pc = [t \in Threads |-> "idle"]
    /\ call = [t \in Threads |-> "simple"]
    /\ h = [t \in Threads |-> INVALID_HANDLE]
    /\ iter = [t \in Threads |-> 0]
    /\ dangling = [t \in Threads |-> FALSE]
    /\ rfid = [t \in Threads |-> 0]
    /\ text = [t \in Threads |-> <<>>]
    /\ result = [t \in Threads |-> None]
    /\ mine = [t \in Threads |-> 0]
    /\ fault = "none" /\ disturbed = FALSE

Alive == fault = "none"

\* RFOpen constructs an RfidInterface, which connects; or it throws, and
\* RFOpen returns -1.
Open(t) ==
    /\ Alive /\ pc[t] = "idle" /\ mine[t] = 0 /\ opened < MaxOpens
    /\ opened' = opened + 1
    /\ \/ /\ pc' = [pc EXCEPT ![t] = "add"]
          /\ rfid' = [rfid EXCEPT ![t] = opened + 1]
          /\ UNCHANGED h
       \/ /\ h' = [h EXCEPT ![t] = INVALID_HANDLE]
          /\ UNCHANGED <<pc, rfid>>
    /\ result' = [result EXCEPT ![t] = None]
    /\ UNCHANGED <<handles, flow_count, call, iter, dangling, text, mine,
                   fault, disturbed>>

\* add_handle_unit, under the mutex.  No unit has this object yet.  The
\* vector may have to move to larger storage.
AddHandleUnit(t) ==
    /\ Alive /\ pc[t] = "add"
    /\ handles' = Append(handles,
                      [id |-> NextHandle, reader |-> rfid[t], buf |-> <<>>])
    /\ flow_count' = flow_count + 1
    /\ \E moved \in BOOLEAN :
          dangling' = [o \in Threads |-> dangling[o] \/ (moved /\ Busy(o))]
    /\ h' = [h EXCEPT ![t] = NextHandle]
    /\ mine' = [mine EXCEPT ![t] = rfid[t]]
    /\ pc' = [pc EXCEPT ![t] = "idle"]
    /\ Disturb(t)
    /\ UNCHANGED <<opened, call, iter, rfid, text, result, fault>>

\* RFClose: remove_handle_unit, under the mutex.
Close(t) ==
    /\ Alive /\ pc[t] = "idle"
    /\ LET i == Find(h[t])
       IN  IF i \in DOMAIN handles
           THEN /\ handles' = Erased(i)
                /\ Spoil(handles[i].id, t)
                /\ Disturb(t)
           ELSE /\ result' = [result EXCEPT ![t] = None]
                /\ UNCHANGED <<handles, disturbed>>
    /\ mine' = [mine EXCEPT ![t] = 0]
    /\ UNCHANGED <<flow_count, opened, pc, call, h, iter, dangling, rfid,
                   text, fault>>

\* Any other call, with an open handle or one that was closed.
BeginCall(t) ==
    /\ Alive /\ pc[t] = "idle"
    /\ \E c \in Calls : call' = [call EXCEPT ![t] = c]
    /\ pc' = [pc EXCEPT ![t] = "valid"]
    /\ text' = [text EXCEPT ![t] = <<>>]
    /\ result' = [result EXCEPT ![t] = None]
    /\ UNCHANGED <<table, h, iter, dangling, rfid, mine, fault, disturbed>>

-----------------------------------------------------------------------------
(* Look-ups without the mutex *)

Walk(t) ==
    /\ Alive /\ pc[t] \in Lookups /\ ~Busy(t)
    /\ iter' = [iter EXCEPT ![t] = Find(h[t])]
    /\ UNCHANGED <<table, pc, call, h, dangling, rfid, text, mine, result,
                   fault, disturbed>>

\* The iterator is into storage of the vector, or is its end.
Sound(t) == ~dangling[t] /\ iter[t] <= Len(handles) + 1

IsEnd(t) == iter[t] = Len(handles) + 1

\* The use of the iterator of look-up what, and where the call goes on.
Use(t, what, goesOn) ==
    /\ Alive /\ pc[t] = what /\ Busy(t) /\ Sound(t)
    /\ iter' = [iter EXCEPT ![t] = 0]
    /\ pc' = [pc EXCEPT ![t] = goesOn]
    /\ UNCHANGED <<flow_count, opened, call, h, dangling, text, mine, fault,
                   disturbed>>

\* is_valid_handle; the calls of "antenna" go on whatever it says, and
\* RFStatistics goes to ReadBankHelper as RFReadMultiBank does.
IsValidHandle(t) ==
    /\ \E next \in
          IF IsEnd(t)
          THEN IF call[t] = "antenna" THEN {"ptr"} ELSE {"idle"}
          ELSE CASE call[t] = "read" -> {"again"}
                 [] call[t] = "several" -> {"again", "ptr"}
                 [] OTHER -> {"ptr"} :
          Use(t, "valid", next)
    /\ UNCHANGED <<handles, rfid, result>>

\* The test of ReadBankHelper; RFReadMultiBank goes on whatever it returns,
\* RFStatistics tries again until its time is up.
HelperIsValidHandle(t) ==
    /\ \/ ~IsEnd(t) /\ Use(t, "again", "ptr")
       \/ IsEnd(t) /\ call[t] = "read" /\ Use(t, "again", "clear")
       \/ IsEnd(t) /\ call[t] = "several"
          /\ \E next \in {"again", "idle"} : Use(t, "again", next)
    /\ UNCHANGED <<handles, rfid, result>>

GetRfidPtr(t) ==
    /\ ~IsEnd(t)
    /\ Use(t, "ptr", "command")
    /\ rfid' = [rfid EXCEPT ![t] = handles[iter[t]].reader]
    /\ UNCHANGED <<handles, result>>

ClearBuffer(t) ==
    /\ Use(t, "clear", "append")
    /\ IF IsEnd(t)
       THEN UNCHANGED <<handles, result>>
       ELSE /\ handles' = [handles EXCEPT ![iter[t]].buf = Cleared(@)]
            /\ Spoil(handles[iter[t]].id, t)
    /\ UNCHANGED rfid

GetData(t) ==
    /\ Use(t, "data", "idle")
    /\ result' = [result EXCEPT ![t] =
                     IF IsEnd(t) THEN Null ELSE handles[iter[t]].id]
    /\ UNCHANGED <<handles, rfid>>

\* get_rfid_ptr returns nullptr and the call is made through it.
CallThroughNull(t) ==
    /\ Alive /\ pc[t] = "ptr" /\ Busy(t) /\ Sound(t) /\ IsEnd(t)
    /\ fault' = "null pointer"
    /\ UNCHANGED <<table, local, result, disturbed>>

UseOfUnsoundIterator(t) ==
    /\ Alive /\ Busy(t) /\ ~Sound(t)
    /\ fault' = "bad iterator"
    /\ UNCHANGED <<table, local, result, disturbed>>

-----------------------------------------------------------------------------
\* A command on the reader, and its answer.
Command(t) ==
    /\ Alive /\ pc[t] = "command"
    /\ \E next \in CASE call[t] \in {"simple", "antenna"} -> {"idle"}
                     [] call[t] = "several" -> {"ptr", "again", "idle"}
                     [] call[t] \in {"text", "read"} -> {"clear"} :
          pc' = [pc EXCEPT ![t] = next]
    /\ text' = [text EXCEPT ![t] = <<rfid[t]>>]
    /\ UNCHANGED <<table, call, h, iter, dangling, rfid, mine, result, fault,
                   disturbed>>

\* append_data, under the mutex.
AppendData(t) ==
    /\ Alive /\ pc[t] = "append"
    /\ LET i == Find(h[t])
           all == handles[i].buf \o text[t]
       IN  IF i \in DOMAIN handles
           THEN /\ handles' = [handles EXCEPT ![i].buf =
                                  SubSeq(all, 1, IF Len(all) > MaxText
                                                 THEN MaxText ELSE Len(all))]
                /\ Spoil(handles[i].id, t)
           ELSE UNCHANGED <<handles, result>>
    /\ pc' = [pc EXCEPT ![t] = "data"]
    /\ UNCHANGED <<flow_count, opened, call, h, iter, dangling, rfid, text,
                   mine, fault, disturbed>>

Step(t) ==
    \/ Open(t) \/ AddHandleUnit(t) \/ Close(t) \/ BeginCall(t)
    \/ Walk(t) \/ IsValidHandle(t) \/ HelperIsValidHandle(t) \/ GetRfidPtr(t)
    \/ ClearBuffer(t) \/ GetData(t) \/ CallThroughNull(t)
    \/ UseOfUnsoundIterator(t) \/ Command(t) \/ AppendData(t)

Next == \E t \in Threads : Step(t)

Spec == Init /\ [][Next]_vars

-----------------------------------------------------------------------------
TypeOK ==
    /\ handles \in Seq([id : Ids, reader : Readers, buf : Seq(Readers)])
    /\ \A i \in DOMAIN handles : Len(handles[i].buf) <= MaxText
    /\ flow_count \in 0..opened /\ opened \in 0..MaxOpens
    /\ pc \in [Threads -> Lookups \union {"idle", "add", "command",
                                          "append"}]
    /\ call \in [Threads -> Calls]
    /\ h \in [Threads -> Ids \union {INVALID_HANDLE}]
    /\ iter \in [Threads -> 0..(MaxOpens + 1)]
    /\ dangling \in [Threads -> BOOLEAN]
    /\ rfid \in [Threads -> Readers \union {0}]
    /\ text \in [Threads -> Seq(Readers)]
    /\ result \in [Threads -> Ids \union NoResult]
    /\ mine \in [Threads -> Readers \union {0}]
    /\ fault \in {"none", "null pointer", "bad iterator"}
    /\ disturbed \in BOOLEAN

\* Whatever the unlocked look-ups meet, the mutex keeps the vector right: no
\* handle and no reader is in it twice, and a handle that was opened stays,
\* with its reader, until its thread closes it, however others open and close.
TableKept ==
    /\ \A i, j \in DOMAIN handles :
          i # j => /\ handles[i].id # handles[j].id
                   /\ handles[i].reader # handles[j].reader
    /\ \A t \in Threads :
          mine[t] # 0 =>
              \E i \in DOMAIN handles : /\ handles[i].id = h[t]
                                        /\ handles[i].reader = mine[t]

\* While the vector did not change under an iterator, a call on a handle
\* runs its commands on the reader that was opened as that handle.
OwnReader ==
    ~disturbed => \A t \in Threads : pc[t] = "command" => rfid[t] = mine[t]

\* While the vector did not change under an iterator, the string a call gave
\* its caller is alive and holds that call's answer and nothing else, until
\* the caller's next call: calls on other handles, opening and closing
\* included, leave it alone.
ResultIntact ==
    ~disturbed =>
        \A t \in Threads :
            result[t] # None =>
                \E i \in DOMAIN handles : /\ handles[i].id = result[t]
                                          /\ result[t] = h[t]
                                          /\ handles[i].buf = <<mine[t]>>

\* Undefined behaviour has two causes: the vector changed under an iterator,
\* or Set- or GetLoopAntenna was called with a handle that is not open.
FaultHasCause ==
    fault # "none" =>
        \/ disturbed
        \/ \E t \in Threads : /\ fault = "null pointer" /\ pc[t] = "ptr"
                              /\ call[t] = "antenna" /\ mine[t] = 0

\* test.cpp:106-108 runs a thread for each of two readers, and each opens,
\* uses and closes its own handle: the iterator a thread with an open handle
\* looks through is at the unit of that handle.
OwnUnitInHand ==
    \A t \in Threads :
        mine[t] # 0 /\ Busy(t) =>
            Sound(t) /\ ~IsEnd(t) /\ handles[iter[t]].id = h[t]

=============================================================================
