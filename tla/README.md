# Verification of rfid_engine

rfid_engine is a C++ library that drives RFID readers over TCP or a serial
port. An application calls a C API (`inc/c_if.h`); the library turns each call
into text commands for the reader and the reader's lines into results. This
directory holds TLA+ models of the library's protocol code, the TLC
configurations that check them on small instances, and TLAPS proofs of the
properties that matter most. Paths below are relative to the root of the
repository (`src/` in `PROJECT.json`).

    tlc -config MCSession.cfg MCCommandSession       a model-checking run
    tlapm CommandSession_proofs.tla                  the proofs of a module

`PROJECT.json` lists components, runs, mutants, the source lines behind every
definition, findings, hazards and theorems.

## 1. The system

```
 application threads        receiver thread (one per reader)     reader
 -------------------        --------------------------------     ------
 RFxxx (c_if.cpp)
   HandleManager  find the RfidInterface of a handle
   RfidInterface::Send / AsyncSend      watch dog thread (one per command)
     ConnQueue::async_send
       attach observer ---------------> Subject::observers
       CmdHandler::send ------------------------------------->  command
       wait on condition variable       CmdHandler::task_func <-  bytes
                                          extract: cut packets
                                          PacketQueue::push_back
                                            notify -> update -> callback
       <------ notify_one ----------------- finish condition holds
       detach observer
```

### Components

**Command round trip** (`src/rfid_if.cpp` AsyncSend and Send,
`inc/conn_queue.hpp`, `inc/send_sync_observer.hpp`, `inc/observer.hpp`,
`inc/packet_queue.hpp`, `src/cmd_handler.cpp` send).
State: the list of observers, the packet queue with its mutex, the observer's
condition variable, the watch dog's two flags, the result vector on the
caller's stack. Operations: attach, send, wait, detach on the caller's thread;
push_back, notify, update, pop on the receiver's; tick, reset, send_msg on the
watch dog's. Hard: three threads share a vector and a queue of which only some
accesses are locked, the wait has no predicate, the watch dog interferes with
both others, and nothing in a line of the reader says which command it answers.
Correct when: a call returns, not before its command completed or timed out,
with its own answer, and no thread uses what another has destroyed.

**Packet framing** (`src/cmd_handler.cpp` task_func and extract).
State: the byte buffer, the heartbeat callback. Operations: append what arrived,
extract lines, heartbeats and reboot answers by three patterns. Hard: packets of
three shapes share one buffer, arrive cut anywhere, and a connection may be
opened in the middle of one; at most 20 of each kind are taken per read; a start of the
receiver does not clear the buffer.
Correct when: each packet is delivered once, whole and in order.

**Handle table and C API** (`src/handle_manager.cpp`, `src/c_if.cpp`).
State: the vector of (handle, interface, text buffer), the next handle.
Operations: open, close, look up, clear, append and hand out the buffer.
Hard: opening, closing and one look-up are under a mutex, the other look-ups are
not; char* results point into the vector. Correct when: a call works on the
reader of its handle and its result stays readable until the next call.

**Receiver life cycle and reboot** (`src/cmd_handler.cpp` start and stop,
`src/rfid_if.cpp` Reboot, `ConnQueue::send`). State: the io context, the
receiver thread, thread_ready, the connection. Operations: start, stop, error,
reboot through a second connection to port 23. Hard: start waits for a flag an
error never sets; a helper thread restarts the receiver under the feet of other
threads; the synchronous send has no watch dog. Correct when: start and stop
return and say the truth, a handler never has two receivers, and a reboot leaves a
working receiver.

**Heartbeat service** (`RfidInterface::OpenHeartbeat`, CloseHeartbeat). Sets a
callback that the receiver thread calls. Hard: the callback captures parameters
by reference, and is never reset.

**Callback registries** (`src/rfid_if.cpp`, Register..., UnRegister..., On...).
Three lists of callbacks with a mutex each. Hard: a function that takes another
list's mutex, callbacks that run under it.

**Reader commands and reply parsers**, with **power and regulation** (the remaining 4000 lines of
`src/rfid_if.cpp`). No state of their own beyond the settings read back from the
reader: each command formats a request, sends it, and maps the reply to a result
code. Hard: which replies count as success, and what a time-out is reported as.

**Tag report parsers** (`src/parser.cpp`), **tag statistics**
(`DoStatisticHelper`, RFStatistics). Fields of a line; one record per tag, found by
antenna and EPC, TID or either. Hard: a line may lack its TID or its EPC, a missing TID
is filled in later, so which record a line finds depends on the order of lines; texts are
kept in arrays of 64 char, while a read of a bank may bring 120 digits; the copy into the
caller's buffer. Correct when: the counts are those of a tally per tag, for texts that fit.

**Writing a tag** (`RFWriteEPC` in `src/c_if.cpp`; SelectTag, Password, WriteBank,
ReadMultiBank in `src/rfid_if.cpp`). Four commands whose state is the selection the
reader keeps. Hard: the results of the first two are dropped, and any of the four may be
answered late or not at all. Correct when: success means the tag has its new EPC, and no
other tag has been written.

**Log uploader** (`inc/curl_stub.h`, `src/curl_stub.cpp`, the sink in
`src/c_if.cpp`). State: a queue of log lines, a background thread. Hard: posts
under the queue's mutex, a last flush after the loop, entries that come between. Correct
when: each line is handed over once, in order, before the destructor returns.

**Configuration** (`src/rfid_config.cpp`), **common helpers**, **programs,
scripts and bindings** (`src/test.cpp`, `src/unit_test.cpp`, `python_api/`) and
**vendored libraries** (asio, nlohmann, aixlog, catch2) keep no protocol state.

### Interactions

Each API call looks its handle up (handle table), runs one or more commands
(command round trip) and parses the replies (reader commands, parsers). Packets
enter the round trip where framing hands them to `push_back`; heartbeats leave
the same buffer for a callback on the receiver's thread. Reboot replaces the
receiver while the handle stays open. The uploader is fed by the log lines of
all threads.

## 2. What is modelled

| module | part | how state and actions correspond |
|---|---|---|
| `ReaderLines` | the lines the engine tells apart | `Completes` is the callback's result or one of CompileFinishConditions |
| `CommandContract` | abstract round trip | a command is open or not; given lines; closes after a completing line or the alarm |
| `CommandSession` | round trip, thread by thread | one action per access to shared state; composes caller, receiver, watch dog and reader |
| `PacketFraming` | task_func, extract, heartbeat callback | `buffer` is the buffer; one action per turn of a loop |
| `HandleTable` | HandleManager and the API's use of it | a look-up is the walk and the use of the iterator, two actions |
| `ReaderSettings` | the set and get calls, their parsers and result codes | a call is a request and the line taken for its reply; parsers are operators on classes of lines |
| `ReceiverLifecycle` | receiver threads, constructor and destructor, Reboot | one handler per connection; `svc`, `recv`, `helper` and `app` are the places of the threads |
| `UploadContract` | abstract uploader | entries taken, entries handed over |
| `LogUploader` | CurlStub, thread by thread | one action per access to the queue or `thread_exit` |
| `TagStatistics` | RFStatistics, DoStatisticHelper, RfidParseUR | one action per line counted or skipped |
| `TagWriting` | RFWriteEPC and the four commands it makes | a command is `Ask` and the line or alarm that ends it |
| `..._proofs` | proofs | section 5 |

Modules `MC...` give constants to TLC. A definition whose name ends in `Slip`
(and `NotifyNobody`) is a plausible mistake, used by no action: it replaces the
definition after it when a property is tried against a broken version of the
code.

### CommandSession

`pc` is the caller's place in AsyncSend and async_send, `rxpc` the receiver's
in push_back, notify, update and pop, `wd` the watch dog's. The variables between
are the shared data. Every access that another thread can come between is a
step: `CallUpdate` reads `observers.at(i)` after `NotifyNext` tested the index,
`RemoveHead` erases after `PopTest` saw the size. A race that ends in an
exception or in undefined behaviour is an action of its own that sets `fault`
to what was met, after which nothing happens (`Stop`).

Commands are numbered. The number stands for the observer object, for its
callback and the result vector that the callback fills, and, in a packet, for the
command the line answers. The code never reads the last; only properties do.
`early` and `leftover` are history: some wait ended by the watch dog or by
chance, some command detached while lines for it were still to come.

Switches say what an environment may do: `SlowClient`, whether the watch
dog's 8 s may be over before the caller has reached the wait (a send that
blocks); `SpuriousWakeups`; `LinkMayDrop`; and the values of `enable_watch_dog`.

Abstractions: one thread uses a handle at a time; each access to the vector of
observers, to its size, to the queue and to a flag is atomic (the torn access of
a data race is not modelled; its visible orders are); kinds of commands are
five, by what ends them; the reader answers commands in order and may stop at
any point. The receiver's end on a lost link is `ReceiverEnds`; the restart of a
receiver is not in this module.

### PacketFraming

A byte is its class and its place in the stream. The classes are what the three
patterns distinguish: line feed, text, carriage return, hex digits, the word
"heartbeat", the "00-16-" of its tail, and the "\x02A" of a reboot answer. A run
of bytes that no pattern looks inside is one byte of the model. `Found` is the
leftmost match, as the iterator gives it; the pattern of a heartbeat takes every
hex digit before the word.

A torn unit, the end of one whose start went by before the connection was opened,
may only come first, and not on the connection that reboots a reader. `SetCallback`
stands for set_heartbeat_callback at any moment between two turns of a loop;
`OpenHeartbeat` is what that function does once it has its reply: it compares
the trimmed line with a pattern that is written for the raw one.

The model is one connection whose buffer is empty at first, which is so for the first one
of a handler. A later one, after Reboot, may find the head of a unit that the stop cut
off: `receive_buffer` is cleared at a start (`src/cmd_handler.cpp:218` and 241), `buffer` is
not. What such a head does is among the hazards, and no property has it.

### HandleTable

`iter[t]` is the iterator that thread t holds between `Walk` and the action that
uses it. When another thread adds a unit or erases one, iterators are marked as
`dangling` if their storage may be gone (push_back may reallocate), or are left
pointing at the unit that moved there. Using one that is not sound is the fault
"bad iterator", calling through the null pointer of a failed look-up the fault
"null pointer". `result[t]` is the char* its last call returned, by the handle
into whose string it points, `Stale` once that string was changed or given back.

The API's calls fall into five groups by the look-ups they make (`Calls`).
The walk is one step: an erase in the middle of a walk is represented by an erase
just after it. A thread uses only handles it opened, as the threads of
`src/test.cpp` do, and may go on using one after it closed it.

### ReaderSettings

One thread sets and gets regulation, power, antenna, loop antenna, loop time and
time. A call is two actions, the request and `HearReply` (or `HearNothing`, the
watch dog); SetPower is two requests, the first of which asks for the version. Between
them Send behaves as `CommandContract` says: it returns the first line that comes,
whichever request that line answers. A line carries what the parsers look at: its form
(the letter N, a keyword, the version's four fields, "@Please Restart System"), a
number or an error word, and the date of a stamped line. `to`, the request it answers,
is read by properties only. `Accepts` (with `HasWord`, `HasAntenna`, `HasDate`), `Value` and `Confirms` say which lines the
parser of a call takes, what it reads from them, and when the call is content.

The reader (external) serves requests in order; it may obey, refuse, ask for a
restart or be silent, at any time and as late as it likes. A refusal echoes the value the
reader has, which is another than the one asked for, or carries an error word. That a
reader which echoes a value has it is an assumption about the reader: a call sees
nothing else. Lines of N and version are
stamped and keyword lines are not, as the "Recv" comments of the calls show. The
strings are abstracted to numbers, with the one conversion that matters kept: a power is
written in hex and would be read as a decimal by GetRegulation (`Decimal`).
Abstracted away: the hub flag of an antenna, negative powers, and the passing of time
on the reader's clock (SetTime compares to the second, so a slow answer would be
taken for a mismatch).

### ReceiverLifecycle

A handler is a CmdHandler: "main" is the interface's, "boot" the second connection of
RebootHelpThread. `svc[h]` is where the start or stop in progress is, `recv[h]` where the
receiver thread is, `sock[h]` its socket or serial port. `StartCall` is a start up to its
wait, `StartReturns` what it reports; the receiver's steps are in the order of
reply_thread_func, so that the starter may return between `ReportReady` and `TestError`
and leave the error code's frame. `StopCall`, `Shutdown`, `CloseSocket` and `Join` are
stop_recv_thread, step by step. The stop runs more than once on a handler, as in the
code: the destructor of RfidInterface stops, and then the one of its member stops again.

The owner constructs, reboots and destroys; the helper is started and joined by Reboot;
`client` is another thread that sends a command (CommandSession has what follows the
send). The reader and the network may refuse a connection, close it, answer the boot
connection or not; std::thread may fail to make a thread. Where that thread is the
helper's, the exception leaves Reboot (`told` is "threw") and nothing else was done.
`met` is a history of these mishaps, but for the last, which must explain nothing later. A null pointer, an uncaught exception and a socket replaced under a send end the
behaviour with `fault` set; a socket closed after the io_service it belongs to was
destroyed either does so or passes unseen, as the build decides.

Abstractions: sleeps are steps without a length; the 10 s that Reboot counts down are not
a limit in the code either, since it joins the helper afterwards. asio's exceptions on a
connection that is not up are `SendThrows`. The bytes of the reboot are in `PacketFraming`.

### LogUploader

`pc` is the background thread's place in background_thread_func and flush_queue, `last`
that it is in the flush after the loop, `posting` the threads inside post(). The lock is
held by the background thread from `Lock` to `TooFew` or `Clear`; post()'s lock, push and
unlock are one step, since a poster does nothing else with the lock held. curl_post
is external to the queue: `Upload` hands it the batch, and it returns, stays, or ends the
process. So does the JSON dump before it, of a text that is not UTF-8 (`DumpThrows`). `accepted` and `handed` are histories; under `Contract` they are the variables of
`UploadContract`. The library's own use, sink_ulog_fn, is the case of one poster and one
entry; the module has what the class offers.

### TagStatistics

A line is its antenna, its form (with the bank asked for, an error digit, fewer than the
eight digits around an EPC, without comma, empty), an EPC, which may be the empty text, and
the text of a bank. `RfidParseUR` is what the parser makes of
it for a bank: `is_match` is "unset" where the code leaves the bool uninitialized, and
`MayCount` and `MaySkip` both hold of it. `CountAgain` finds the first record that matches,
`NewRecord` appends one. `counted` is a history: the lines that were counted.

A text is a sequence of digits. memcpy leaves its first EPC_LEN or TID_LEN digits in the
record's char array (`Stored`; both are 64 in the code), with no NUL behind them when the
text is as long as the array or longer. The comparison reads such an array on into the next
field of the struct: epc into tid, tid into readerID (`EpcText`, `TidText`). So from 64
digits on, which ReadMultiBank's 30 words allow, a record does not equal the line it was
made from, and each of that tag's lines makes a record of count 1; the exceptions are an
array that was filled exactly while the next field is empty, and a text that goes on
as the next field does.
Abstracted away: the time of a record, and changes of readerID. The length of a read and the
reference time are any number of lines up to `MaxLines`.

### TagWriting

`pc` is the command RFWriteEPC is at, and `open` that it was sent; a line received while
it is open goes to it, whichever command it answers, as in ReaderSettings. The reader and
the tags are external: `Selects`, `TakesPassword`, `Writes`, `Reads`, `Refuses`, each with
a lost answer too. A write goes to any one of the tags that the selection lets the reader
see. `acked` and `strays` are histories that only properties read: the selection was
confirmed to this call, and a line of another command was given to it. A read is up
to one tag line and "@END": that is what one tag line can turn the result into; several
reads' lines can arrive together when they are late.

## 3. What the runs check

| run | question | outcome |
|---|---|---|
| `session` | what can go wrong in a round trip, and only after what | holds |
| `session_contract` | does the round trip implement the contract, and does every command return, when the client is prompt and the wait never wakes by chance | holds |
| `session_lost_wakeup` | does a caller leave its wait once its packet was handled | violated |
| `framing` | are packets whole, in order and delivered once, however the stream is cut | holds |
| `handles` | do calls of two threads keep to their own readers and results | holds |
| `handles_unlocked` | is the iterator of a look-up at the unit of the handle | violated |
| `settings` | are the results of set and get calls right, on own replies and on late ones | holds |
| `lifecycle` | do starts, stops and reboots end, tell the truth and leave one receiver, whatever fails | holds |
| `uploader` | is every log entry handed over once, in order, before the stub is destroyed | holds |
| `statistics` | does the find-or-append loop count what a tally per tag would | holds |
| `statistics_overflow` | does RFStatistics keep to the units of the caller's buffer | violated |
| `writing` | what does a success of RFWriteEPC mean, and may it write another tag | holds |

**session.** `OwnAnswers`: a callback gets only lines that answer its own
command, as long as no command was left with lines outstanding. `SafeUnlessCutShort`:
the undefined behaviour of the unlocked accesses needs a wait that ended early or
such a command. `QueueDrained`: so does a packet that stays in the queue.
`LeftoverHasCause`: a command is left that way only by the watch dog, a spurious
wakeup, or by sending a raw text whose answer has several lines. Together: on the
path the code was written for, its missing locks do no harm, because the caller
is in its wait while the receiver works; each of the rare events opens the races.

**session_contract.** `BlocksUntilCompleted` is `CommandContract` as a property,
under the mapping `Contract` at the end of `CommandSession`. `CommandReturns`:
a command that was issued returns, or a fault ended the run. The checker
also shows that the threads never block each other for good (deadlock is checked
in this run).

**framing.** `QueuedInOrder`: the i-th line in the queue is a line the reader sent, whole,
and the lines before it in the stream are the lines before it in the queue; the same for
reboot answers. `HeartbeatsInOrder`: the same for heartbeats, but for the digits of a torn
heartbeat, which the next one takes along (the pattern begins with any number of hex
digits). `BytesConserved`: each byte that arrived is in the buffer or in one packet.
`NothingLeftBehind`: a packet that has arrived whole waits in the buffer only if a loop
stopped at its limit, and then it does wait, until the reader sends more.

**handles.** `TableKept`: a handle names the reader it was opened for until it is
closed. `OwnReader`, `ResultIntact`: commands go to the reader of the handle, and
the string a call returned stays as it was until its owner's next call, while no
iterator was disturbed. `FaultHasCause`: the faults need a disturbed iterator, or
RFSetLoopAntenna or RFGetLoopAntenna with a handle that is not open.

**settings.** `GetTruthful`, `SetTruthful`: success reported on the call's own
reply is the truth, and so is the code for another value in the reply. There are two
exceptions. SetSingleAntenna does not look at the number it parsed
(`src/rfid_if.cpp:838`): when its caller's variable happens to hold the antenna asked for, it
reports success on a reply that names another one. SetRegulation never reports success,
so that for it the property says nothing. Success on a late reply need not be: GetPower takes the regulation
for a power, since both are a letter N and a number, and SetTime any line with a date.
`KeywordKept`: the calls that look for a keyword cannot be misled that way.
`ThrowHasCause`: the exception of a missing field in a version line, which nothing
catches, needs a late line or a reader that asks for a restart.

**lifecycle.** `OneReceiver`: no start makes a second receiver, and no handler is
destroyed under its receiver. `StartTruthful`: a start that returned true left a connected
receiver; the one exception is the error code the receiver may read after its
starter returned. `FaultHasCause`: each way to end the process has its mishap: a null
pointer only where a thread could not be made, a replaced socket only under a command
that overlaps Reboot, an uncaught exception only after a failure. `RebootRestores`: a
Reboot that met no failure leaves the interface as it was (RFID_OK alone says nothing: it is
returned whatever the helper met). `CallsEnd`: every start and stop returns, but for the
start on a serial port that cannot be opened, which sleeps for ever. `RebootEnds`: the
wait of the synchronous send, without watch dog and without predicate, is the one place
where a Reboot can stay. The last two are stated as what a stay for ever implies, so they
hold of the code and name its hanging places.

**uploader.** `KeepsContract` is `UploadContract` as a property: no entry is lost between
the last test of `thread_exit` and the last flush, none is handed over twice.
`DestructorEnds`: the destructor can wait for ever only inside curl_post, which sets
no time-out. Whether a batch reached the server is not promised: the result of curl_post
is ignored. The mutex's fairness is not assumed, so a thread in post() may starve
while the background thread takes the lock again and again without a pause.

**statistics.** `TallyExact`: by EPC and by TID each count is that of the lines of that
tag, for every tag whose text fits its array (fewer than 64 digits), whatever lines with
longer texts come between. `CountedOnce`: under every rule the counted lines can be dealt
out to the records, each to one of its antenna with what its array holds of the line's EPC
or TID, so that each record has as many as its count says; a line without TID may be in any
record. `OneRecordPerTag`: by EPC and by EPC or TID, no EPC that fits has two records of an
antenna; by TID no TID that fits has. By EPC or TID two records can come to one TID, but by
the fill-in only: lines (e1, -), (e2, t1), (e1, t1) leave a record of e1 and one of e2,
both with t1. The property has that one of the two began with a line without TID.
`TidOfSameTag`: EPC and TID of a record, as its arrays hold them, were read in one line,
although by EPC or TID two lines without TID are taken for one tag. Note what is not
claimed: by EPC or TID, a count need not be the count of one tag, and a tag whose text does
not fit has a record for each of its lines.

**writing.** `WriteTruthful`: an RFID_OK that is not true needs a selection that was
not confirmed, or a late line. `CheckTruthful`: what the double check finds is true
whatever failed before it; a late line shows an EPC the tag has had. `OthersUntouched`: a
write that was sent after its selection was confirmed changes no other tag, however late
the reader serves it. Without the confirmation it may, since RFWriteEPC does not look.

### Bounds

* `MaxCmds = 2`: the effect of one command on a later one (a late line, an
  observer that is still in the list, a watch dog of the command before) needs
  two; the client is back at `idle` between them, so a third meets no state that the
  second did not.
* `MaxLines = 1`: a collecting callback called twice, and a raw command that
  leaves a line behind. Kinds: `ManyKinds` has each way of ending a command;
  `TwoKinds`, for the runs with liveness, one that ends at the first line and one
  that collects.
* `MaxExtract = 2` stands for 20: the streams hold three units of a kind, so that
  a loop stops at its limit with one more in the buffer. `MaxChunk = 14` lets one
  read return several units and the limit be met; every shorter read is tried too.
  `unit_test.cpp`'s data is run with the limit of 20 as it is.
* Two threads and `MaxOpens = 3`: a handle opened after another was closed, with a
  third between; a reallocation is possible at each. `MaxText = 2`: one answer
  belongs in a buffer, two stand for more.
* `MaxRequests = 3` (a call in progress may add a fourth): a late reply is
  there at the second, and at both requests of a SetPower after it. One value per setting
  besides the first, all different; for power one below and one above the range of a
  VD4. Models: one with a negative lower bound, VD4, and one that is not in the table.

* `MaxOpens = 2`, `MaxReboots = 2` of ReceiverLifecycle: an interface made after another
  was destroyed or failed, and a reboot after a reboot that left no receiver; nothing but
  `met` is carried further.
* Two posters, threshold 1, `MaxPosts = 5`: two batches above the threshold and an
  entry for the last flush.
* `MaxLines = 3` of TagStatistics: a record made without a TID, another tag's, and the
  line that fills the first one's TID in; the proofs have no bound. `EPC_LEN = 2` and
  `TID_LEN = 3` stand for 64: EPCs shorter than the array, as long and longer, one of
  them the continuation of another into its TID; TIDs that fit and one that fills
  the array. A buffer of two and three tags for the overflow.
* `MaxCalls = 2`, `MaxAlarms = 3` of TagWriting: a call in which every command before the
  read is late, and a second whose commands take its lines; two tags and an EPC that is new
  or the other tag's.

### Fairness

`FairSpec` of `CommandSession` asks weak fairness of the three threads of the process, each as a
whole: a thread that can go on does, and time passes, so that the watch dog's ticks
come. It asks nothing of the reader, the link or spurious wakeups. That of
`ReceiverLifecycle` asks the same of every thread once it is in a start, a stop, a reboot
or a receiver's loop, since each goes on when it can; nobody has to call anything, no link has
to break, and the reader need not answer. That of `LogUploader` asks it of the background
thread and of the destructor's return, and not of curl_post or of a poster's turn with the
lock.

### What was found

Three runs violate a property, with the sentence of the code that states it
(`findings` in `PROJECT.json`).

1. `SendAsyncObserver::wait` has no predicate: an answer handled between the send
   and the wait is lost, and the caller waits 8 s for its watch dog.
2. The look-ups of HandleManager take no mutex: a thread that opens or closes its
   own reader invalidates another's iterator.
3. RFStatistics compares what it copies with the number of its records and not with
   `*stat_count`: more tags than units are written past the caller's buffer.

These were met while modelling, and the models do what the code does:

* The watch dog notifies once and ends. Fired before the wait (`SlowClient`), it leaves
  the caller blocked for good if the reader is silent; the comment at
  `src/rfid_if.cpp:446` says that the caller blocks until then only. `CommandReturns` is
  therefore checked for a prompt client.
* Heartbeats never reach the packet queue in which `src/unit_test.cpp:75` and 91 count them.
* OpenHeartbeat matches a trimmed line against the pattern of a raw one
  (`src/rfid_if.cpp:2742`), so that it never sets its callback.
* SetSingleAntenna compares the antenna with its caller's variable and not with
  the reply (`src/rfid_if.cpp:838`): it reports an error for a confirmed setting, and success when
  the reply names another antenna and the variable happened to hold the one asked for.
  SetRegulation has that fault in another form: its parser does not hand out the number
  it read, so that no regulation is ever confirmed. The other calls report success only
  where it is so (`SetTruthful`).
* The records of RFStatistics have no room for the NUL of a text of 64 digits
  (`src/c_if.cpp:150`), and the comparison with the next line reads past it.
* RegulatePower overwrites its lower clamp (`src/rfid_if.cpp:683`): a power below the
  range is sent.
* The constructor's braces put GetVersion after a `throw` (`src/rfid_if.cpp:43`): the
  version is never asked for, and the reader's identification stays empty.
* SetGPO and GetGPO are declared `bool` and return result codes
  (`src/rfid_if.cpp:2415`), none of which is 0: they return true whether they failed or not.
* Reboot returns RFID_OK whatever happened, and a read that failed is RFID_OK as well
  (`src/c_if.cpp:103`).

The wait without predicate (1) also lets a spurious wakeup end a command that has not
completed; the contract is therefore checked and proved without spurious wakeups, and
`session` shows what they lead to.

`session` also reaches two faults that no comment contradicts: with
`enable_watch_dog` false every command ends in the exception of `join()`, and a
send that throws ends the process (the running watch dog thread is destroyed).

## 4. Deadlock and CHECK_DEADLOCK

A behaviour of `session`, `framing`, `handles`, `settings`, `lifecycle`, `uploader` and
`writing` may stop: a loop of commands ends, a reader has sent all there is, the bound of
opens, posts, requests or calls is used up, a process has ended. In `session` a blocked
client with a finished watch dog is also a stop; in `lifecycle` a Reboot that waits for an
answer is, and `CallsEnd` and `RebootEnds` say where such stops may be. `session_contract`
and `statistics` never stop, and deadlock is checked there.

## 5. What is proved

For every value of the constants, every state invariant, step property and refinement the
passing runs check is proved. `Init`, one lemma per action or group of actions, and a temporal
step at the end make each proof; the constants are only assumed to be what their named
assumptions state.

Few of the invariants are inductive, so each module has the strengthening that is.

**CommandSession_proofs** (`BoundsAssumption`, `KindsAssumption`, `SwitchesAssumption`):
`TypeCorrect`, `OwnAnswersHolds`, `SafeUnlessCutShortHolds`, `QueueDrainedHolds` and
`LeftoverHasCauseHolds`. `IInv` adds what they rest on:

* `Shape`: the list of observers is empty or has the one observer of the command in
  progress, exactly while the client is between attach and detach; and what the
  receiver holds at each of its places.
* `FlightInv`: without a leftover every command in the reader's inbox, every line
  on the wire and the packet being dispatched belong to the command in progress.
  From this `OwnAnswers` follows.
* `SettledInv`: without a leftover nothing is outstanding before a command is sent
  and after it was detached. It is what carries `FlightInv` over to the next command.
* `AlarmInv` and `QueueInv`: the watch dog is past its last tick only with `early`
  set, and the queue holds one packet while the receiver works on it. They exclude
  the faults.
* `LastLineInv`, for `LeftoverHasCauseHolds`: a command that is not raw text is completed
  by the last line of its answer and by no other, so that a caller who was woken by a
  completing line leaves nothing behind.

The module's last part is the refinement, `BlocksUntilCompletedHolds`: without spurious
wakeups `CommandSession` implements `CommandContract`. It needs `WakeInv`: a client that was
woken has been given a completing line or the alarm of its watch dog is on; `ContractStep`
then maps the start of a command to `Open`, a callback to `Give`, the detach to `Close`, the
watch dog's end to `Alarm` or `Rearm`, and every other action to a stutter.

`WaitIsGuardedHolds` is the part of `CommandReturns` that needs no fairness: with the watch
dog on and `SlowClient` FALSE, a caller in its wait always has a watch dog that was not
cancelled and has still to send its wakeup, and its observer is where that goes (`GuardInv`).
With `SlowClient` TRUE it is false, by the wakeup that comes before the wait.

**PacketFraming_proofs** (`StreamsAssumption`, `LimitsAssumption`): `TypeCorrect`,
`QueuedInOrderHolds`, `HeartbeatsInOrderHolds`, `BytesConservedHolds` and
`NothingLeftBehindHolds`, for streams of any length, reads of any size, any limit and a
callback set at any moment. The argument has four parts:

* The layout of the stream. `Bytes` is the concatenation of the units, so byte k of unit n
  is at `At(n, k)`, and each place belongs to one byte of one unit (`EveryPlace`,
  `PlaceOnce`). This is induction over the stream, done as set induction: the least
  counterexample, from the well-foundedness of < on the naturals (`Least`), and
  FlattenSeq unfolded by one element at a time.
* The buffer. Its bytes are in the order of the stream (`Sorted`), and a unit has been
  taken out as a whole or not at all (`Whole`), but for the digits of a torn heartbeat,
  which may go alone (`DigitsTaken`).
* The matches. A unit of which every byte is in the buffer lies there side by side, unless
  those digits come between (`HoldsOrder`, `UnitTogether`), and what matches a pattern is
  such a unit, with the digits in front of a heartbeat (`LineSpan`, `BeatSpan`, `BootSpan`).
  So the leftmost match is the first unit of its kind that is still in the buffer
  (`FoundSpan`), and no match means that there is none (`NoneFound`).
* The packets. What was taken out is what was delivered (`TakenUnits`, `TakenDigits`), from
  which order and conservation follow. `Loops` says which kinds a task_func has exhausted
  at each place of its three loops: a later loop cannot complete a packet of an
  earlier one's kind.

**ReceiverLifecycle_proofs** (`BoundAssumption`): `TypeCorrect`, `StartTruthfulHolds`,
`OneReceiverHolds`, `FaultHasCauseHolds`, `RebootRestoresHolds`. The first three come from
what holds of a handler by itself: its thread lives only while it is joinable
(`Unjoined`), reports only to a start that waits (`Reporting`, `Waiting`), and has a
connection once it reported (`Truthful`); and a handler is destroyed only after it was
stopped (`GoneSafely`). The other two need where the owner and the helper are (`Place`,
`Made`, `Overlapping`) and that a connection that is not up has a mishap to
explain it (`Connected`). `OneCallAtATimeHolds` follows from `Place`: the `svc[h] = "idle"`
in the guards of `StartCall` and `StopCall` never holds back a caller that goes on by itself.
`CallsGoOnHolds` is the part of `CallsEnd` that needs no fairness: whatever a start or stop
waits for is done or still to come, except where the serial port could not be opened.

**LogUploader_proofs** (`ThresholdAssumption`, `PostsAssumption`): `TypeCorrect` and
`KeepsContractHolds`, the refinement of `UploadContract`. What was accepted is what was
handed over, followed by the queue (`EntriesConserved`), and the thread ends
only after a flush that began when nobody could post any more (`LastFlushLast`).
`BoundedJoinHolds` is the part of `DestructorEnds` that needs no fairness: while the destructor
joins, every step of the system lowers `StepsLeft`, of at most nine, ends the thread, or
lets the destructor return (`ToldHolds`: the thread was told to exit by then).

**TagStatistics_proofs** (`TextAssumption`, `LengthAssumption`, `RoomsAssumption`,
`LinesAssumption`): `TallyExactHolds`, `CountedOnceHolds`, `OneRecordPerTagHolds`,
`TidOfSameTagHolds`, for arrays of any length. The facts about texts come first: what an array
holds is the text when the text fits, and when it does not, the array is read as a text
that does not fit either (`StoredText`, `FittingFields`, `MatchedTexts`), so that no line
with a fitting text is ever taken for a longer one's. Every line of a fitting text that was
counted has a record it belongs to (`EveryLineHasRecord`); the proof splits on whether a line
finds a record, fills in its TID, or makes one. For `CountedOnce` the dealing of the lines is
extended by the line just counted (`DealtTo`).

**TagWriting_proofs** (`FactoryAssumption`, `BoundsAssumption`): `WriteTruthfulHolds`,
`CheckTruthfulHolds`, `OthersUntouchedHolds`. The argument is the reader's order of service:
commands are numbered (`Numbered`), so a line that answers the last one shows that no
earlier one is still to be served, and what such a line tells (`Confirmed`, `Selected`,
`Written`, `Seen`) stays so until the next command (`Settled`).

**HandleTable_proofs** (`BoundAssumption`): `TypeCorrect`, `TableKeptHolds`,
`OwnReaderHolds`, `ResultIntactHolds`, `FaultHasCauseHolds`, for any number of threads and
opens. Each handle and each reader is given once (`Counted`, `Handed`, `Fresh`); while
no iterator is disturbed, what a thread found by its handle is still there when it uses it
(`Aimed`), and nobody else passes that handle, so that its buffer is its own (`Placed`,
`Answered`).

**ReaderSettings_proofs** (`SettingsAssumption`, `RequestsAssumption`): `TypeCorrect`,
`GetTruthfulHolds`, `SetTruthfulHolds`, `KeywordKeptHolds`, `ThrowHasCauseHolds`. It is the
argument of TagWriting for calls of one or two requests: `Numbered`, `OwnRequest`, `OwnLines`
and `Settled`. Of the reader `SetTruthful` needs no more than that a reply carries the value
it has after it served the request. `Remembered` has that a line of a keyword carries a value the reader held.
`SettingsAssumption` has regulations of one digit, as the table of the code does: with
two, the decimal reading of a hexadecimal power would reach them.

Only model-checked are `CommandReturns`, `CallsEnd`, `RebootEnds` and `DestructorEnds`:
liveness under fairness is beyond the prover. Of the first two and the last, the state and step
properties that fairness has to add to are proved (`WaitIsGuarded`, `CallsGoOn`, `BoundedJoin`);
no run checks those three nor `OneCallAtATime`.

## 6. What is not modelled, and why

* The callback registries: three lists with a mutex each. Nothing in the library calls
  OnHookCallback and its sisters, so no list is ever walked and no property could fail.
* The rest of the reader commands: inventory, session, GPO, reader ID and module version
  are one `Send` and a parsed line, as the calls of `ReaderSettings` are, with no state
  beyond the reader's. The kill, lock, flash and Wi-Fi commands are stubs that return false.
  GPO, session and heartbeat would join the settings first if the module is to grow.
* Detaching an observer by its id, which only the unit test calls.
* The callback of OpenHeartbeat with its captured references: the branch that sets it is
  never taken.
* `RfidParseU` and `RfidParseR`: the first fills the fields of RFInventoryEPC's JSON text in
  the same manner as the parsers modelled, nothing uses the second.
* A torn access of a data race (a vector, a `std::function` or a `bool` read while
  written): the models have the orders of whole accesses.
* The configuration file, read once; formatting and logging helpers, test programs and
  bindings, which keep no protocol state.
* The vendored libraries (asio, nlohmann, aixlog, catch2), which are more
  than nine tenths of the lines of the repository. asio appears as the environment that delivers
  bytes, fails or stays silent; none of the others takes part in the protocol.

What is left for later: the settings above, and a composition of `PacketFraming` with
`CommandSession`. Their interface is that `push_back` is given whole packets, in order: it is
`QueuedInOrderHolds` of the one, and what the other begins with.
