--------------------------- MODULE CommandSession ---------------------------
(***************************************************************************)
(* One reader connection while an application issues commands over it.     *)
(* Four parties take steps:                                                *)
(*                                                                         *)
(*   client     the thread that calls the C API and runs                   *)
(*              RfidInterface::AsyncSend and ConnQueue::async_send;        *)
(*   receiver   the thread of CmdHandler that reads the connection, pushes *)
(*              each packet into the PacketQueue and notifies observers;   *)
(*   watch dog  the thread AsyncSend starts for each command;              *)
(*   reader     the device at the other end (external).                    *)
(*                                                                         *)
(* A step is one access to shared state: attach, send, enter the wait,     *)
(* the test of a loop, at(i), the user callback, notify_one, each half of  *)
(* pop().  The wait has no predicate, so a notification that finds nobody  *)
(* waiting is lost.  Undefined behaviour and escaped exceptions end the    *)
(* run: fault names the one that was met and no action is enabled after.   *)
(*                                                                         *)
(* Commands are numbered; the number stands for the observer object, the   *)
(* callback with the caller's result buffer, and the answer to it.         *)
(***************************************************************************)
EXTENDS Naturals, Sequences, SequencesExt, ReaderLines

CONSTANTS
    MaxCmds,          \* bound: commands issued in one behaviour
    MaxLines,         \* bound: lines the reader sends before the last one
    Kinds,            \* the kinds of command the client issues
    WatchDogSettings, \* values "enable_watch_dog" of the config may have
    SlowClient,       \* may the 8 s run out before the client is in wait()?
    SpuriousWakeups,  \* may condition_variable::wait return unnotified?
    LinkMayDrop       \* may the connection be lost?

Commands == 1..MaxCmds

ASSUME BoundsAssumption == MaxCmds \in Nat /\ MaxLines \in Nat
ASSUME KindsAssumption == Kinds \subseteq AllKinds
ASSUME SwitchesAssumption ==
    /\ WatchDogSettings \subseteq BOOLEAN
    /\ {SlowClient, SpuriousWakeups, LinkMayDrop} \subseteq BOOLEAN

Packets == [cmd : Commands, line : Lines]

VARIABLES
    pc,         \* client: where it is in AsyncSend / async_send
    cmd,        \* client: number of the command in progress or done last
    kind,       \* the kind each command was issued with
    observers,  \* Subject::observers, by command number
    queue,      \* PacketQueue::queue
    rxpc,       \* receiver: where it is in push_back / notify / update
    rxpkt,      \* receiver: the packet it dispatches (subject_state)
    rxi,        \* receiver: loop index of notify(), from 1
    rxobs,      \* receiver: the observer whose update() runs
    enabled,    \* IsWatchDogEnabled()
    wd,         \* watch dog: where it is
    cancel,     \* watch_dog_cancel
    triggered,  \* is_triggerred
    given,      \* what each command's callback was called with
    inbox,      \* reader: commands it has not finished answering
    lines,      \* reader: lines sent so far for the head of inbox
    wire,       \* packets sent by the reader and not yet read
    link,       \* "up" or "down"
    fault,      \* "none", or what ended the run
    early,      \* history: some wait was ended by the watch dog or by chance
    leftover    \* history: some command was detached with lines outstanding

clientVars   == <<pc, cmd, kind>>
receiverVars == <<rxpc, rxpkt, rxi, rxobs>>
watchDogVars == <<enabled, wd, cancel, triggered>>
readerVars   == <<inbox, lines, wire, link>>
historyVars  == <<early, leftover>>
vars == <<clientVars, observers, queue, receiverVars, watchDogVars, given,
          readerVars, fault, historyVars>>

-----------------------------------------------------------------------------
\* The receiver has a packet that its observer has not been handed yet.
Dispatching ==
    \/ rxpc = "check" /\ rxi = 1
    \/ rxpc \in {"at", "callback", "signal"}

Outstanding == inbox # <<>> \/ wire # <<>> \/ Dispatching

\* A slip to refute: a notification that reaches no waiter.
NotifyNobody(n) == n \in Commands /\ pc' = pc

\* condition_variable::notify_one on the observer of command n.
Notify(n) == pc' = IF pc = "waiting" /\ cmd = n THEN "woken" ELSE pc

\* Undefined behaviour and escaped exceptions end the run.
Alive == fault = "none"

Fail(what) == fault' = what

-----------------------------------------------------------------------------
\* The loop of notify() and the finish test of update(), each with a slip.
FirstIndexSlip == 0
FirstIndex == 1

HasObserverSlip == rxi <= Len(observers) + 1
HasObserver == rxi <= Len(observers)

FinishesSlip == rxobs \in Commands
Finishes == Completes(kind[rxobs], rxpkt.line)

\* pop() finds a packet in the queue.
HasPacketSlip == FALSE
HasPacket == queue # <<>>

\* Subject::detach: the first entry that is this observer is erased.
UnregisterSlip == UNCHANGED observers
Unregister ==
    \E i \in DOMAIN observers :
        /\ observers[i] = cmd
        /\ \A j \in 1..(i - 1) : observers[j] # cmd
        /\ observers' = RemoveAt(observers, i)

-----------------------------------------------------------------------------
Init ==
    /\ pc = "idle" /\ cmd = 0 /\ kind = [n \in Commands |-> "none"]
    /\ observers = <<>> /\ queue = <<>>
    /\ rxpc = "read" /\ rxpkt = [cmd |-> 0, line |-> "none"]
    /\ rxi = FirstIndex /\ rxobs = 0
    /\ enabled \in WatchDogSettings
    /\ wd = "off" /\ cancel = FALSE /\ triggered = FALSE
    /\ given = [n \in Commands |-> <<>>]
    /\ inbox = <<>> /\ lines = 0 /\ wire = <<>> /\ link = "up"
    /\ fault = "none" /\ early = FALSE /\ leftover = FALSE

-----------------------------------------------------------------------------
(* The client thread: AsyncSend and async_send *)

\* AsyncSend: compile the finish conditions, reset the watch dog's flags and
\* start its thread.
Issue(k) ==
    /\ Alive /\ pc = "idle" /\ cmd < MaxCmds
    /\ pc' = "attach"
    /\ cmd' = cmd + 1
    /\ kind' = [kind EXCEPT ![cmd + 1] = k]
    /\ cancel' = FALSE /\ triggered' = FALSE
    /\ wd' = IF enabled THEN "ticking" ELSE "off"
    /\ UNCHANGED <<enabled, observers, queue, receiverVars, given, readerVars,
                   fault, historyVars>>

\* async_send: get_packet_queue()->attach(async_obs).
Attach ==
    /\ Alive /\ pc = "attach"
    /\ pc' = "send"
    /\ observers' = Append(observers, cmd)
    /\ UNCHANGED <<cmd, kind, queue, receiverVars, watchDogVars, given,
                   readerVars, fault, historyVars>>

\* cmd_handler.send(cmd) reaches the reader.
Send ==
    /\ Alive /\ pc = "send" /\ link = "up"
    /\ pc' = "sent"
    /\ inbox' = Append(inbox, cmd)
    /\ UNCHANGED <<cmd, kind, observers, queue, receiverVars, watchDogVars,
                   given, lines, wire, link, fault, historyVars>>

\* The kernel takes the bytes of a connection whose other end is gone.
SendToNobody ==
    /\ Alive /\ pc = "send" /\ link = "down"
    /\ pc' = "sent"
    /\ UNCHANGED <<cmd, kind, observers, queue, receiverVars, watchDogVars,
                   given, readerVars, fault, historyVars>>

\* asio's send throws: the unwinding destroys the running thread watch_dog,
\* which terminates the process.
SendThrows ==
    /\ Alive /\ pc = "send" /\ link = "down"
    /\ Fail("sendThrew")
    /\ UNCHANGED <<clientVars, observers, queue, receiverVars, watchDogVars,
                   given, readerVars, historyVars>>

\* async_obs->wait(): from here a notification is seen.
BeginWait ==
    /\ Alive /\ pc = "sent"
    /\ pc' = "waiting"
    /\ UNCHANGED <<cmd, kind, observers, queue, receiverVars, watchDogVars,
                   given, readerVars, fault, historyVars>>

\* cond.wait(lock) has no predicate: it may return without a notification.
WakeByChance ==
    /\ Alive /\ SpuriousWakeups /\ pc = "waiting"
    /\ pc' = "woken"
    /\ early' = TRUE
    /\ UNCHANGED <<cmd, kind, observers, queue, receiverVars, watchDogVars,
                   given, readerVars, fault, leftover>>

\* get_packet_queue()->detach(async_obs); the last reference goes with it.
Detach ==
    /\ Alive /\ pc = "woken"
    /\ pc' = "cancel"
    /\ Unregister
    /\ leftover' = (leftover \/ Outstanding)
    /\ UNCHANGED <<cmd, kind, queue, receiverVars, watchDogVars, given,
                   readerVars, fault, early>>

CancelWatchDog ==
    /\ Alive /\ pc = "cancel"
    /\ pc' = "join"
    /\ cancel' = TRUE
    /\ UNCHANGED <<cmd, kind, observers, queue, receiverVars, enabled, wd,
                   triggered, given, readerVars, fault, historyVars>>

\* watch_dog.join() and the return to the caller.
Join ==
    /\ Alive /\ pc = "join" /\ wd = "done"
    /\ pc' = "idle"
    /\ wd' = "off"
    /\ UNCHANGED <<cmd, kind, observers, queue, receiverVars, enabled, cancel,
                   triggered, given, readerVars, fault, historyVars>>

\* watch_dog.join() of a thread that was never started throws.
JoinThrows ==
    /\ Alive /\ pc = "join" /\ wd = "off"
    /\ Fail("joinThrew")
    /\ UNCHANGED <<clientVars, observers, queue, receiverVars, watchDogVars,
                   given, readerVars, historyVars>>

-----------------------------------------------------------------------------
(* The receiver thread: push_back, notify, update, pop *)

\* push_back: queue and subject_state under queue_mutex, then notify().
Push ==
    /\ Alive /\ rxpc = "read" /\ wire # <<>>
    /\ rxpkt' = Head(wire)
    /\ wire' = Tail(wire)
    /\ queue' = Append(queue, Head(wire))
    /\ rxi' = FirstIndex /\ rxpc' = "check"
    /\ UNCHANGED <<clientVars, observers, rxobs, watchDogVars, given, inbox,
                   lines, link, fault, historyVars>>

\* The loop test of notify(): i < observers.size().
NotifyNext ==
    /\ Alive /\ rxpc = "check"
    /\ rxpc' = IF HasObserver THEN "at" ELSE "read"
    /\ UNCHANGED <<clientVars, observers, queue, rxpkt, rxi, rxobs,
                   watchDogVars, given, readerVars, fault, historyVars>>

\* observers.at(i): the vector is read again, without the lock.
CallUpdate ==
    /\ Alive /\ rxpc = "at" /\ rxi <= Len(observers)
    /\ rxobs' = observers[rxi]
    /\ rxpc' = "callback"
    /\ UNCHANGED <<clientVars, observers, queue, rxpkt, rxi, watchDogVars,
                   given, readerVars, fault, historyVars>>

\* at(i) throws out_of_range, which nothing in the thread catches.
CallUpdateThrows ==
    /\ Alive /\ rxpc = "at" /\ rxi > Len(observers)
    /\ Fail("badIndex")
    /\ UNCHANGED <<clientVars, observers, queue, receiverVars, watchDogVars,
                   given, readerVars, historyVars>>

\* update(): copy the state, call the callback, test the finish conditions.
Callback ==
    /\ Alive /\ rxpc = "callback" /\ Contains(observers, rxobs)
    /\ given' = [given EXCEPT ![rxobs] = Append(@, rxpkt)]
    /\ rxpc' = IF Finishes THEN "signal" ELSE "pop"
    /\ UNCHANGED <<clientVars, observers, queue, rxpkt, rxi, rxobs,
                   watchDogVars, readerVars, fault, historyVars>>

\* update(): cond.notify_one().
Signal ==
    /\ Alive /\ rxpc = "signal" /\ Contains(observers, rxobs)
    /\ Notify(rxobs)
    /\ rxpc' = "pop"
    /\ UNCHANGED <<cmd, kind, observers, queue, rxpkt, rxi, rxobs,
                   watchDogVars, given, readerVars, fault, historyVars>>

\* update() runs on an observer its owner has detached and destroyed, and
\* calls a callback whose captured variables are gone.
UpdateOfDeadObserver ==
    /\ Alive /\ rxpc \in {"callback", "signal"} /\ ~Contains(observers, rxobs)
    /\ Fail("deadObserver")
    /\ UNCHANGED <<clientVars, observers, queue, receiverVars, watchDogVars,
                   given, readerVars, historyVars>>

\* pop(): size() > 0 is read without the lock.
PopTest ==
    /\ Alive /\ rxpc = "pop"
    /\ IF HasPacket
       THEN rxpc' = "remove" /\ rxi' = rxi
       ELSE rxpc' = "check" /\ rxi' = rxi + 1
    /\ UNCHANGED <<clientVars, observers, queue, rxpkt, rxobs, watchDogVars,
                   given, readerVars, fault, historyVars>>

\* pop(): remove() of the first packet, under the lock.
RemoveHead ==
    /\ Alive /\ rxpc = "remove" /\ queue # <<>>
    /\ queue' = Tail(queue)
    /\ rxpc' = "check" /\ rxi' = rxi + 1
    /\ UNCHANGED <<clientVars, observers, rxpkt, rxobs, watchDogVars, given,
                   readerVars, fault, historyVars>>

\* The queue was emptied since the test: erase(end()) is undefined.
RemoveOfNothing ==
    /\ Alive /\ rxpc = "remove" /\ queue = <<>>
    /\ Fail("emptyErase")
    /\ UNCHANGED <<clientVars, observers, queue, receiverVars, watchDogVars,
                   given, readerVars, historyVars>>

\* async_read_callback: the error of a closed connection ends io_service.run.
ReceiverEnds ==
    /\ Alive /\ rxpc = "read" /\ wire = <<>> /\ link = "down"
    /\ rxpc' = "ended"
    /\ UNCHANGED <<clientVars, observers, queue, rxpkt, rxi, rxobs,
                   watchDogVars, given, readerVars, fault, historyVars>>

-----------------------------------------------------------------------------
(* The watch dog thread: the timer of AsyncSend *)

\* The flag is seen at a tick: the thread ends.
SeeCancel ==
    /\ Alive /\ wd = "ticking" /\ cancel
    /\ wd' = "done" /\ triggered' = FALSE
    /\ UNCHANGED <<clientVars, observers, queue, receiverVars, enabled, cancel,
                   given, readerVars, fault, historyVars>>

\* 8 s of ticks are over and the flag was not set at the last of them.
Expire ==
    /\ Alive /\ wd = "ticking" /\ ~cancel
    /\ SlowClient \/ pc \notin {"attach", "send", "sent"}
    /\ wd' = "reset"
    /\ early' = TRUE
    /\ UNCHANGED <<clientVars, observers, queue, receiverVars, enabled, cancel,
                   triggered, given, readerVars, fault, leftover>>

\* cancel_command_wait: reset() of the queue, under the lock.
ResetQueue ==
    /\ Alive /\ wd = "reset"
    /\ queue' = <<>>
    /\ wd' = "msg"
    /\ UNCHANGED <<clientVars, observers, receiverVars, enabled, cancel,
                   triggered, given, readerVars, fault, historyVars>>

\* cancel_command_wait: send_msg to the first observer whose id is the kind
\* of the command; msg(OBSERVER_MSG_WAKEUP) calls notify_one.
SendWakeup ==
    /\ Alive /\ wd = "msg"
    /\ \E i \in DOMAIN observers :
          /\ kind[observers[i]] = kind[cmd]
          /\ \A j \in 1..(i - 1) : kind[observers[j]] # kind[cmd]
          /\ Notify(observers[i])
    /\ wd' = "mark"
    /\ UNCHANGED <<cmd, kind, observers, queue, receiverVars, enabled, cancel,
                   triggered, given, readerVars, fault, historyVars>>

\* send_msg does not test the result of find_if: end() is dereferenced.
SendWakeupToNobody ==
    /\ Alive /\ wd = "msg"
    /\ \A i \in DOMAIN observers : kind[observers[i]] # kind[cmd]
    /\ Fail("absentObserver")
    /\ UNCHANGED <<clientVars, observers, queue, receiverVars, watchDogVars,
                   given, readerVars, historyVars>>

\* is_triggerred = true, after the wakeup.
MarkTriggered ==
    /\ Alive /\ wd = "mark"
    /\ wd' = "done" /\ triggered' = TRUE
    /\ UNCHANGED <<clientVars, observers, queue, receiverVars, enabled, cancel,
                   given, readerVars, fault, historyVars>>

-----------------------------------------------------------------------------
(* The reader and the connection (external) *)

\* A line that is not the last of the answer to the oldest command.
ReaderSends(line) ==
    /\ Alive /\ link = "up" /\ inbox # <<>> /\ lines < MaxLines
    /\ line \in InnerLines(kind[Head(inbox)])
    /\ wire' = Append(wire, [cmd |-> Head(inbox), line |-> line])
    /\ lines' = lines + 1
    /\ UNCHANGED <<clientVars, observers, queue, receiverVars, watchDogVars,
                   given, inbox, link, fault, historyVars>>

ReaderFinishes(line) ==
    /\ Alive /\ link = "up" /\ inbox # <<>>
    /\ line \in LastLines(kind[Head(inbox)])
    /\ wire' = Append(wire, [cmd |-> Head(inbox), line |-> line])
    /\ inbox' = Tail(inbox) /\ lines' = 0
    /\ UNCHANGED <<clientVars, observers, queue, receiverVars, watchDogVars,
                   given, link, fault, historyVars>>

\* The reader does not answer, or stops before the last line.
ReaderGivesUp ==
    /\ Alive /\ inbox # <<>>
    /\ inbox' = Tail(inbox) /\ lines' = 0
    /\ UNCHANGED <<clientVars, observers, queue, receiverVars, watchDogVars,
                   given, wire, link, fault, historyVars>>

DropLink ==
    /\ Alive /\ LinkMayDrop /\ link = "up"
    /\ link' = "down"
    /\ inbox' = <<>> /\ lines' = 0
    /\ UNCHANGED <<clientVars, observers, queue, receiverVars, watchDogVars,
                   given, wire, fault, historyVars>>

-----------------------------------------------------------------------------
Client ==
    \/ \E k \in Kinds : Issue(k)
    \/ Attach \/ Send \/ SendToNobody \/ SendThrows \/ BeginWait
    \/ Detach \/ CancelWatchDog \/ Join \/ JoinThrows

Receiver ==
    \/ Push \/ NotifyNext \/ CallUpdate \/ CallUpdateThrows
    \/ Callback \/ Signal \/ UpdateOfDeadObserver
    \/ PopTest \/ RemoveHead \/ RemoveOfNothing \/ ReceiverEnds

WatchDog ==
    \/ SeeCancel \/ Expire \/ ResetQueue
    \/ SendWakeup \/ SendWakeupToNobody \/ MarkTriggered

Environment ==
    \/ \E line \in Lines : ReaderSends(line) \/ ReaderFinishes(line)
    \/ ReaderGivesUp \/ DropLink \/ WakeByChance

\* A fault, or every command has returned: the run may stop.
Stop ==
    /\ ~Alive \/ (pc = "idle" /\ cmd = MaxCmds)
    /\ UNCHANGED vars

Next == Client \/ Receiver \/ WatchDog \/ Environment \/ Stop

Spec == Init /\ [][Next]_vars

\* Every thread of the process that can take a step is scheduled again; time
\* passes, so the watch dog's ticks are among these steps.  Nothing is asked
\* of the reader, of the link, or of spurious wakeups.
FairSpec ==
    /\ Spec
    /\ WF_vars(Client)
    /\ WF_vars(Receiver)
    /\ WF_vars(WatchDog)

-----------------------------------------------------------------------------
(* Properties *)

ClientPlaces   == {"idle", "attach", "send", "sent", "waiting", "woken",
                   "cancel", "join"}
ReceiverPlaces == {"read", "check", "at", "callback", "signal", "pop",
                   "remove", "ended"}
WatchDogPlaces == {"off", "ticking", "reset", "msg", "mark", "done"}
Faults         == {"none", "sendThrew", "joinThrew", "badIndex",
                   "deadObserver", "absentObserver", "emptyErase"}

\* Each variable holds values of its type.
TypeOK ==
    /\ pc \in ClientPlaces
    /\ cmd \in 0..MaxCmds
    /\ kind \in [Commands -> Kinds \cup {"none"}]
    /\ observers \in Seq(Commands)
    /\ queue \in Seq(Packets)
    /\ rxpc \in ReceiverPlaces
    /\ rxpkt \in Packets \cup {[cmd |-> 0, line |-> "none"]}
    /\ rxi \in Nat \ {0}
    /\ rxobs \in Commands \cup {0}
    /\ wd \in WatchDogPlaces
    /\ enabled \in BOOLEAN /\ cancel \in BOOLEAN /\ triggered \in BOOLEAN
    /\ given \in [Commands -> Seq(Packets)]
    /\ inbox \in Seq(Commands)
    /\ lines \in 0..MaxLines
    /\ wire \in Seq(Packets)
    /\ link \in {"up", "down"}
    /\ fault \in Faults
    /\ early \in BOOLEAN /\ leftover \in BOOLEAN

\* The callback of a command is called with lines that answer that command,
\* as long as no command was left (detached) while the reader still owed it
\* lines.  Once one was, every later command may report an earlier answer:
\* nothing in a line says which command it answers.
OwnAnswers ==
    ~leftover =>
        \A n \in Commands : \A i \in DOMAIN given[n] : given[n][i].cmd = n

\* The unlocked accesses of the client, the receiver and the watch dog to the
\* observers and the queue go wrong only after a wait was ended early or a
\* command was left with lines outstanding: on the way the code was written
\* for, observers.at(i), the callback on the caller's stack, send_msg and
\* pop() all find what they expect.
SafeUnlessCutShort ==
    fault \in {"badIndex", "deadObserver", "absentObserver", "emptyErase"}
        => early \/ leftover

\* update() pops one packet for every packet pushed, so between packets the
\* queue is empty, unless a packet arrived for a command that had left.
QueueDrained ==
    rxpc = "read" /\ ~leftover => queue = <<>>

\* A command is left with lines outstanding only if its wait was ended by the
\* watch dog or by chance, or if it was a raw command, whose answer may have
\* more than the one line Send() waits for.
LeftoverHasCause ==
    leftover => early \/ \E n \in Commands : kind[n] = "raw"

\* The caller blocks until its command has completed or the watch dog went off
\* (comment of AsyncSend): CommandContract, with a command open from its issue
\* to its detach and the alarm from the watch dog's last tick to the join.
Contract == INSTANCE CommandContract WITH
    current <- IF pc \in {"attach", "send", "sent", "waiting", "woken"}
               THEN cmd ELSE 0,
    alarm   <- wd \in {"reset", "msg", "mark"} \/ (wd = "done" /\ triggered)

BlocksUntilCompleted == Contract!Spec

\* Every command returns to its caller, or the run ended in a fault.
CommandReturns ==
    pc = "attach" ~> pc = "idle" \/ fault # "none"

\* "no matter what is the FinishCondition, alwayse return after the first
\* packet is received" (Send): once update() is done with the packet that
\* completes the command, its caller is not in the wait any more.
ReturnsAfterFirstPacket ==
    pc = "waiting" /\ rxpc = "read" => ~Contract!Completed(cmd)

=============================================================================
