------------------------ MODULE CommandSession_proofs ------------------------
(***************************************************************************)
(* Proofs about CommandSession, for every number of commands and lines and *)
(* every setting of the switches.                                          *)
(*                                                                         *)
(* Shape says where the threads can be relative to each other: whose       *)
(* observer is in the list, and which packet the receiver holds.  It is    *)
(* inductive together with TypeOK.  Clean says what holds as long as no    *)
(* command was left with lines outstanding: every line in flight answers   *)
(* the command in progress, and nothing is in flight between commands.     *)
(* WakeInv and CauseInv, at the end, say what may end a wait: with them    *)
(* every step of the threads is a step of CommandContract or a stutter.    *)
(* GuardInv says who is still to wake a caller that waits.                 *)
(***************************************************************************)
EXTENDS CommandSession, SequenceTheorems, TLAPS

\* The places of the client at which its observer is in the list.
Registered == pc \in {"send", "sent", "waiting", "woken"}

Shape ==
    /\ pc # "idle" => cmd \in Commands
    /\ observers = IF Registered THEN <<cmd>> ELSE <<>>
    /\ rxpc \notin {"read", "ended"} => rxpkt \in Packets
    /\ rxpc = "check" => rxi \in {1, 2}
    /\ rxpc \in {"at", "callback", "signal", "pop", "remove"} => rxi = 1
    /\ rxpc \in {"callback", "signal"} => rxobs \in Commands

\* Lines in flight answer the command in progress.
FlightInv ==
    ~leftover =>
        /\ \A i \in DOMAIN inbox : inbox[i] = cmd
        /\ \A i \in DOMAIN wire : wire[i].cmd = cmd
        /\ Dispatching => rxpkt.cmd = cmd
        /\ rxpc \in {"callback", "signal"} => rxobs = cmd

\* Nothing is in flight before the command is sent and after it was detached.
SettledInv ==
    ~leftover /\ pc \notin {"sent", "waiting", "woken"} => ~Outstanding

\* The watch dog is past its last tick only if a wait was ended early.
AlarmInv == wd \in {"reset", "msg", "mark"} => early

\* One packet at most is in the queue, and it is there while the receiver
\* works on it, unless the watch dog emptied the queue.
QueueInv ==
    /\ ~leftover =>
          /\ Len(queue) \in {0, 1}
          /\ rxpc \in {"read", "ended"} \/ (rxpc = "check" /\ rxi = 2)
                => queue = <<>>
    /\ ~leftover /\ ~early /\ rxpc = "remove" => queue # <<>>

Clean == FlightInv /\ SettledInv /\ AlarmInv /\ QueueInv /\ OwnAnswers
             /\ SafeUnlessCutShort

ShapeIInv == TypeOK /\ Shape
IInv == ShapeIInv /\ Clean

-----------------------------------------------------------------------------
(* Sequences *)

LEMMA RemoveOnly ==
    ASSUME NEW n, NEW i \in DOMAIN <<n>>
    PROVE  RemoveAt(<<n>>, i) = <<>>
BY DEF RemoveAt

LEMMA AppendAll ==
    ASSUME NEW S, NEW s \in Seq(S), NEW e \in S
    PROVE  /\ Append(s, e) \in Seq(S)
           /\ Len(Append(s, e)) = Len(s) + 1
           /\ \A i \in DOMAIN Append(s, e) :
                 \/ Append(s, e)[i] = e
                 \/ \E j \in DOMAIN s : Append(s, e)[i] = s[j]
BY AppendProperties

LEMMA TailAll ==
    ASSUME NEW S, NEW s \in Seq(S), s # <<>>
    PROVE  /\ Head(s) \in S
           /\ Head(s) = s[1] /\ 1 \in DOMAIN s
           /\ Tail(s) \in Seq(S)
           /\ Len(Tail(s)) = Len(s) - 1
           /\ \A i \in DOMAIN Tail(s) : \E j \in DOMAIN s : Tail(s)[i] = s[j]
BY HeadTailProperties

-----------------------------------------------------------------------------
(* Shape *)

LEMMA ShapeInit == Init => ShapeIInv
<1> SUFFICES ASSUME Init PROVE ShapeIInv
  OBVIOUS
<1> USE DEF Init, ShapeIInv, Shape, Registered, FirstIndex
<1>1. enabled \in BOOLEAN /\ cancel \in BOOLEAN /\ triggered \in BOOLEAN
      /\ early \in BOOLEAN /\ leftover \in BOOLEAN
  BY SwitchesAssumption, Zenon
<1>2. kind \in [Commands -> Kinds \cup {"none"}]
  OBVIOUS
<1>3. given \in [Commands -> Seq(Packets)]
  OBVIOUS
<1>4. cmd \in 0..MaxCmds /\ lines \in 0..MaxLines
  BY BoundsAssumption
<1>5. TypeOK
  BY <1>1, <1>2, <1>3, <1>4
  DEF TypeOK, ClientPlaces, ReceiverPlaces, WatchDogPlaces, Faults
<1>6. QED
  BY <1>5

LEMMA ShapeStep == ShapeIInv /\ [Next]_vars => ShapeIInv'
<1> SUFFICES ASSUME ShapeIInv, [Next]_vars PROVE ShapeIInv'
  OBVIOUS
<1> USE BoundsAssumption, KindsAssumption
<1> USE DEF ShapeIInv, TypeOK, Shape, Registered, ClientPlaces,
            ReceiverPlaces, WatchDogPlaces, Faults, FirstIndex, HasObserver,
            HasPacket, Finishes, Fail, Notify, clientVars, receiverVars,
            watchDogVars, readerVars, historyVars
<1>1. ASSUME NEW k \in Kinds, Issue(k) PROVE ShapeIInv'
  <2>1. cmd + 1 \in Commands /\ cmd' \in 0..MaxCmds /\ cmd' \in Commands
    BY <1>1 DEF Issue, Commands
  <2>2. kind' \in [Commands -> Kinds \cup {"none"}]
    BY <1>1, <2>1 DEF Issue
  <2>3. wd' \in WatchDogPlaces
    BY <1>1 DEF Issue
  <2>4. cancel' \in BOOLEAN /\ triggered' \in BOOLEAN
    BY <1>1, Zenon DEF Issue
  <2>5. QED
    BY <1>1, <2>1, <2>2, <2>3, <2>4 DEF Issue
<1>2. CASE Attach
  BY <1>2 DEF Attach
<1>3. CASE Send
  BY <1>3 DEF Send
<1>4. CASE SendToNobody
  BY <1>4 DEF SendToNobody
<1>5. CASE SendThrows
  BY <1>5 DEF SendThrows
<1>6. CASE BeginWait
  BY <1>6 DEF BeginWait
<1>7. CASE WakeByChance
  BY <1>7 DEF WakeByChance
<1>8. CASE Detach
  <2>1. leftover' \in BOOLEAN
    BY <1>8, Zenon DEF Detach
  <2>2. observers' = <<>>
    BY <1>8, RemoveOnly DEF Detach, Unregister
  <2>3. QED
    BY <1>8, <2>1, <2>2 DEF Detach
<1>9. CASE CancelWatchDog
  BY <1>9 DEF CancelWatchDog
<1>10. CASE Join
  BY <1>10 DEF Join
<1>11. CASE JoinThrows
  BY <1>11 DEF JoinThrows
<1>12. CASE Push
  BY <1>12 DEF Push
<1>13. CASE NotifyNext
  BY <1>13 DEF NotifyNext
<1>14. CASE CallUpdate
  BY <1>14 DEF CallUpdate
<1>15. CASE CallUpdateThrows
  BY <1>15 DEF CallUpdateThrows
<1>16. CASE Callback
  BY <1>16 DEF Callback
<1>17. CASE Signal
  BY <1>17 DEF Signal
<1>18. CASE UpdateOfDeadObserver
  BY <1>18 DEF UpdateOfDeadObserver
<1>19. CASE PopTest
  BY <1>19 DEF PopTest
<1>20. CASE RemoveHead
  BY <1>20 DEF RemoveHead
<1>21. CASE RemoveOfNothing
  BY <1>21 DEF RemoveOfNothing
<1>22. CASE ReceiverEnds
  BY <1>22 DEF ReceiverEnds
<1>23. CASE SeeCancel
  <2>1. triggered' \in BOOLEAN
    BY <1>23, Zenon DEF SeeCancel
  <2>2. QED
    BY <1>23, <2>1 DEF SeeCancel
<1>24. CASE Expire
  BY <1>24 DEF Expire
<1>25. CASE ResetQueue
  BY <1>25 DEF ResetQueue
<1>26. CASE SendWakeup
  BY <1>26 DEF SendWakeup
<1>27. CASE SendWakeupToNobody
  BY <1>27 DEF SendWakeupToNobody
<1>28. CASE MarkTriggered
  BY <1>28 DEF MarkTriggered
<1>29. CASE ReaderGivesUp
  BY <1>29 DEF ReaderGivesUp
<1>30. CASE DropLink
  BY <1>30 DEF DropLink
<1>31. ASSUME NEW line \in Lines, ReaderSends(line) PROVE ShapeIInv'
  <2>1. Head(inbox) \in Commands
    BY <1>31, TailAll DEF ReaderSends
  <2>2. [cmd |-> Head(inbox), line |-> line] \in Packets
    BY <2>1 DEF Packets
  <2>3. lines' \in 0..MaxLines
    BY <1>31 DEF ReaderSends
  <2>4. wire' \in Seq(Packets)
    BY <1>31, <2>2, AppendAll DEF ReaderSends
  <2>5. QED
    BY <1>31, <2>3, <2>4 DEF ReaderSends
<1>32. ASSUME NEW line \in Lines, ReaderFinishes(line) PROVE ShapeIInv'
  <2>1. Head(inbox) \in Commands /\ Tail(inbox) \in Seq(Commands)
    BY <1>32, TailAll DEF ReaderFinishes
  <2>2. [cmd |-> Head(inbox), line |-> line] \in Packets
    BY <2>1 DEF Packets
  <2>3. lines' \in 0..MaxLines
    BY <1>32 DEF ReaderFinishes
  <2>4. wire' \in Seq(Packets)
    BY <1>32, <2>2, AppendAll DEF ReaderFinishes
  <2>5. QED
    BY <1>32, <2>1, <2>3, <2>4 DEF ReaderFinishes
<1>33. CASE UNCHANGED vars
  BY <1>33 DEF vars
<1>34. QED
  BY <1>1, <1>2, <1>3, <1>4, <1>5, <1>6, <1>7, <1>8, <1>9, <1>10, <1>11,
     <1>12, <1>13, <1>14, <1>15, <1>16, <1>17, <1>18, <1>19, <1>20, <1>21,
     <1>22, <1>23, <1>24, <1>25, <1>26, <1>27, <1>28, <1>29, <1>30, <1>31,
     <1>32, <1>33
  DEF Next, Client, Receiver, WatchDog, Environment, Stop

-----------------------------------------------------------------------------
(* Clean *)

LEMMA CleanInit == Init => Clean
BY DEF Init, FirstIndex, Clean, FlightInv, SettledInv, AlarmInv, QueueInv,
       OwnAnswers,SafeUnlessCutShort, Outstanding, Dispatching

LEMMA CleanStep == IInv /\ ShapeIInv' /\ [Next]_vars => Clean'
<1> SUFFICES ASSUME ShapeIInv, Clean, ShapeIInv', [Next]_vars PROVE Clean'
  BY DEF IInv
<1> USE DEF ShapeIInv, TypeOK, Shape, Registered, Clean, FlightInv, SettledInv,
            AlarmInv, QueueInv, OwnAnswers, SafeUnlessCutShort, Outstanding,
            Dispatching, FirstIndex, HasObserver, HasPacket, Finishes,
            Alive, Fail, Notify, clientVars, receiverVars,
            watchDogVars, readerVars, historyVars
<1>1. ASSUME NEW k \in Kinds, Issue(k) PROVE Clean'
  BY <1>1 DEF Issue, Commands
<1>2. CASE Attach
  BY <1>2 DEF Attach
<1>3. CASE Send
  BY <1>3 DEF Send
<1>4. CASE SendToNobody
  BY <1>4 DEF SendToNobody
<1>5. CASE SendThrows
  BY <1>5 DEF SendThrows
<1>6. CASE BeginWait
  BY <1>6 DEF BeginWait
<1>7. CASE WakeByChance
  BY <1>7 DEF WakeByChance
<1>8. CASE Detach
  BY <1>8 DEF Detach
<1>9. CASE CancelWatchDog
  BY <1>9 DEF CancelWatchDog
<1>10. CASE Join
  BY <1>10 DEF Join
<1>11. CASE JoinThrows
  BY <1>11 DEF JoinThrows
<1>12. CASE Push
  BY <1>12 DEF Push
<1>13. CASE NotifyNext
  BY <1>13 DEF NotifyNext
<1>14. CASE CallUpdate
  BY <1>14 DEF CallUpdate
<1>15. CASE CallUpdateThrows
  BY <1>15 DEF CallUpdateThrows
<1>16. CASE Callback
  BY <1>16 DEF Callback
<1>17. CASE Signal
  BY <1>17 DEF Signal
<1>18. CASE UpdateOfDeadObserver
  <2>1. ~leftover => Contains(observers, rxobs)
    BY <1>18 DEF UpdateOfDeadObserver, Contains
  <2>2. leftover
    BY <1>18, <2>1 DEF UpdateOfDeadObserver
  <2>3. QED
    BY <1>18, <2>2 DEF UpdateOfDeadObserver
<1>19. CASE PopTest
  BY <1>19 DEF PopTest
<1>20. CASE RemoveHead
  BY <1>20 DEF RemoveHead
<1>21. CASE RemoveOfNothing
  BY <1>21 DEF RemoveOfNothing
<1>22. CASE ReceiverEnds
  BY <1>22 DEF ReceiverEnds
<1>23. CASE SeeCancel
  BY <1>23 DEF SeeCancel
<1>24. CASE Expire
  BY <1>24 DEF Expire
<1>25. CASE ResetQueue
  BY <1>25 DEF ResetQueue
<1>26. CASE SendWakeup
  BY <1>26 DEF SendWakeup
<1>27. CASE SendWakeupToNobody
  BY <1>27 DEF SendWakeupToNobody
<1>28. CASE MarkTriggered
  BY <1>28 DEF MarkTriggered
<1>29. CASE ReaderGivesUp
  BY <1>29 DEF ReaderGivesUp
<1>30. CASE DropLink
  BY <1>30 DEF DropLink
<1>31. ASSUME NEW line \in Lines, ReaderSends(line) PROVE Clean'
  BY <1>31 DEF ReaderSends
<1>32. ASSUME NEW line \in Lines, ReaderFinishes(line) PROVE Clean'
  <2>1. /\ Head(inbox) \in Commands /\ Head(inbox) = inbox[1]
        /\ 1 \in DOMAIN inbox
        /\ \A i \in DOMAIN inbox' :
              \E j \in DOMAIN inbox : inbox'[i] = inbox[j]
    BY <1>32, TailAll DEF ReaderFinishes
  <2>2. QED
    BY <1>32, <2>1 DEF ReaderFinishes
<1>33. CASE UNCHANGED vars
  BY <1>33 DEF vars
<1>34. QED
  BY <1>1, <1>2, <1>3, <1>4, <1>5, <1>6, <1>7, <1>8, <1>9, <1>10, <1>11,
     <1>12, <1>13, <1>14, <1>15, <1>16, <1>17, <1>18, <1>19, <1>20, <1>21,
     <1>22, <1>23, <1>24, <1>25, <1>26, <1>27, <1>28, <1>29, <1>30, <1>31,
     <1>32, <1>33
  DEF Next, Client, Receiver, WatchDog, Environment, Stop

-----------------------------------------------------------------------------
(* The theorems *)

THEOREM IInvHolds == Spec => []IInv
<1>1. Init => IInv
  BY ShapeInit, CleanInit DEF IInv
<1>2. IInv /\ [Next]_vars => IInv'
  BY ShapeStep, CleanStep DEF IInv
<1>3. QED
  BY <1>1, <1>2, PTL DEF Spec

\* Every variable keeps the type of the field or local it stands for.
THEOREM TypeCorrect == Spec => []TypeOK
<1>1. IInv => TypeOK
  BY DEF IInv, ShapeIInv
<1>2. QED
  BY <1>1, IInvHolds, PTL

\* As long as no command was detached with lines outstanding, every callback
\* of AsyncSend is called with lines that answer its own command only.
THEOREM OwnAnswersHolds == Spec => []OwnAnswers
<1>1. IInv => OwnAnswers
  BY DEF IInv, Clean
<1>2. QED
  BY <1>1, IInvHolds, PTL

\* The unlocked accesses to the observers and the queue (Subject::notify,
\* send_msg, update, PacketQueue::pop) meet undefined behaviour only after a
\* wait was ended early or a command left with lines outstanding.
THEOREM SafeUnlessCutShortHolds == Spec => []SafeUnlessCutShort
<1>1. IInv => SafeUnlessCutShort
  BY DEF IInv, Clean
<1>2. QED
  BY <1>1, IInvHolds, PTL

\* Between packets the packet queue is empty, unless a command was detached
\* with lines outstanding.
THEOREM QueueDrainedHolds == Spec => []QueueDrained
<1>1. IInv => QueueDrained
  BY DEF IInv, Clean, QueueInv, QueueDrained
<1>2. QED
  BY <1>1, IInvHolds, PTL

-----------------------------------------------------------------------------
(* Why a command is left with lines outstanding *)

Ends(line) == Completes(kind[cmd], line)

\* A command other than a raw one is completed by the last line of its answer
\* and by no other: with that line nothing is outstanding any more, and a
\* client that was not woken early was woken by it.
LastLineInv ==
    /\ \A n \in Commands : n > cmd => kind[n] = "none"
    /\ ~leftover /\ (\A n \in Commands : kind[n] # "raw") =>
          /\ Len(inbox) <= 1
          /\ \A i \in DOMAIN wire :
                Ends(wire[i].line) => i = Len(wire) /\ inbox = <<>>
          /\ Dispatching /\ Ends(rxpkt.line) => wire = <<>> /\ inbox = <<>>
          /\ rxpc = "signal" => Ends(rxpkt.line)
          /\ pc = "woken" /\ ~early => ~Outstanding

CauseInv == LastLineInv /\ LeftoverHasCause

LEMMA TailFacts ==
    ASSUME NEW S, NEW s \in Seq(S), s # <<>>
    PROVE  /\ Head(s) = s[1] /\ 1 \in DOMAIN s
           /\ Len(s) = 1 => Tail(s) = <<>>
           /\ \A i \in DOMAIN Tail(s) : i + 1 \in DOMAIN s
                                        /\ Tail(s)[i] = s[i + 1]
           /\ Len(Tail(s)) = Len(s) - 1
<1>1. Tail(s) \in Seq(S) /\ Len(Tail(s)) = Len(s) - 1
  OBVIOUS
<1>2. Len(s) = 1 => Tail(s) = <<>>
  <2>1. Len(s) = 1 => Len(Tail(s)) = 0
    BY <1>1
  <2>2. QED
    BY <1>1, <2>1, EmptySeq
<1>3. QED
  BY <1>1, <1>2

\* No line before the last completes a command that is not raw.
LEMMA InnerLinesDoNotEnd ==
    ASSUME NEW k \in AllKinds \ {"raw"}, NEW line
    PROVE  line \in InnerLines(k) => ~Completes(k, line)
BY DEF AllKinds, InnerLines, Completes

LEMMA CauseInit == Init => CauseInv
BY DEF Init, CauseInv, LastLineInv, LeftoverHasCause, Outstanding, Dispatching

LEMMA CauseStep == IInv /\ IInv' /\ CauseInv /\ [Next]_vars => CauseInv'
<1> SUFFICES ASSUME IInv, IInv', CauseInv, [Next]_vars PROVE CauseInv'
  OBVIOUS
<1> USE DEF IInv, ShapeIInv, TypeOK, Shape, Registered, Clean, FlightInv,
            SettledInv, AlarmInv, CauseInv, LastLineInv, LeftoverHasCause, Ends,
            Outstanding, Dispatching, FirstIndex, HasObserver, HasPacket,
            Finishes, Alive, Fail, Notify, clientVars, receiverVars,
            watchDogVars, readerVars, historyVars
<1>1. ASSUME NEW k \in Kinds, Issue(k) PROVE CauseInv'
  BY <1>1 DEF Issue, Commands
<1>2. CASE Attach
  BY <1>2 DEF Attach
<1>3. CASE Send
  BY <1>3 DEF Send
<1>4. CASE SendToNobody
  BY <1>4 DEF SendToNobody
<1>5. CASE SendThrows
  BY <1>5 DEF SendThrows
<1>6. CASE BeginWait
  BY <1>6 DEF BeginWait
<1>7. CASE WakeByChance
  BY <1>7 DEF WakeByChance
<1>8. CASE Detach
  BY <1>8 DEF Detach
<1>9. CASE CancelWatchDog
  BY <1>9 DEF CancelWatchDog
<1>10. CASE Join
  BY <1>10 DEF Join
<1>11. CASE JoinThrows
  BY <1>11 DEF JoinThrows
<1>12. CASE Push
  <2>1. /\ Head(wire) = wire[1] /\ 1 \in DOMAIN wire
        /\ Len(wire) = 1 => Tail(wire) = <<>>
        /\ \A i \in DOMAIN Tail(wire) : i + 1 \in DOMAIN wire
                                        /\ Tail(wire)[i] = wire[i + 1]
        /\ Len(Tail(wire)) = Len(wire) - 1
    <3>1. wire # <<>> /\ wire \in Seq(Packets)
      BY <1>12 DEF Push
    <3>2. QED
      BY <3>1, TailFacts
  <2>2. \A i \in DOMAIN wire' :
           Ends(wire'[i].line) => \/ i = Len(wire') /\ inbox' = <<>>
                                  \/ leftover
                                  \/ \E n \in Commands : kind[n] = "raw"
    BY <1>12, <2>1 DEF Push
  <2>3. QED
    BY <1>12, <2>1, <2>2 DEF Push
<1>13. CASE NotifyNext
  BY <1>13 DEF NotifyNext
<1>14. CASE CallUpdate
  BY <1>14 DEF CallUpdate
<1>15. CASE CallUpdateThrows
  BY <1>15 DEF CallUpdateThrows
<1>16. CASE Callback
  BY <1>16 DEF Callback
<1>17. CASE Signal
  BY <1>17 DEF Signal
<1>18. CASE UpdateOfDeadObserver
  BY <1>18 DEF UpdateOfDeadObserver
<1>19. CASE PopTest
  BY <1>19 DEF PopTest
<1>20. CASE RemoveHead
  BY <1>20 DEF RemoveHead
<1>21. CASE RemoveOfNothing
  BY <1>21 DEF RemoveOfNothing
<1>22. CASE ReceiverEnds
  BY <1>22 DEF ReceiverEnds
<1>23. CASE SeeCancel
  BY <1>23 DEF SeeCancel
<1>24. CASE Expire
  BY <1>24 DEF Expire
<1>25. CASE ResetQueue
  BY <1>25 DEF ResetQueue
<1>26. CASE SendWakeup
  BY <1>26 DEF SendWakeup
<1>27. CASE SendWakeupToNobody
  BY <1>27 DEF SendWakeupToNobody
<1>28. CASE MarkTriggered
  BY <1>28 DEF MarkTriggered
<1>29. CASE ReaderGivesUp
  BY <1>29 DEF ReaderGivesUp
<1>30. CASE DropLink
  BY <1>30 DEF DropLink
<1>31. ASSUME NEW line \in Lines, ReaderSends(line) PROVE CauseInv'
  <2>1. Head(inbox) = inbox[1] /\ 1 \in DOMAIN inbox /\ inbox[1] \in Commands
    BY <1>31 DEF ReaderSends
  <2>2. CASE ~leftover /\ \A n \in Commands : kind[n] # "raw"
    <3>1. Head(inbox) = cmd /\ cmd \in Commands
      BY <2>1, <2>2
    <3>2. kind[cmd] \in AllKinds \ {"raw"}
      <4>1. kind[cmd] # "none"
        BY <1>31, <3>1 DEF ReaderSends, InnerLines
      <4>2. QED
        BY <2>2, <3>1, <4>1, KindsAssumption
    <3>3. ~Ends(line)
      BY <1>31, <3>1, <3>2, InnerLinesDoNotEnd DEF ReaderSends
    <3>4. \A i \in DOMAIN wire : ~Ends(wire[i].line)
      BY <1>31, <2>2 DEF ReaderSends
    <3>5. \A i \in DOMAIN wire' : ~Ends(wire'[i].line)
      BY <1>31, <3>3, <3>4 DEF ReaderSends
    <3>6. QED
      BY <1>31, <2>2, <3>5 DEF ReaderSends
  <2>3. QED
    BY <1>31, <2>2 DEF ReaderSends
<1>32. ASSUME NEW line \in Lines, ReaderFinishes(line) PROVE CauseInv'
  BY <1>32 DEF ReaderFinishes
<1>33. CASE UNCHANGED vars
  BY <1>33 DEF vars
<1>34. QED
    BY <1>1, <1>2, <1>3, <1>4, <1>5, <1>6, <1>7, <1>8, <1>9, <1>10, <1>11,
     <1>12, <1>13, <1>14, <1>15, <1>16, <1>17, <1>18, <1>19, <1>20, <1>21,
     <1>22, <1>23, <1>24, <1>25, <1>26, <1>27, <1>28, <1>29, <1>30, <1>31,
     <1>32, <1>33
  DEF Next, Client, Receiver, WatchDog, Environment, Stop

\* A command is left with lines outstanding only after its wait was ended
\* early, or if a raw command was among those issued.
THEOREM LeftoverHasCauseHolds == Spec => []LeftoverHasCause
<1>1. Init => CauseInv
  BY CauseInit
<1>2. IInv /\ IInv' /\ CauseInv /\ [Next]_vars => CauseInv'
  BY CauseStep
<1>3. CauseInv => LeftoverHasCause
  BY DEF CauseInv
<1>4. QED
  BY <1>1, <1>2, <1>3, IInvHolds, PTL DEF Spec

-----------------------------------------------------------------------------
(* CommandSession implements CommandContract when condition variables wake *)
(* nobody by chance: a caller leaves the wait only after its callback was  *)
(* given a line that completes the command, or after the watch dog's last  *)
(* tick.                                                                   *)

\* A line that completes command n was given to its callback.
Ended(n) == \E i \in DOMAIN given[n] : Completes(kind[n], given[n][i].line)

AlarmOn == wd \in {"reset", "msg", "mark"} \/ (wd = "done" /\ triggered)

\* Who may notify, and why a woken client was notified.
WakeInv ==
    /\ rxpc \in {"callback", "signal"} => rxobs <= cmd
    /\ rxpc = "signal" => Ended(rxobs)
    /\ pc = "woken" => Ended(cmd) \/ AlarmOn
    /\ wd = "ticking" => ~triggered
    /\ \A n \in Commands : n > cmd => kind[n] = "none"

LEMMA WakeInit == Init => WakeInv
BY DEF Init, WakeInv, AlarmOn

LEMMA WakeStep ==
    ~SpuriousWakeups /\ ShapeIInv /\ WakeInv /\ [Next]_vars => WakeInv'
<1> SUFFICES ASSUME ~SpuriousWakeups, ShapeIInv, WakeInv, [Next]_vars
             PROVE  WakeInv'
  OBVIOUS
<1> USE DEF ShapeIInv, TypeOK, Shape, Registered, WakeInv, Ended, AlarmOn,
            Finishes, Alive, Fail, Notify, clientVars, receiverVars,
            watchDogVars, readerVars, historyVars
<1>1. ASSUME NEW k \in Kinds, Issue(k) PROVE WakeInv'
  BY <1>1 DEF Issue, Commands
<1>2. CASE Attach
  BY <1>2 DEF Attach
<1>3. CASE Send
  BY <1>3 DEF Send
<1>4. CASE SendToNobody
  BY <1>4 DEF SendToNobody
<1>5. CASE SendThrows
  BY <1>5 DEF SendThrows
<1>6. CASE BeginWait
  BY <1>6 DEF BeginWait
<1>7. CASE WakeByChance
  BY <1>7 DEF WakeByChance
<1>8. CASE Detach
  BY <1>8 DEF Detach
<1>9. CASE CancelWatchDog
  BY <1>9 DEF CancelWatchDog
<1>10. CASE Join
  BY <1>10 DEF Join
<1>11. CASE JoinThrows
  BY <1>11 DEF JoinThrows
<1>12. CASE Push
  BY <1>12 DEF Push
<1>13. CASE NotifyNext
  BY <1>13 DEF NotifyNext
<1>14. CASE CallUpdate
  BY <1>14 DEF CallUpdate
<1>15. CASE CallUpdateThrows
  BY <1>15 DEF CallUpdateThrows
<1>16. CASE Callback
  <2>1. rxobs \in Commands /\ rxpkt \in Packets
    BY <1>16 DEF Callback
  <2>2. /\ given'[rxobs] = Append(given[rxobs], rxpkt)
        /\ \A n \in Commands : n # rxobs => given'[n] = given[n]
    BY <1>16, <2>1 DEF Callback
  <2>3. /\ Len(given'[rxobs]) = Len(given[rxobs]) + 1
        /\ \A i \in DOMAIN given[rxobs] :
              i \in DOMAIN given'[rxobs] /\ given'[rxobs][i] = given[rxobs][i]
        /\ given'[rxobs][Len(given[rxobs]) + 1] = rxpkt
        /\ Len(given[rxobs]) + 1 \in DOMAIN given'[rxobs]
    BY <2>1, <2>2
  <2>4. \A n \in Commands : Ended(n) => Ended(n)'
    BY <1>16, <2>2, <2>3 DEF Callback
  <2>5. rxpc' = "signal" => Ended(rxobs)'
    BY <1>16, <2>3 DEF Callback
  <2>6. QED
    BY <1>16, <2>1, <2>4, <2>5 DEF Callback
<1>17. CASE Signal
  BY <1>17 DEF Signal
<1>18. CASE UpdateOfDeadObserver
  BY <1>18 DEF UpdateOfDeadObserver
<1>19. CASE PopTest
  BY <1>19 DEF PopTest
<1>20. CASE RemoveHead
  BY <1>20 DEF RemoveHead
<1>21. CASE RemoveOfNothing
  BY <1>21 DEF RemoveOfNothing
<1>22. CASE ReceiverEnds
  BY <1>22 DEF ReceiverEnds
<1>23. CASE SeeCancel
  BY <1>23 DEF SeeCancel
<1>24. CASE Expire
  BY <1>24 DEF Expire
<1>25. CASE ResetQueue
  BY <1>25 DEF ResetQueue
<1>26. CASE SendWakeup
  BY <1>26 DEF SendWakeup
<1>27. CASE SendWakeupToNobody
  BY <1>27 DEF SendWakeupToNobody
<1>28. CASE MarkTriggered
  BY <1>28 DEF MarkTriggered
<1>29. CASE ReaderGivesUp
  BY <1>29 DEF ReaderGivesUp
<1>30. CASE DropLink
  BY <1>30 DEF DropLink
<1>31. ASSUME NEW line \in Lines, ReaderSends(line) PROVE WakeInv'
  BY <1>31 DEF ReaderSends
<1>32. ASSUME NEW line \in Lines, ReaderFinishes(line) PROVE WakeInv'
  BY <1>32 DEF ReaderFinishes
<1>33. CASE UNCHANGED vars
  BY <1>33 DEF vars
<1>34. QED
  BY <1>1, <1>2, <1>3, <1>4, <1>5, <1>6, <1>7, <1>8, <1>9, <1>10, <1>11,
     <1>12, <1>13, <1>14, <1>15, <1>16, <1>17, <1>18, <1>19, <1>20, <1>21,
     <1>22, <1>23, <1>24, <1>25, <1>26, <1>27, <1>28, <1>29, <1>30, <1>31,
     <1>32, <1>33
  DEF Next, Client, Receiver, WatchDog, Environment, Stop

-----------------------------------------------------------------------------
LEMMA ContractInit == Init => Contract!Init
BY DEF Init, Contract!Init

LEMMA ContractStep ==
    ~SpuriousWakeups /\ ShapeIInv /\ WakeInv /\ [Next]_vars
        => [Contract!Next]_(Contract!contractVars)
<1> SUFFICES ASSUME ~SpuriousWakeups, ShapeIInv, WakeInv, [Next]_vars
             PROVE  Contract!Next \/ UNCHANGED Contract!contractVars
  BY DEF Contract!contractVars
<1> DEFINE Goal == Contract!Next \/ UNCHANGED Contract!contractVars
<1> USE DEF ShapeIInv, TypeOK, Shape, Registered, WakeInv, Ended, AlarmOn,
            Finishes, Alive, Fail, Notify, clientVars, receiverVars,
            watchDogVars, readerVars, historyVars, Contract!contractVars
<1>1. ASSUME NEW k \in Kinds, Issue(k) PROVE Goal
  <2>1. cmd + 1 \in Commands /\ kind[cmd + 1] = "none" /\ cmd' = cmd + 1
    BY <1>1, BoundsAssumption DEF Issue, Commands
  <2>2. wd' \in {"ticking", "off"} /\ pc' = "attach" /\ pc = "idle"
    BY <1>1 DEF Issue
  <2>3. Contract!Open(cmd + 1, k)
    BY <1>1, <2>1, <2>2 DEF Issue, Contract!Open
  <2>4. QED
    BY <2>1, <2>3 DEF Contract!Next
<1>2. CASE Attach
  BY <1>2 DEF Attach
<1>3. CASE Send
  BY <1>3 DEF Send
<1>4. CASE SendToNobody
  BY <1>4 DEF SendToNobody
<1>5. CASE SendThrows
  BY <1>5 DEF SendThrows
<1>6. CASE BeginWait
  BY <1>6 DEF BeginWait
<1>7. CASE WakeByChance
  BY <1>7 DEF WakeByChance
<1>8. CASE Detach
  <2>1. Contract!Completed(cmd) \/ AlarmOn
    BY <1>8 DEF Detach, Contract!Completed, Contract!Completes, Completes
  <2>2. cmd # 0
    BY <1>8 DEF Detach, Commands
  <2>3. Contract!Close
    BY <1>8, <2>1, <2>2 DEF Detach, Contract!Close
  <2>4. QED
    BY <2>3 DEF Contract!Next
<1>9. CASE CancelWatchDog
  BY <1>9 DEF CancelWatchDog
<1>10. CASE Join
  <2>1. CASE AlarmOn
    <3>1. Contract!Rearm
      BY <1>10, <2>1 DEF Join, Contract!Rearm
    <3>2. QED
      BY <3>1 DEF Contract!Next
  <2>2. CASE ~AlarmOn
    BY <1>10, <2>2 DEF Join
  <2>3. QED
    BY <2>1, <2>2
<1>11. CASE JoinThrows
  BY <1>11 DEF JoinThrows
<1>12. CASE Push
  BY <1>12 DEF Push
<1>13. CASE NotifyNext
  BY <1>13 DEF NotifyNext
<1>14. CASE CallUpdate
  BY <1>14 DEF CallUpdate
<1>15. CASE CallUpdateThrows
  BY <1>15 DEF CallUpdateThrows
<1>16. CASE Callback
  <2>1. Registered /\ rxobs = cmd /\ cmd # 0
    BY <1>16 DEF Callback, Contains, Commands
  <2>2. rxpkt \in Packets
    BY <1>16 DEF Callback
  <2>3. Contract!Give(rxpkt)
    BY <1>16, <2>1 DEF Callback, Contract!Give
  <2>4. QED
    BY <2>2, <2>3 DEF Contract!Next
<1>17. CASE Signal
  BY <1>17 DEF Signal
<1>18. CASE UpdateOfDeadObserver
  BY <1>18 DEF UpdateOfDeadObserver
<1>19. CASE PopTest
  BY <1>19 DEF PopTest
<1>20. CASE RemoveHead
  BY <1>20 DEF RemoveHead
<1>21. CASE RemoveOfNothing
  BY <1>21 DEF RemoveOfNothing
<1>22. CASE ReceiverEnds
  BY <1>22 DEF ReceiverEnds
<1>23. CASE SeeCancel
  BY <1>23 DEF SeeCancel
<1>24. CASE Expire
  <2>1. Contract!Alarm
    BY <1>24 DEF Expire, Contract!Alarm
  <2>2. QED
    BY <2>1 DEF Contract!Next
<1>25. CASE ResetQueue
  BY <1>25 DEF ResetQueue
<1>26. CASE SendWakeup
  BY <1>26 DEF SendWakeup
<1>27. CASE SendWakeupToNobody
  BY <1>27 DEF SendWakeupToNobody
<1>28. CASE MarkTriggered
  BY <1>28 DEF MarkTriggered
<1>29. CASE ReaderGivesUp
  BY <1>29 DEF ReaderGivesUp
<1>30. CASE DropLink
  BY <1>30 DEF DropLink
<1>31. ASSUME NEW line \in Lines, ReaderSends(line) PROVE Goal
  BY <1>31 DEF ReaderSends
<1>32. ASSUME NEW line \in Lines, ReaderFinishes(line) PROVE Goal
  BY <1>32 DEF ReaderFinishes
<1>33. CASE UNCHANGED vars
  BY <1>33 DEF vars
<1>34. QED
  BY <1>1, <1>2, <1>3, <1>4, <1>5, <1>6, <1>7, <1>8, <1>9, <1>10, <1>11,
     <1>12, <1>13, <1>14, <1>15, <1>16, <1>17, <1>18, <1>19, <1>20, <1>21,
     <1>22, <1>23, <1>24, <1>25, <1>26, <1>27, <1>28, <1>29, <1>30, <1>31,
     <1>32, <1>33
  DEF Next, Client, Receiver, WatchDog, Environment, Stop

\* The comment of AsyncSend: its caller blocks until the command has completed
\* or the watch dog has been triggered.
THEOREM BlocksUntilCompletedHolds ==
    ASSUME ~SpuriousWakeups
    PROVE  Spec => BlocksUntilCompleted
<1>1. Init => Contract!Init
  BY ContractInit
<1>2. Spec => []WakeInv
  <2>1. Init => WakeInv
    BY WakeInit
  <2>2. ShapeIInv /\ WakeInv /\ [Next]_vars => WakeInv'
    BY WakeStep
  <2>3. Spec => []ShapeIInv
    BY ShapeInit, ShapeStep, PTL DEF Spec
  <2>4. QED
    BY <2>1, <2>2, <2>3, PTL DEF Spec
<1>3. ShapeIInv /\ WakeInv /\ [Next]_vars
          => [Contract!Next]_(Contract!contractVars)
  BY ContractStep
<1>4. Spec => []ShapeIInv
  BY ShapeInit, ShapeStep, PTL DEF Spec
<1>5. QED
  BY <1>1, <1>2, <1>3, <1>4, PTL DEF Spec, BlocksUntilCompleted, Contract!Spec

-----------------------------------------------------------------------------
(* CommandSession strands no caller when the client is in its wait before  *)
(* the watch dog's time is over.                                           *)

\* A caller in its wait has a watch dog that has still to wake it, and its
\* observer is where the wakeup is sent to, whatever became of the answer, the
\* link and the notifications; a caller in join() waits for a thread that was
\* told to end or has passed its last tick.
WaitIsGuarded ==
    enabled =>
        /\ pc = "waiting" => /\ observers = <<cmd>> /\ ~cancel
                             /\ wd \in {"ticking", "reset", "msg"}
        /\ pc = "join" => cancel /\ wd # "off"

\* Where the watch dog is while its command is under way.
GuardInv ==
    /\ pc \in {"attach", "send", "sent"} =>
          ~cancel /\ wd = IF enabled THEN "ticking" ELSE "off"
    /\ pc = "waiting" =>
          ~cancel /\ wd \in IF enabled THEN {"ticking", "reset", "msg"}
                            ELSE {"off"}
    /\ pc \in {"woken", "cancel", "join"} => (wd = "off" <=> ~enabled)
    /\ pc = "join" => cancel

\* The steps that move neither the caller nor its watch dog.
Aside ==
    \/ SendThrows \/ JoinThrows
    \/ Push \/ NotifyNext \/ CallUpdate \/ CallUpdateThrows \/ Callback
    \/ UpdateOfDeadObserver \/ PopTest \/ RemoveHead \/ RemoveOfNothing
    \/ ReceiverEnds \/ SendWakeupToNobody \/ ReaderGivesUp \/ DropLink
    \/ \E line \in Lines : ReaderSends(line) \/ ReaderFinishes(line)
    \/ UNCHANGED vars

LEMMA GuardStep ==
    ~SlowClient /\ ShapeIInv /\ GuardInv /\ [Next]_vars => GuardInv'
<1> SUFFICES ASSUME ~SlowClient, ShapeIInv, GuardInv, [Next]_vars
             PROVE  GuardInv'
  OBVIOUS
<1> USE DEF GuardInv, clientVars, watchDogVars, readerVars, historyVars,
            receiverVars
<1>1. ASSUME NEW k \in Kinds, Issue(k) PROVE GuardInv'
  BY <1>1 DEF Issue
<1>2. CASE Attach
  BY <1>2 DEF Attach
<1>3. CASE Send
  BY <1>3 DEF Send
<1>4. CASE SendToNobody
  BY <1>4 DEF SendToNobody
<1>5. CASE BeginWait
  BY <1>5 DEF BeginWait
<1>6. CASE WakeByChance
  BY <1>6 DEF WakeByChance
<1>7. CASE Detach
  BY <1>7 DEF Detach
<1>8. CASE CancelWatchDog
  BY <1>8 DEF CancelWatchDog
<1>9. CASE Join
  BY <1>9 DEF Join
<1>10. CASE Signal
  BY <1>10 DEF Signal, Notify
<1>11. CASE SeeCancel
  BY <1>11 DEF SeeCancel
<1>12. CASE Expire
  BY <1>12 DEF Expire
<1>13. CASE ResetQueue
  BY <1>13 DEF ResetQueue
<1>14. CASE SendWakeup
  <2>1. pc = "waiting" => pc' = "woken"
    BY <1>14 DEF SendWakeup, Notify, ShapeIInv, Shape, Registered
  <2>2. pc # "waiting" => pc' = pc
    BY <1>14 DEF SendWakeup, Notify
  <2>3. wd = "msg" /\ wd' = "mark" /\ UNCHANGED <<enabled, cancel>>
    BY <1>14 DEF SendWakeup
  <2>4. QED
    BY <2>1, <2>2, <2>3
<1>15. CASE MarkTriggered
  BY <1>15 DEF MarkTriggered
<1>16. CASE Aside
  <2>1. UNCHANGED <<pc, wd, cancel, enabled>>
    BY <1>16 DEF Aside, vars, SendThrows, JoinThrows, Push, NotifyNext,
       CallUpdate, CallUpdateThrows, Callback, UpdateOfDeadObserver, PopTest,
       RemoveHead, RemoveOfNothing, ReceiverEnds, SendWakeupToNobody,
       ReaderGivesUp, DropLink, ReaderSends, ReaderFinishes
  <2>2. QED
    BY <2>1
<1>17. \/ \E k \in Kinds : Issue(k)
       \/ Attach \/ Send \/ SendToNobody \/ BeginWait \/ WakeByChance \/ Detach
       \/ CancelWatchDog \/ Join \/ Signal \/ SeeCancel \/ Expire \/ ResetQueue
       \/ SendWakeup \/ MarkTriggered \/ Aside
  BY DEF Next, Client, Receiver, WatchDog, Environment, Stop, Aside
<1>18. QED
  BY <1>1, <1>2, <1>3, <1>4, <1>5, <1>6, <1>7, <1>8, <1>9, <1>10, <1>11,
     <1>12, <1>13, <1>14, <1>15, <1>16, <1>17

\* With the watch dog on and a client that reaches its wait within 8 s, no
\* caller is stranded, whatever the reader, the link and the condition
\* variable do: AsyncSend's "blocked until the watch dog is triggered".
THEOREM WaitIsGuardedHolds ==
    ASSUME ~SlowClient
    PROVE  Spec => []WaitIsGuarded
<1>1. Init => GuardInv
  BY DEF Init, GuardInv
<1>2. ShapeIInv /\ GuardInv /\ [Next]_vars => GuardInv'
  BY GuardStep
<1>3. ShapeIInv /\ GuardInv => WaitIsGuarded
  BY DEF ShapeIInv, Shape, Registered, GuardInv, WaitIsGuarded
<1>4. Spec => []ShapeIInv
  BY ShapeInit, ShapeStep, PTL DEF Spec
<1>5. QED
  BY <1>1, <1>2, <1>3, <1>4, PTL DEF Spec

=============================================================================
