-------------------------- MODULE LogUploader_proofs --------------------------
(***************************************************************************)
(* The log uploader keeps UploadContract, for any threads, any threshold   *)
(* and any number of entries.  The inductive invariant says where every    *)
(* entry is, and that the flush after the loop comes when nobody can post  *)
(* any more; without the second part the destructor could return over an   *)
(* entry posted after the last flush.  BoundedJoin, at the end, is a       *)
(* measure of what the thread has still to do when the destructor joins.   *)
(***************************************************************************)
EXTENDS LogUploader, TLAPS

Inv == TypeOK /\ EntriesConserved /\ LastFlushLast

LEMMA InvInit == Init => Inv
  <1> SUFFICES ASSUME Init PROVE Inv
    OBVIOUS
  <1>1. TypeOK
    <2>1. << >> \in Seq(Posters)
      OBVIOUS
    <2>2. locked <=> pc \in {"size", "upload", "clear"}
      BY DEF Init
    <2>3. locked \in BOOLEAN /\ thread_exit \in BOOLEAN /\ last \in BOOLEAN
          /\ exited \in BOOLEAN
      BY DEF Init
    <2> QED BY <2>1, <2>2, <2>3 DEF Init, TypeOK
  <1>2. EntriesConserved /\ LastFlushLast
    BY DEF Init, EntriesConserved, LastFlushLast
  <1> QED BY <1>1, <1>2 DEF Inv

\* Every step keeps the types.
LEMMA TypeStep == Inv /\ [Next]_vars => TypeOK'
  <1> SUFFICES ASSUME Inv, [Next]_vars PROVE TypeOK'
    OBVIOUS
  <1> USE DEF Inv, TypeOK
  <1>1. ASSUME NEW p \in Posters, PostBegins(p) PROVE TypeOK'
    BY <1>1 DEF PostBegins, histories
  <1>2. ASSUME NEW p \in Posters, Push(p) PROVE TypeOK'
    BY <1>2 DEF Push
  <1>3. CASE DestructorBegins
    BY <1>3 DEF DestructorBegins, histories
  <1>4. CASE DestructorReturns
    BY <1>4 DEF DestructorReturns, histories
  <1>5. CASE TestExit
    BY <1>5 DEF TestExit, histories
  <1>6. CASE Lock
    BY <1>6 DEF Lock, histories
  <1>7. CASE TooFew
    BY <1>7 DEF TooFew, AfterFlush, histories
  <1>8. CASE Upload
    <2>1. handed \o post_data_queue \in Seq(Posters)
      OBVIOUS
    <2> QED BY <1>8, <2>1 DEF Upload
  <1>9. CASE Clear
    <2>1. << >> \in Seq(Posters)
      OBVIOUS
    <2>2. pc' \in {"test", "over"} /\ locked' = FALSE
      BY <1>9 DEF Clear, AfterFlush
    <2> QED BY <1>9, <2>1, <2>2 DEF Clear, histories
  <1>10. CASE UploadReturns
    BY <1>10 DEF UploadReturns, histories
  <1>11. CASE DumpThrows \/ UploadExits
    BY <1>11 DEF DumpThrows, UploadExits, histories
  <1>12. CASE UNCHANGED vars
    BY <1>12 DEF vars, histories
  <1> QED
    BY <1>1, <1>2, <1>3, <1>4, <1>5, <1>6, <1>7, <1>8, <1>9, <1>10, <1>11,
       <1>12 DEF Next, Background

\* Every step keeps account of the entries.
LEMMA EntriesStep == Inv /\ [Next]_vars => EntriesConserved'
  <1> SUFFICES ASSUME Inv, [Next]_vars PROVE EntriesConserved'
    OBVIOUS
  <1> USE DEF Inv, EntriesConserved
  <1>1. ASSUME NEW p \in Posters, PostBegins(p) PROVE EntriesConserved'
    BY <1>1 DEF PostBegins, histories
  <1>2. ASSUME NEW p \in Posters, Push(p) PROVE EntriesConserved'
    <2>1. pc \notin {"upload", "clear"} /\ pc' = pc
      BY <1>2 DEF Push, TypeOK
    <2>2. Append(handed \o post_data_queue, p)
             = handed \o Append(post_data_queue, p)
      <3>1. handed \in Seq(Posters) /\ post_data_queue \in Seq(Posters)
        BY DEF TypeOK
      <3> HIDE DEF Inv
      <3> QED BY <3>1
    <2> QED BY <1>2, <2>1, <2>2 DEF Push
  <1>3. CASE DestructorBegins
    BY <1>3 DEF DestructorBegins, histories
  <1>4. CASE DestructorReturns
    BY <1>4 DEF DestructorReturns, histories
  <1>5. CASE TestExit
    BY <1>5 DEF TestExit, histories
  <1>6. CASE Lock
    BY <1>6 DEF Lock, histories
  <1>7. CASE TooFew
    BY <1>7 DEF TooFew, AfterFlush, histories
  <1>8. CASE Upload
    BY <1>8 DEF Upload
  <1>9. CASE Clear
    <2>1. accepted = handed /\ handed \o << >> = handed
      BY <1>9 DEF Clear, TypeOK
    <2> QED BY <1>9, <2>1 DEF Clear, AfterFlush, histories
  <1>10. CASE UploadReturns
    BY <1>10 DEF UploadReturns, histories
  <1>11. CASE DumpThrows \/ UploadExits
    BY <1>11 DEF DumpThrows, UploadExits, histories
  <1>12. CASE UNCHANGED vars
    BY <1>12 DEF vars, histories
  <1> QED
    BY <1>1, <1>2, <1>3, <1>4, <1>5, <1>6, <1>7, <1>8, <1>9, <1>10, <1>11,
       <1>12 DEF Next, Background

\* Every step keeps the last flush last.
LEMMA LastFlushStep == Inv /\ [Next]_vars => LastFlushLast'
  <1> SUFFICES ASSUME Inv, [Next]_vars PROVE LastFlushLast'
    OBVIOUS
  <1> USE DEF Inv, LastFlushLast
  <1>1. ASSUME NEW p \in Posters, PostBegins(p) PROVE LastFlushLast'
    BY <1>1 DEF PostBegins, histories
  <1>2. ASSUME NEW p \in Posters, Push(p) PROVE LastFlushLast'
    <2>1. pc \notin {"upload", "clear", "over"} /\ pc' = pc
      BY <1>2 DEF Push, TypeOK
    <2> QED BY <1>2, <2>1 DEF Push
  <1>3. CASE DestructorBegins
    BY <1>3 DEF DestructorBegins, histories
  <1>4. CASE DestructorReturns
    BY <1>4 DEF DestructorReturns, histories
  <1>5. CASE TestExit
    BY <1>5 DEF TestExit, histories
  <1>6. CASE Lock
    BY <1>6 DEF Lock, histories
  <1>7. CASE TooFew
    <2>1. last => Len(post_data_queue) <= 0
      BY <1>7 DEF TooFew, Thresh
    <2>2. last => post_data_queue = << >>
      BY <2>1 DEF TypeOK
    <2> QED BY <1>7, <2>2 DEF TooFew, AfterFlush, histories
  <1>8. CASE Upload
    <2>1. Len(post_data_queue) > 0
      BY <1>8, ThresholdAssumption DEF Upload, Thresh, TypeOK
    <2> QED BY <1>8, <2>1 DEF Upload
  <1>9. CASE Clear
    BY <1>9 DEF Clear, AfterFlush, histories
  <1>10. CASE UploadReturns
    BY <1>10 DEF UploadReturns, histories
  <1>11. CASE DumpThrows \/ UploadExits
    BY <1>11 DEF DumpThrows, UploadExits, histories
  <1>12. CASE UNCHANGED vars
    BY <1>12 DEF vars, histories
  <1> QED
    BY <1>1, <1>2, <1>3, <1>4, <1>5, <1>6, <1>7, <1>8, <1>9, <1>10, <1>11,
       <1>12 DEF Next, Background

\* The invariant holds always.
LEMMA InvHolds == Spec => []Inv
  <1>1. Inv /\ [Next]_vars => Inv'
    BY TypeStep, EntriesStep, LastFlushStep DEF Inv
  <1> QED BY InvInit, <1>1, PTL DEF Spec

\* Every variable of the uploader keeps its type, and queue_lock is held by
\* the background thread exactly inside flush_queue.
THEOREM TypeCorrect == Spec => []TypeOK
  <1>1. Inv => TypeOK
    BY DEF Inv
  <1> QED BY InvHolds, <1>1, PTL

\* Every step of the uploader is a step the contract allows, or none.
LEMMA ContractStep ==
    Inv /\ Inv' /\ [Next]_vars => [Contract!Next]_(Contract!vars)
  <1> SUFFICES ASSUME Inv, Inv', [Next]_vars
               PROVE  [Contract!Next]_(Contract!vars)
    OBVIOUS
  <1> USE DEF Inv, Contract!vars
  <1>1. ASSUME NEW p \in Posters, Push(p) PROVE Contract!Take(p)
    <2>1. owner # "gone"
      BY <1>1 DEF Push, LastFlushLast, TypeOK
    <2> QED BY <1>1, <2>1 DEF Push, Contract!Take
  <1>2. ASSUME NEW p \in Posters, PostBegins(p) PROVE UNCHANGED Contract!vars
    BY <1>2 DEF PostBegins, histories
  <1>3. CASE DestructorBegins
    BY <1>3 DEF DestructorBegins, histories
  <1>4. ASSUME DestructorReturns PROVE Contract!Finish
    <2>1. handed = accepted
      <3>1. post_data_queue = << >> /\ pc = "over"
        BY <1>4 DEF DestructorReturns, LastFlushLast
      <3>2. handed \o << >> = handed
        BY DEF TypeOK
      <3> QED BY <3>1, <3>2 DEF EntriesConserved
    <2> QED BY <1>4, <2>1 DEF DestructorReturns, histories, Contract!Finish
  <1>5. CASE TestExit
    BY <1>5 DEF TestExit, histories
  <1>6. CASE Lock
    BY <1>6 DEF Lock, histories
  <1>7. CASE TooFew
    BY <1>7 DEF TooFew, histories
  <1>8. ASSUME Upload PROVE Contract!HandOver
    <2>1. owner # "gone"
      BY <1>8 DEF Upload, LastFlushLast
    <2>2. accepted = handed \o post_data_queue
      BY <1>8 DEF Upload, EntriesConserved
    <2>3. handed # accepted
      <3>1. Len(post_data_queue) > 0
        BY <1>8, ThresholdAssumption DEF Upload, Thresh, TypeOK
      <3>2. Len(handed \o post_data_queue) = Len(handed) + Len(post_data_queue)
            /\ Len(handed) \in Nat /\ Len(post_data_queue) \in Nat
        BY DEF TypeOK
      <3> QED BY <2>2, <3>1, <3>2
    <2> QED BY <1>8, <2>1, <2>2, <2>3 DEF Upload, Contract!HandOver
  <1>9. CASE Clear
    BY <1>9 DEF Clear, histories
  <1>10. CASE UploadReturns
    BY <1>10 DEF UploadReturns, histories
  <1>11. CASE DumpThrows \/ UploadExits
    BY <1>11 DEF DumpThrows, UploadExits, histories
  <1>12. CASE UNCHANGED vars
    BY <1>12 DEF vars, histories
  <1> QED
    BY <1>1, <1>2, <1>3, <1>4, <1>5, <1>6, <1>7, <1>8, <1>9, <1>10, <1>11,
       <1>12 DEF Next, Background, Contract!Next

\* The uploader implements the contract: each entry that post() took is handed
\* to curl_post once, in order, and all of them before the destructor returns.
THEOREM KeepsContractHolds == Spec => KeepsContract
  <1>1. Init => Contract!Init
    BY DEF Init, Contract!Init
  <1> QED BY InvHolds, <1>1, ContractStep, PTL
          DEF Spec, KeepsContract, Contract!Spec

-----------------------------------------------------------------------------
(* How long the destructor can wait *)

Told == owner # "using" => thread_exit

LEMMA ToldHolds == Spec => []Told
  <1>1. Init => Told
    BY DEF Init, Told
  <1>2. Told /\ [Next]_vars => Told'
    BY DEF Told, Next, vars, histories, PostBegins, Push, DestructorBegins,
           DestructorReturns, Background, TestExit, Lock, TooFew, Upload, Clear,
           DumpThrows, UploadReturns, UploadExits
  <1> QED BY <1>1, <1>2, PTL DEF Spec

\* The steps the background thread has before its end, at most: a flush that
\* was begun, the test of thread_exit, and the last flush.
StepsLeft ==
    IF pc = "over" THEN 0
    ELSE CASE pc = "test"   -> 5
           [] pc = "lock"   -> IF last THEN 4 ELSE 9
           [] pc = "size"   -> IF last THEN 3 ELSE 8
           [] pc = "upload" -> IF last THEN 2 ELSE 7
           [] pc = "clear"  -> IF last THEN 1 ELSE 6

\* While ~CurlStub waits in join(), nothing happens but what brings its end
\* nearer: a step of the background thread, of which there are nine at most,
\* the exit of the process, or the return.
BoundedJoin ==
    [][owner = "joining" => \/ StepsLeft \in 1..9 /\ StepsLeft' \in Nat
                               /\ StepsLeft' < StepsLeft
                            \/ exited'
                            \/ pc = "over" /\ owner' = "gone"]_vars

\* The destructor is at most nine steps of the background thread from its
\* return, one of them inside curl_post for each of the two flushes.
THEOREM BoundedJoinHolds == Spec => BoundedJoin
  <1> DEFINE Nearer ==
         owner = "joining" => \/ StepsLeft \in 1..9 /\ StepsLeft' \in Nat
                                 /\ StepsLeft' < StepsLeft
                              \/ exited'
                              \/ pc = "over" /\ owner' = "gone"
  <1>1. Inv /\ Told /\ [Next]_vars => [Nearer]_vars
    <2> SUFFICES ASSUME Inv, Told, Next, owner = "joining" PROVE Nearer
      OBVIOUS
    <2> USE DEF StepsLeft
    <2>1. thread_exit /\ posting = {}
      BY DEF Told, Inv, LastFlushLast
    <2>2. ASSUME NEW p \in Posters, PostBegins(p) \/ Push(p) PROVE FALSE
      BY <2>1, <2>2 DEF PostBegins, Push
    <2>3. CASE DestructorBegins
      BY <2>3 DEF DestructorBegins
    <2>4. CASE DestructorReturns
      BY <2>4 DEF DestructorReturns
    <2>5. CASE TestExit
      BY <2>1, <2>5 DEF TestExit
    <2>6. CASE Lock
      BY <2>6 DEF Lock, Inv, TypeOK
    <2>7. CASE TooFew
      BY <2>7 DEF TooFew, AfterFlush, Inv, TypeOK
    <2>8. CASE Upload
      BY <2>8 DEF Upload, Inv, TypeOK
    <2>9. CASE Clear
      BY <2>9 DEF Clear, AfterFlush, Inv, TypeOK
    <2>10. CASE UploadReturns
      BY <2>10 DEF UploadReturns, histories, Inv, TypeOK
    <2>11. CASE DumpThrows \/ UploadExits
      BY <2>11 DEF DumpThrows, UploadExits
    <2> QED BY <2>2, <2>3, <2>4, <2>5, <2>6, <2>7, <2>8, <2>9, <2>10, <2>11
            DEF Next, Background
  <1> QED BY <1>1, InvHolds, ToldHolds, PTL DEF Spec, BoundedJoin
=============================================================================
