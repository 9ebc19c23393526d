-------------------------- MODULE HandleTable_proofs --------------------------
(***************************************************************************)
(* The handles of the C API, for any number of threads and opens.          *)
(*                                                                         *)
(* Two arguments.  The vector is right because every handle is given once: *)
(* ids count up, and an RFOpen under way holds a reader nobody else has    *)
(* (Handed, Fresh).  A call is right because, while the vector does not    *)
(* change under an iterator, what a thread found by its handle is still    *)
(* there when it uses it (Aimed), and no other thread passes that handle,  *)
(* so the buffer is its own from clear_buffer to its next call (Placed,    *)
(* Answered).                                                              *)
(***************************************************************************)
EXTENDS HandleTable, FiniteSetTheorems, SequenceTheorems, TLAPS

Unit == [id : Ids, reader : Readers, buf : Seq(Readers)]

\* The type invariant in parts: the vector, the counters, the threads.
VecOK == /\ handles \in Seq(Unit)
         /\ \A i \in DOMAIN handles : Len(handles[i].buf) <= MaxText

NumOK == flow_count \in 0..opened /\ opened \in 0..MaxOpens

LocOK ==
    /\ pc \in [Threads -> Lookups \union {"idle", "add", "command", "append"}]
    /\ call \in [Threads -> Calls]
    /\ h \in [Threads -> Ids \union {INVALID_HANDLE}]
    /\ iter \in [Threads -> 0..(MaxOpens + 1)]
    /\ dangling \in [Threads -> BOOLEAN]
    /\ rfid \in [Threads -> Readers \union {0}]
    /\ text \in [Threads -> Seq(Readers)]
    /\ result \in [Threads -> Ids \union NoResult]
    /\ mine \in [Threads -> Readers \union {0}]
    /\ fault \in {"none", "null pointer", "bad iterator"}
    /\ disturbed \in BOOLEAN

\* The threads in RFOpen; each has made an object that has no handle yet.
Adding == {t \in Threads : pc[t] = "add"}

\* A handle is given only for an object that was made.
Counted ==
    /\ IsFiniteSet(Adding)
    /\ flow_count + Cardinality(Adding) <= opened
    /\ Len(handles) <= flow_count
    /\ \A i \in DOMAIN handles : handles[i].id < flow_count

Apart == \A i, j \in DOMAIN handles : i # j => handles[i].id # handles[j].id

AtWork == \A t \in Threads : pc[t] \in {"add", "command"} => rfid[t] # 0

\* An id is given to one thread, and a closed one is not in the vector.
Handed ==
    /\ \A i \in DOMAIN handles : handles[i].reader <= opened
    /\ \A t \in Threads : h[t] < flow_count
    /\ \A t, o \in Threads : t # o /\ h[t] = h[o] => h[t] = INVALID_HANDLE
    /\ \A t \in Threads :
          mine[t] = 0 => \A i \in DOMAIN handles : handles[i].id # h[t]

\* The object of an RFOpen under way is new.
Fresh ==
    \A t \in Threads :
        pc[t] = "add" =>
            /\ mine[t] = 0 /\ rfid[t] <= opened
            /\ \A i \in DOMAIN handles : handles[i].reader # rfid[t]
            /\ \A o \in Threads \ {t} : pc[o] = "add" => rfid[o] # rfid[t]

\* The iterator is where the look-up of the thread's handle ends.
At(t) ==
    /\ iter[t] \in 1..(Len(handles) + 1)
    /\ iter[t] \in DOMAIN handles => handles[iter[t]].id = h[t]
    /\ iter[t] = Len(handles) + 1 =>
          \A i \in DOMAIN handles : handles[i].id # h[t]

\* Iterators are held inside the look-ups only.
Looking == \A t \in Threads : Busy(t) => pc[t] \in Lookups

Aimed(t) == ~dangling[t] /\ (Busy(t) => At(t))

\* The buffer of the thread's unit.
Buffered(t, buf) ==
    \A i \in DOMAIN handles : handles[i].id = h[t] => handles[i].buf = buf

\* What a call knows at each of its steps.
Placed(t) ==
    /\ pc[t] \in {"again", "command", "clear", "append", "data"} => mine[t] # 0
    /\ pc[t] = "ptr" => mine[t] # 0 \/ call[t] = "antenna"
    /\ pc[t] = "command" => rfid[t] = mine[t]
    /\ pc[t] \in {"clear", "append"} => text[t] = <<mine[t]>>
    /\ pc[t] = "append" => Buffered(t, <<>>)
    /\ pc[t] = "data" => Buffered(t, <<mine[t]>>)

\* What a call that returned a string left.
Answered(t) ==
    result[t] # None => /\ pc[t] = "idle" /\ mine[t] # 0
                        /\ result[t] = h[t] /\ Buffered(t, <<mine[t]>>)

Undisturbed ==
    ~disturbed => \A t \in Threads : Aimed(t) /\ Placed(t) /\ Answered(t)


-----------------------------------------------------------------------------
(* The vector's operations *)

\* RemoveAt leaves the units before and after, in order.
LEMMA ErasedUnits ==
    ASSUME NEW S, NEW s \in Seq(S), NEW i \in 1..Len(s)
    PROVE  /\ RemoveAt(s, i) \in Seq(S)
           /\ Len(RemoveAt(s, i)) = Len(s) - 1
           /\ \A j \in 1..(Len(s) - 1) :
                 RemoveAt(s, i)[j] = s[IF j < i THEN j ELSE j + 1]
  <1> DEFINE front == SubSeq(s, 1, i - 1)
             back == SubSeq(s, i + 1, Len(s))
  <1>1. /\ front \in Seq(S) /\ Len(front) = i - 1
        /\ \A j \in 1..(i - 1) : front[j] = s[j]
    OBVIOUS
  <1>2. /\ back \in Seq(S) /\ Len(back) = Len(s) - i
        /\ \A j \in 1..(Len(s) - i) : back[j] = s[j + i]
    OBVIOUS
  <1>3. RemoveAt(s, i) = front \o back
    BY DEF RemoveAt
  <1> HIDE DEF front, back
  <1>4. /\ front \o back \in Seq(S)
        /\ Len(front \o back) = Len(s) - 1
    BY <1>1, <1>2
  <1>5. ASSUME NEW j \in 1..(Len(s) - 1)
        PROVE  (front \o back)[j] = s[IF j < i THEN j ELSE j + 1]
    <2>0. j < i \/ j >= i
      OBVIOUS
    <2>1. CASE j < i
      BY <2>1, <1>1, <1>2
    <2>2. CASE j >= i
      <3>1. (front \o back)[j] = back[j - (i - 1)]
        BY <2>2, <1>1, <1>2
      <3>2. j - (i - 1) \in 1..(Len(s) - i)
        BY <2>2
      <3> QED BY <2>2, <3>1, <3>2, <1>2
    <2> QED BY <2>0, <2>1, <2>2, Zenon
  <1> QED BY <1>3, <1>4, <1>5

\* find_if finds the unit of a handle or the end: no handle is there twice.
LEMMA Found ==
    ASSUME handles \in Seq(Unit), Apart, NEW id
    PROVE  /\ Find(id) \in 1..(Len(handles) + 1)
           /\ Find(id) \in DOMAIN handles => handles[Find(id)].id = id
           /\ Find(id) \notin DOMAIN handles =>
                 \A i \in DOMAIN handles : handles[i].id # id
  <1>1. CASE \E i \in DOMAIN handles : handles[i].id = id
    <2>1. PICK i \in DOMAIN handles : handles[i].id = id
      BY <1>1
    <2>2. \A j \in 1..(i - 1) : handles[j].id # id
      BY <2>1 DEF Apart
    <2>3. /\ Find(id) \in DOMAIN handles
          /\ handles[Find(id)].id = id
      BY <1>1, <2>1, <2>2 DEF Find
    <2> QED BY <2>3
  <1>2. CASE ~\E i \in DOMAIN handles : handles[i].id = id
    BY <1>2 DEF Find
  <1> QED BY <1>1, <1>2

-----------------------------------------------------------------------------
(* Types and counts *)

TypeInv == VecOK /\ NumOK /\ LocOK /\ Counted /\ AtWork /\ Apart

LEMMA TypeParts == TypeOK <=> VecOK /\ NumOK /\ LocOK
  BY DEF TypeOK, VecOK, NumOK, LocOK, Unit

LEMMA Numbers ==
    ASSUME TypeInv
    PROVE  /\ MaxOpens \in Nat /\ opened \in Nat /\ flow_count \in Nat
           /\ flow_count <= opened /\ opened <= MaxOpens
           /\ Len(handles) \in Nat /\ DOMAIN handles = 1..Len(handles)
           /\ Len(handles) <= MaxOpens
           /\ Cardinality(Adding) \in Nat
  <1>1. Cardinality(Adding) \in Nat
    BY FS_CardinalityType DEF TypeInv, Counted
  <1>2. Len(handles) \in Nat /\ DOMAIN handles = 1..Len(handles)
    BY DEF TypeInv, VecOK
  <1> QED BY <1>1, <1>2, BoundAssumption DEF TypeInv, NumOK, Counted

LEMMA Units ==
    ASSUME TypeInv, NEW i \in DOMAIN handles
    PROVE  /\ handles[i] \in Unit
           /\ handles[i].id \in Ids /\ handles[i].id \in Nat
           /\ handles[i].reader \in Readers
           /\ handles[i].buf \in Seq(Readers)
  <1>1. handles[i] \in Unit
    BY DEF TypeInv, VecOK
  <1> QED BY <1>1, BoundAssumption DEF Unit, Ids

LEMMA BeginAdding ==
    ASSUME TypeInv, NEW t \in Threads, pc[t] # "add"
    PROVE  /\ IsFiniteSet(Adding \union {t})
           /\ Cardinality(Adding \union {t}) = Cardinality(Adding) + 1
  BY FS_AddElement DEF TypeInv, Counted, Adding

LEMMA EndAdding ==
    ASSUME TypeInv, NEW t \in Threads, pc[t] = "add"
    PROVE  /\ IsFiniteSet(Adding \ {t})
           /\ Cardinality(Adding \ {t}) = Cardinality(Adding) - 1
           /\ Cardinality(Adding) >= 1
  <1>1. t \in Adding /\ IsFiniteSet(Adding)
    BY DEF TypeInv, Counted, Adding
  <1>2. /\ IsFiniteSet(Adding \ {t})
        /\ Cardinality(Adding \ {t}) = Cardinality(Adding) - 1
    BY <1>1, FS_RemoveElement
  <1>3. Cardinality(Adding \ {t}) \in Nat /\ Cardinality(Adding) \in Nat
    BY <1>1, <1>2, FS_CardinalityType
  <1> QED BY <1>2, <1>3

\* A step of t that neither begins nor ends an RFOpen.
LEMMA SameAdding ==
    ASSUME LocOK, NEW t \in Threads, NEW p, p # "add", pc[t] # "add",
           pc' = [pc EXCEPT ![t] = p]
    PROVE  Adding' = Adding
  BY DEF Adding, LocOK

\* What depends on the vector and the counters alone.
LEMMA SameTable ==
    ASSUME TypeInv, UNCHANGED table, Adding' = Adding
    PROVE  VecOK' /\ NumOK' /\ Counted' /\ Apart'
  BY DEF TypeInv, VecOK, NumOK, Counted, Apart, table

\* Only the text in one unit's buffer changes.
LEMMA BufferStep ==
    ASSUME TypeInv, NEW i \in DOMAIN handles, NEW b \in Seq(Readers),
           Len(b) <= MaxText, handles' = [handles EXCEPT ![i].buf = b]
    PROVE  /\ VecOK' /\ Apart'
           /\ Len(handles') = Len(handles) /\ DOMAIN handles' = DOMAIN handles
           /\ \A j \in DOMAIN handles :
                 /\ handles'[j].id = handles[j].id
                 /\ handles'[j].reader = handles[j].reader
                 /\ handles'[j].buf = IF j = i THEN b ELSE handles[j].buf
  <1>1. handles \in Seq(Unit)
    BY DEF TypeInv, VecOK
  <1>2. handles[i] \in Unit
    BY <1>1
  <1> DEFINE u == [handles[i] EXCEPT !.buf = b]
  <1>3. /\ u \in Unit /\ u.id = handles[i].id /\ u.reader = handles[i].reader
        /\ u.buf = b
    BY <1>2 DEF Unit
  <1>4. handles' = [handles EXCEPT ![i] = u]
    OBVIOUS
  <1> HIDE DEF u
  <1>5. /\ handles' \in Seq(Unit) /\ Len(handles') = Len(handles)
        /\ DOMAIN handles' = DOMAIN handles
        /\ \A j \in DOMAIN handles :
              handles'[j] = IF j = i THEN u ELSE handles[j]
    BY <1>1, <1>3, <1>4
  <1>6. VecOK'
    BY <1>3, <1>5 DEF TypeInv, VecOK
  <1>7. Apart'
    BY <1>3, <1>5 DEF TypeInv, Apart
  <1> QED BY <1>3, <1>5, <1>6, <1>7

-----------------------------------------------------------------------------
(* Each step keeps the types *)

LEMMA OpenTypes ==
    ASSUME TypeInv, NEW t \in Threads, Open(t)
    PROVE  TypeInv'
  <1>1. opened + 1 \in Readers /\ opened' = opened + 1
    BY Numbers DEF Open, Readers
  <1>2. LocOK'
    <2>1. pc' \in [Threads -> Lookups \union {"idle", "add", "command", "append"}]
      BY DEF TypeInv, LocOK, Open
    <2>2. rfid' \in [Threads -> Readers \union {0}]
      BY <1>1 DEF TypeInv, LocOK, Open
    <2>3. h' \in [Threads -> Ids \union {INVALID_HANDLE}]
      BY DEF TypeInv, LocOK, Open
    <2>4. result' \in [Threads -> Ids \union NoResult]
      BY DEF TypeInv, LocOK, Open, None, NoResult
    <2> QED BY <2>1, <2>2, <2>3, <2>4 DEF TypeInv, LocOK, Open
  <1>3. VecOK' /\ NumOK' /\ Apart'
    BY <1>1, Numbers DEF TypeInv, VecOK, NumOK, Apart, Open
  <1>4. CASE pc' = [pc EXCEPT ![t] = "add"] /\ rfid' = [rfid EXCEPT ![t] = opened + 1]
    <2>1. Adding' = Adding \union {t}
      BY <1>4 DEF TypeInv, LocOK, Adding
    <2>2. Counted'
      <3>1. /\ IsFiniteSet(Adding')
            /\ Cardinality(Adding') = Cardinality(Adding) + 1
        BY <2>1, BeginAdding DEF Open
      <3>2. UNCHANGED <<handles, flow_count>>
        BY DEF Open
      <3> QED BY <1>1, <3>1, <3>2, Numbers DEF TypeInv, Counted
    <2>3. AtWork'
      <3>1. opened + 1 # 0
        BY Numbers
      <3> QED BY <1>4, <3>1 DEF TypeInv, LocOK, AtWork
    <2> QED BY <1>2, <1>3, <2>2, <2>3 DEF TypeInv
  <1>5. CASE UNCHANGED <<pc, rfid>>
    <2>1. Adding' = Adding
      BY <1>5 DEF Adding
    <2>2. Counted'
      BY <1>1, <2>1, Numbers DEF TypeInv, Counted, Open
    <2>3. AtWork'
      BY <1>5 DEF TypeInv, AtWork
    <2> QED BY <1>2, <1>3, <2>2, <2>3 DEF TypeInv
  <1> QED BY <1>4, <1>5 DEF Open

\* The vector after add_handle_unit.
LEMMA Added ==
    ASSUME TypeInv, NEW t \in Threads, AddHandleUnit(t)
    PROVE  /\ VecOK' /\ Apart' /\ flow_count < opened
           /\ Len(handles') = Len(handles) + 1
           /\ \A i \in DOMAIN handles' :
                 \/ i \in DOMAIN handles /\ handles'[i] = handles[i]
                 \/ /\ i = Len(handles) + 1
                    /\ handles'[i].id = flow_count
                    /\ handles'[i].reader = rfid[t] /\ handles'[i].buf = <<>>
           /\ \A i \in DOMAIN handles : /\ i \in DOMAIN handles'
                                        /\ handles'[i] = handles[i]
           /\ handles'[Len(handles) + 1].id = flow_count
           /\ handles'[Len(handles) + 1].reader = rfid[t]
           /\ Len(handles) + 1 \in DOMAIN handles'
  <1> DEFINE unit == [id |-> flow_count, reader |-> rfid[t], buf |-> <<>>]
  <1>1. pc[t] = "add"
    BY DEF AddHandleUnit
  <1>2. flow_count < opened
    <2>1. Cardinality(Adding) >= 1
      BY <1>1, EndAdding
    <2>2. flow_count + Cardinality(Adding) <= opened
      BY DEF TypeInv, Counted
    <2> QED BY <2>1, <2>2, Numbers
  <1>3. flow_count \in Ids
    BY <1>2, Numbers DEF Ids
  <1>4. rfid[t] \in Readers
    BY <1>1 DEF TypeInv, LocOK, AtWork
  <1>5. /\ unit \in Unit /\ unit.id = flow_count /\ unit.reader = rfid[t]
        /\ unit.buf = <<>> /\ Len(unit.buf) <= MaxText
    BY <1>3, <1>4 DEF Unit, MaxText
  <1>6. handles' = Append(handles, unit)
    BY DEF AddHandleUnit, NextHandle
  <1> HIDE DEF unit
  <1>7. /\ handles' \in Seq(Unit) /\ Len(handles') = Len(handles) + 1
        /\ \A i \in DOMAIN handles : /\ i \in DOMAIN handles'
                                     /\ handles'[i] = handles[i]
        /\ Len(handles) + 1 \in DOMAIN handles'
        /\ handles'[Len(handles) + 1] = unit
    BY <1>5, <1>6 DEF TypeInv, VecOK
  <1>8. \A i \in DOMAIN handles' : i \in DOMAIN handles \/ i = Len(handles) + 1
    BY <1>7, Numbers
  <1>9. VecOK'
    BY <1>5, <1>7, <1>8 DEF TypeInv, VecOK
  <1>10. Apart'
    <2>1. \A i \in DOMAIN handles : handles[i].id # unit.id
      BY <1>5, Numbers, Units DEF TypeInv, Counted
    <2> QED BY <1>7, <1>8, <2>1 DEF TypeInv, Apart
  <1> QED BY <1>2, <1>5, <1>7, <1>8, <1>9, <1>10

LEMMA AddTypes ==
    ASSUME TypeInv, NEW t \in Threads, AddHandleUnit(t)
    PROVE  TypeInv'
  <1>1. VecOK' /\ Apart' /\ flow_count < opened
    BY Added
  <1>2. flow_count' = flow_count + 1 /\ opened' = opened /\ pc[t] = "add"
    BY DEF AddHandleUnit
  <1>3. NumOK'
    BY <1>1, <1>2, Numbers DEF NumOK
  <1>4. flow_count \in Ids
    BY <1>1, Numbers DEF Ids
  <1>5. LocOK'
    BY <1>4 DEF TypeInv, LocOK, AddHandleUnit, NextHandle, Disturb
  <1>6. Adding' = Adding \ {t}
    BY DEF TypeInv, LocOK, Adding, AddHandleUnit
  <1>7. IsFiniteSet(Adding') /\ Cardinality(Adding') = Cardinality(Adding) - 1
    BY <1>2, <1>6, EndAdding
  <1>8. \A i \in DOMAIN handles' : handles'[i].id < flow_count'
    BY <1>2, Added, Numbers, Units DEF TypeInv, Counted
  <1>9. Len(handles') <= flow_count'
    BY <1>2, Added, Numbers DEF TypeInv, Counted
  <1>10. Counted'
    BY <1>2, <1>7, <1>8, <1>9, Numbers DEF TypeInv, Counted
  <1>11. AtWork'
    BY DEF TypeInv, LocOK, AtWork, AddHandleUnit
  <1> QED BY <1>1, <1>3, <1>5, <1>10, <1>11 DEF TypeInv

\* The vector after remove_handle_unit found the unit at i.
LEMMA Removed ==
    ASSUME TypeInv, NEW i \in DOMAIN handles, handles' = Erased(i)
    PROVE  /\ VecOK' /\ Apart' /\ Len(handles') = Len(handles) - 1
           /\ \A j \in DOMAIN handles' :
                 \E k \in DOMAIN handles \ {i} : handles'[j] = handles[k]
           /\ \A k \in DOMAIN handles \ {i} :
                 \E j \in DOMAIN handles' : handles'[j] = handles[k]
  <1> DEFINE From(j) == IF j < i THEN j ELSE j + 1
  <1>1. handles \in Seq(Unit) /\ i \in 1..Len(handles)
    BY DEF TypeInv, VecOK
  <1>2. /\ handles' \in Seq(Unit) /\ Len(handles') = Len(handles) - 1
        /\ \A j \in 1..(Len(handles) - 1) : handles'[j] = handles[From(j)]
    BY <1>1, ErasedUnits DEF Erased
  <1>3. /\ DOMAIN handles' = 1..(Len(handles) - 1)
        /\ DOMAIN handles = 1..Len(handles)
    BY <1>2, Numbers
  <1>4. \A j \in DOMAIN handles' : From(j) \in DOMAIN handles \ {i}
    BY <1>1, <1>3
  <1>5. \A j, k \in DOMAIN handles' : j # k => From(j) # From(k)
    BY <1>1, <1>3
  <1>6. \A k \in DOMAIN handles \ {i} : \E j \in DOMAIN handles' : From(j) = k
    <2> SUFFICES ASSUME NEW k \in DOMAIN handles \ {i}
                 PROVE  \E j \in DOMAIN handles' : From(j) = k
      OBVIOUS
    <2>1. CASE k < i
      BY <1>1, <1>3, <2>1
    <2>2. CASE k > i
      <3>1. k - 1 \in DOMAIN handles' /\ From(k - 1) = k
        BY <1>1, <1>3, <2>2
      <3> QED BY <3>1
    <2> QED BY <1>1, <1>3, <2>1, <2>2
  <1>7. \A j \in DOMAIN handles' : handles'[j] = handles[From(j)]
    BY <1>2, <1>3
  <1> HIDE DEF From
  <1>8. VecOK'
    BY <1>2, <1>4, <1>7 DEF TypeInv, VecOK
  <1>9. Apart'
    BY <1>4, <1>5, <1>7 DEF TypeInv, Apart
  <1> QED BY <1>2, <1>4, <1>6, <1>7, <1>8, <1>9

LEMMA CloseTypes ==
    ASSUME TypeInv, NEW t \in Threads, Close(t)
    PROVE  TypeInv'
  <1>1. Adding' = Adding /\ AtWork' /\ UNCHANGED <<flow_count, opened>>
    BY DEF TypeInv, Adding, AtWork, Close
  <1>2. CASE UNCHANGED <<handles, disturbed>>
             /\ result' = [result EXCEPT ![t] = None]
    <2>1. LocOK'
      BY <1>2 DEF TypeInv, LocOK, Close, None, NoResult
    <2> QED BY <1>1, <1>2, <2>1, SameTable DEF TypeInv, table
  <1>3. ASSUME NEW i \in DOMAIN handles, handles' = Erased(i),
               Spoil(handles[i].id, t), Disturb(t)
        PROVE  TypeInv'
    <2>1. LocOK'
      BY <1>3 DEF TypeInv, LocOK, Close, Spoil, Disturb, None, Stale, NoResult
    <2>2. NumOK'
      BY <1>1 DEF TypeInv, NumOK
    <2>3. VecOK' /\ Apart'
      BY <1>3, Removed
    <2>4. Counted'
      BY <1>1, <1>3, Removed, Numbers DEF TypeInv, Counted
    <2> QED BY <1>1, <2>1, <2>2, <2>3, <2>4 DEF TypeInv
  <1> QED BY <1>2, <1>3 DEF Close

LEMMA WalkTypes ==
    ASSUME TypeInv, NEW t \in Threads, Walk(t)
    PROVE  TypeInv'
  <1>1. Find(h[t]) \in 1..(Len(handles) + 1)
    BY Found DEF TypeInv, VecOK
  <1>2. Find(h[t]) \in 0..(MaxOpens + 1)
    BY <1>1, Numbers
  <1>3. LocOK'
    BY <1>2 DEF TypeInv, LocOK, Walk
  <1>4. UNCHANGED <<table, pc, rfid>>
    BY DEF Walk
  <1>5. Adding' = Adding /\ AtWork'
    BY <1>4 DEF Adding, TypeInv, AtWork
  <1> QED BY <1>3, <1>4, <1>5, SameTable DEF TypeInv

\* A look-up that goes on at p, whatever else it does to the buffers.
LEMMA UseTypes ==
    ASSUME TypeInv, NEW t \in Threads, NEW what \in Lookups,
           NEW p \in Lookups \union {"idle", "append"}, Use(t, what, p),
           UNCHANGED rfid, result' \in [Threads -> Ids \union NoResult]
    PROVE  NumOK' /\ LocOK' /\ AtWork' /\ Adding' = Adding
  <1>1. what # "add" /\ p # "add" /\ p # "command"
    BY DEF Lookups
  <1>2. LocOK'
    <2>1. pc' \in [Threads -> Lookups \union {"idle", "add", "command", "append"}]
      BY DEF TypeInv, LocOK, Use
    <2>2. iter' \in [Threads -> 0..(MaxOpens + 1)]
      <3>1. 0 \in 0..(MaxOpens + 1)
        BY Numbers
      <3> QED BY <3>1 DEF TypeInv, LocOK, Use
    <2> QED BY <2>1, <2>2 DEF TypeInv, LocOK, Use
  <1>3. Adding' = Adding
    BY <1>1, SameAdding DEF TypeInv, Use
  <1>4. AtWork'
    BY <1>1 DEF TypeInv, LocOK, AtWork, Use
  <1> QED BY <1>2, <1>3, <1>4 DEF TypeInv, NumOK, Use

\* The iterator that is used is at a unit or at the end.
LEMMA InUse ==
    ASSUME TypeInv, NEW t \in Threads, Busy(t), Sound(t)
    PROVE  ~IsEnd(t) => iter[t] \in DOMAIN handles
  <1>1. iter[t] \in 0..(MaxOpens + 1)
    BY DEF TypeInv, LocOK
  <1> QED BY <1>1, Numbers DEF Busy, Sound, IsEnd

LEMMA LookupTypes ==
    ASSUME TypeInv, NEW t \in Threads,
           \/ IsValidHandle(t) \/ HelperIsValidHandle(t) \/ GetData(t)
    PROVE  TypeInv'
  <1>1. result' \in [Threads -> Ids \union NoResult]
    <2>1. CASE GetData(t)
      <3>1. ~IsEnd(t) => handles[iter[t]].id \in Ids
        BY <2>1, InUse, Units DEF GetData, Use
      <3> QED BY <2>1, <3>1 DEF TypeInv, LocOK, GetData, Null, NoResult
    <2> QED BY <2>1 DEF TypeInv, LocOK, IsValidHandle, HelperIsValidHandle
  <1>2. PICK what \in Lookups, p \in Lookups \union {"idle", "append"} :
           Use(t, what, p)
    <2>1. CASE IsValidHandle(t)
      <3>1. PICK p \in {"ptr", "idle", "again"} : Use(t, "valid", p)
        BY <2>1 DEF IsValidHandle
      <3> QED BY <3>1 DEF Lookups
    <2>2. CASE HelperIsValidHandle(t)
      <3>1. PICK p \in {"ptr", "clear", "again", "idle"} : Use(t, "again", p)
        BY <2>2 DEF HelperIsValidHandle
      <3> QED BY <3>1 DEF Lookups
    <2>3. CASE GetData(t)
      BY <2>3 DEF GetData, Lookups
    <2> QED BY <2>1, <2>2, <2>3
  <1>3. UNCHANGED <<table, rfid>>
    BY <1>2 DEF IsValidHandle, HelperIsValidHandle, GetData, Use, table
  <1> QED BY <1>1, <1>2, <1>3, UseTypes, SameTable DEF TypeInv

LEMMA GetRfidPtrTypes ==
    ASSUME TypeInv, NEW t \in Threads, GetRfidPtr(t)
    PROVE  TypeInv'
  <1>1. handles[iter[t]].reader \in Readers
    BY InUse, Units DEF GetRfidPtr, Use
  <1>2. handles[iter[t]].reader # 0
    BY <1>1 DEF Readers
  <1>3. LocOK'
    <2>1. pc' \in [Threads -> Lookups \union {"idle", "add", "command", "append"}]
      BY DEF TypeInv, LocOK, GetRfidPtr, Use
    <2>2. iter' \in [Threads -> 0..(MaxOpens + 1)]
      <3>1. 0 \in 0..(MaxOpens + 1)
        BY Numbers
      <3> QED BY <3>1 DEF TypeInv, LocOK, GetRfidPtr, Use
    <2>3. rfid' \in [Threads -> Readers \union {0}]
      BY <1>1 DEF TypeInv, LocOK, GetRfidPtr
    <2> QED BY <2>1, <2>2, <2>3 DEF TypeInv, LocOK, GetRfidPtr, Use
  <1>4. Adding' = Adding
    BY SameAdding DEF TypeInv, GetRfidPtr, Use
  <1>5. AtWork'
    BY <1>2 DEF TypeInv, LocOK, AtWork, GetRfidPtr, Use
  <1>6. UNCHANGED table
    BY DEF GetRfidPtr, Use, table
  <1> QED BY <1>3, <1>4, <1>5, <1>6, SameTable DEF TypeInv

LEMMA ClearBufferTypes ==
    ASSUME TypeInv, NEW t \in Threads, ClearBuffer(t)
    PROVE  TypeInv'
  <1>1. /\ result' \in [Threads -> Ids \union NoResult]
        /\ UNCHANGED <<rfid, flow_count, opened>>
    BY DEF TypeInv, LocOK, ClearBuffer, Spoil, None, Stale, NoResult, Use
  <1>2. NumOK' /\ LocOK' /\ AtWork' /\ Adding' = Adding
    BY <1>1, UseTypes DEF ClearBuffer, Lookups
  <1>3. CASE IsEnd(t)
    BY <1>1, <1>2, <1>3, SameTable DEF TypeInv, ClearBuffer, table
  <1>4. CASE ~IsEnd(t)
    <2>1. iter[t] \in DOMAIN handles
      BY <1>4, InUse DEF ClearBuffer, Use
    <2>2. handles' = [handles EXCEPT ![iter[t]].buf = <<>>]
      BY <1>4 DEF ClearBuffer, Cleared
    <2>3. <<>> \in Seq(Readers) /\ Len(<<>>) <= MaxText
      BY DEF MaxText
    <2>4. /\ VecOK' /\ Apart' /\ Len(handles') = Len(handles)
          /\ DOMAIN handles' = DOMAIN handles
          /\ \A j \in DOMAIN handles : handles'[j].id = handles[j].id
      BY <2>1, <2>2, <2>3, BufferStep
    <2>5. Counted'
      BY <1>1, <1>2, <2>4 DEF TypeInv, Counted
    <2> QED BY <1>2, <2>4, <2>5 DEF TypeInv
  <1> QED BY <1>3, <1>4

LEMMA CommandTypes ==
    ASSUME TypeInv, NEW t \in Threads, Command(t)
    PROVE  TypeInv'
  <1>1. PICK p \in {"idle", "ptr", "again", "clear"} :
           pc' = [pc EXCEPT ![t] = p]
    BY DEF Command, TypeInv, LocOK, Calls
  <1>2. rfid[t] \in Readers
    BY DEF TypeInv, LocOK, AtWork, Command
  <1>3. <<rfid[t]>> \in Seq(Readers)
    BY <1>2
  <1>4. LocOK'
    BY <1>1, <1>3 DEF TypeInv, LocOK, Command, Lookups
  <1>5. Adding' = Adding
    BY <1>1, SameAdding DEF TypeInv, Command
  <1>6. AtWork'
    BY <1>1 DEF TypeInv, LocOK, AtWork, Command
  <1>7. UNCHANGED table
    BY DEF Command
  <1> QED BY <1>4, <1>5, <1>6, <1>7, SameTable DEF TypeInv

UpTo(s) == SubSeq(s, 1, IF Len(s) > MaxText THEN MaxText ELSE Len(s))

LEMMA UpToTyped ==
    ASSUME NEW s \in Seq(Readers)
    PROVE  /\ UpTo(s) \in Seq(Readers) /\ Len(UpTo(s)) <= MaxText
           /\ Len(s) <= MaxText => UpTo(s) = s
  <1>1. CASE Len(s) > MaxText
    BY <1>1 DEF UpTo, MaxText
  <1>2. CASE Len(s) <= MaxText
    <2>1. UpTo(s) = SubSeq(s, 1, Len(s))
      BY <1>2 DEF UpTo, MaxText
    <2> QED BY <1>2, <2>1
  <1> QED BY <1>1, <1>2 DEF MaxText

LEMMA Appended ==
    ASSUME TypeInv, NEW t \in Threads, AppendData(t), Find(h[t]) \in DOMAIN handles
    PROVE  LET i == Find(h[t])
               b == UpTo(handles[i].buf \o text[t])
           IN  /\ handles' = [handles EXCEPT ![i].buf = b]
               /\ b \in Seq(Readers) /\ Len(b) <= MaxText
               /\ Spoil(handles[i].id, t)
  <1>1. handles[Find(h[t])].buf \in Seq(Readers) /\ text[t] \in Seq(Readers)
    BY Units DEF TypeInv, LocOK
  <1>2. handles[Find(h[t])].buf \o text[t] \in Seq(Readers)
    BY <1>1
  <1> QED BY <1>2, UpToTyped DEF AppendData, UpTo

LEMMA AppendTypes ==
    ASSUME TypeInv, NEW t \in Threads, AppendData(t)
    PROVE  TypeInv'
  <1>1. Adding' = Adding
    BY SameAdding DEF TypeInv, AppendData
  <1>2. AtWork'
    BY DEF TypeInv, LocOK, AtWork, AppendData
  <1>3. NumOK' /\ UNCHANGED <<flow_count, opened>>
    BY DEF TypeInv, NumOK, AppendData
  <1>4. result' \in [Threads -> Ids \union NoResult]
    BY DEF TypeInv, LocOK, AppendData, Spoil, None, Stale, NoResult
  <1>5. LocOK'
    BY <1>4 DEF TypeInv, LocOK, AppendData, Lookups
  <1>6. CASE Find(h[t]) \notin DOMAIN handles
    BY <1>1, <1>2, <1>3, <1>5, <1>6, SameTable DEF TypeInv, AppendData, table
  <1>7. CASE Find(h[t]) \in DOMAIN handles
    <2>1. /\ VecOK' /\ Apart' /\ Len(handles') = Len(handles)
          /\ DOMAIN handles' = DOMAIN handles
          /\ \A j \in DOMAIN handles : handles'[j].id = handles[j].id
      BY <1>7, Appended, BufferStep
    <2>2. Counted'
      BY <1>1, <1>3, <2>1 DEF TypeInv, Counted
    <2> QED BY <1>2, <1>3, <1>5, <2>1, <2>2 DEF TypeInv
  <1> QED BY <1>6, <1>7

\* Steps that touch neither the vector nor who is about to add.
LEMMA OtherTypes ==
    ASSUME TypeInv, NEW t \in Threads,
           \/ BeginCall(t) \/ CallThroughNull(t) \/ UseOfUnsoundIterator(t)
    PROVE  TypeInv'
  <1>1. UNCHANGED <<table, rfid>>
    BY DEF BeginCall, CallThroughNull, UseOfUnsoundIterator, local
  <1>2. LocOK' /\ AtWork' /\ Adding' = Adding
    <2>1. CASE BeginCall(t)
      <3>1. <<>> \in Seq(Readers)
        OBVIOUS
      <3>2. LocOK'
        BY <2>1, <3>1 DEF TypeInv, LocOK, BeginCall, Lookups, None, NoResult
      <3> QED BY <2>1, <3>2, SameAdding DEF TypeInv, LocOK, AtWork, BeginCall
    <2>2. CASE CallThroughNull(t) \/ UseOfUnsoundIterator(t)
      BY <2>2 DEF TypeInv, LocOK, AtWork, Adding, CallThroughNull,
                  UseOfUnsoundIterator, local
    <2> QED BY <2>1, <2>2
  <1> QED BY <1>1, <1>2, SameTable DEF TypeInv

LEMMA TypeStep == TypeInv /\ [Next]_vars => TypeInv'
  <1> SUFFICES ASSUME TypeInv, [Next]_vars
               PROVE  TypeInv'
    OBVIOUS
  <1>1. CASE Next
    <2>1. PICK t \in Threads : Step(t)
      BY <1>1 DEF Next
    <2> QED BY <2>1, OpenTypes, AddTypes, CloseTypes, WalkTypes, LookupTypes,
               GetRfidPtrTypes, ClearBufferTypes, CommandTypes, AppendTypes,
               OtherTypes DEF Step
  <1>2. CASE UNCHANGED vars
    BY <1>2 DEF vars, table, local, TypeInv, VecOK, NumOK, LocOK, Counted,
                Adding, AtWork, Apart
  <1> QED BY <1>1, <1>2

-----------------------------------------------------------------------------
(* Steps inside a call leave the handles and their readers alone *)

\* A step of t inside a call.
Inside(t) ==
    /\ DOMAIN handles' = DOMAIN handles /\ Len(handles') = Len(handles)
    /\ \A i \in DOMAIN handles : /\ handles'[i].id = handles[i].id
                                 /\ handles'[i].reader = handles[i].reader
    /\ UNCHANGED <<flow_count, opened, h, mine, dangling, disturbed>>
    /\ pc[t] # "add" /\ pc'[t] # "add"
    /\ \A o \in Threads \ {t} :
          /\ pc'[o] = pc[o] /\ call'[o] = call[o] /\ iter'[o] = iter[o]
          /\ rfid'[o] = rfid[o] /\ text'[o] = text[o]

InCall(t) ==
    \/ BeginCall(t) \/ Walk(t) \/ IsValidHandle(t) \/ HelperIsValidHandle(t)
    \/ GetRfidPtr(t) \/ ClearBuffer(t) \/ GetData(t) \/ CallThroughNull(t)
    \/ UseOfUnsoundIterator(t) \/ Command(t) \/ AppendData(t)

\* What a use of an iterator does beside its own effect.
LEMMA UseInside ==
    ASSUME TypeInv, NEW t \in Threads, NEW what \in Lookups,
           NEW p \in Lookups \union {"idle", "append", "command"},
           Use(t, what, p)
    PROVE  /\ UNCHANGED <<flow_count, opened, h, mine, dangling, disturbed, call, text>>
           /\ pc[t] # "add" /\ pc'[t] # "add"
           /\ \A o \in Threads \ {t} : pc'[o] = pc[o] /\ iter'[o] = iter[o]
  BY DEF TypeInv, LocOK, Use, Lookups

LEMMA InsideStep ==
    ASSUME TypeInv, Looking, NEW t \in Threads, InCall(t)
    PROVE  Inside(t)
  <1>1. CASE BeginCall(t)
    BY <1>1 DEF TypeInv, LocOK, Inside, BeginCall, table
  <1>2. CASE Walk(t)
    BY <1>2 DEF TypeInv, LocOK, Inside, Walk, table, Lookups
  <1>3. CASE IsValidHandle(t)
    <2>1. PICK p \in {"ptr", "idle", "again"} : Use(t, "valid", p)
      BY <1>3 DEF IsValidHandle
    <2> QED BY <1>3, <2>1, UseInside DEF Inside, IsValidHandle, Lookups
  <1>4. CASE HelperIsValidHandle(t)
    <2>1. PICK p \in {"ptr", "clear", "again", "idle"} : Use(t, "again", p)
      BY <1>4 DEF HelperIsValidHandle
    <2> QED BY <1>4, <2>1, UseInside DEF Inside, HelperIsValidHandle, Lookups
  <1>5. CASE GetRfidPtr(t)
    BY <1>5, UseInside DEF TypeInv, LocOK, Inside, GetRfidPtr, Lookups
  <1>6. CASE ClearBuffer(t)
    <2>1. CASE IsEnd(t)
      BY <1>6, <2>1, UseInside DEF Inside, ClearBuffer, Lookups
    <2>2. CASE ~IsEnd(t)
      <3>1. iter[t] \in DOMAIN handles
        BY <1>6, <2>2, InUse DEF ClearBuffer, Use
      <3>2. handles' = [handles EXCEPT ![iter[t]].buf = <<>>]
        BY <1>6, <2>2 DEF ClearBuffer, Cleared
      <3>3. <<>> \in Seq(Readers) /\ Len(<<>>) <= MaxText
        BY DEF MaxText
      <3> QED BY <1>6, <3>1, <3>2, <3>3, BufferStep, UseInside
              DEF Inside, ClearBuffer, Lookups
    <2> QED BY <2>1, <2>2
  <1>7. CASE GetData(t)
    BY <1>7, UseInside DEF Inside, GetData, Lookups
  <1>8. CASE CallThroughNull(t) \/ UseOfUnsoundIterator(t)
    <2>1. UNCHANGED <<table, local, disturbed>>
      BY <1>8 DEF CallThroughNull, UseOfUnsoundIterator
    <2>2. pc[t] # "add"
      BY <1>8 DEF CallThroughNull, UseOfUnsoundIterator, Looking, Lookups
    <2> QED BY <2>1, <2>2 DEF Inside, table, local
  <1>9. CASE Command(t)
    <2>1. PICK p \in {"idle", "ptr", "again", "clear"} :
             pc' = [pc EXCEPT ![t] = p]
      BY <1>9 DEF Command, TypeInv, LocOK, Calls
    <2> QED BY <1>9, <2>1 DEF TypeInv, LocOK, Inside, Command, table
  <1>10. CASE AppendData(t)
    <2>1. CASE Find(h[t]) \notin DOMAIN handles
      BY <1>10, <2>1 DEF TypeInv, LocOK, Inside, AppendData
    <2>2. CASE Find(h[t]) \in DOMAIN handles
      <3>1. /\ DOMAIN handles' = DOMAIN handles /\ Len(handles') = Len(handles)
            /\ \A i \in DOMAIN handles : /\ handles'[i].id = handles[i].id
                                         /\ handles'[i].reader = handles[i].reader
        BY <1>10, <2>2, Appended, BufferStep
      <3> QED BY <1>10, <3>1 DEF TypeInv, LocOK, Inside, AppendData
    <2> QED BY <2>1, <2>2
  <1> QED BY <1>1, <1>2, <1>3, <1>4, <1>5, <1>6, <1>7, <1>8, <1>9, <1>10
          DEF InCall

-----------------------------------------------------------------------------
(* The vector *)

Kept == TypeInv /\ TableKept /\ Handed /\ Fresh /\ Looking

LEMMA Ranges ==
    ASSUME TypeInv, NEW t \in Threads
    PROVE  rfid[t] \in Nat /\ h[t] \in Int
  <1>1. rfid[t] \in Readers \union {0} /\ h[t] \in Ids \union {INVALID_HANDLE}
    BY DEF TypeInv, LocOK
  <1>2. Readers \subseteq Nat /\ Ids \subseteq Int
    BY Numbers DEF Readers, Ids
  <1>3. INVALID_HANDLE \in Int /\ 0 \in Nat
    BY DEF INVALID_HANDLE
  <1> QED BY <1>1, <1>2, <1>3

LEMMA LookingStep == TypeInv /\ Looking /\ [Next]_vars => Looking'
  <1> SUFFICES ASSUME TypeInv, Looking, [Next]_vars
               PROVE  Looking'
    OBVIOUS
  <1>1. CASE UNCHANGED vars
    BY <1>1 DEF Looking, Busy, vars, local
  <1>2. ASSUME NEW t \in Threads, Step(t)
        PROVE  Looking'
    <2>1. CASE Open(t)
      BY <2>1 DEF TypeInv, LocOK, Looking, Busy, Open, Lookups
    <2>2. CASE AddHandleUnit(t)
      BY <2>2 DEF TypeInv, LocOK, Looking, Busy, AddHandleUnit, Lookups
    <2>3. CASE Close(t)
      BY <2>3 DEF TypeInv, LocOK, Looking, Busy, Close, Lookups
    <2>4. CASE BeginCall(t)
      BY <2>4 DEF TypeInv, LocOK, Looking, Busy, BeginCall, Lookups
    <2>5. CASE Walk(t)
      BY <2>5 DEF TypeInv, LocOK, Looking, Busy, Walk
    <2>6. ASSUME NEW what, NEW p, Use(t, what, p)
          PROVE  Looking'
      BY <2>6 DEF TypeInv, LocOK, Looking, Busy, Use
    <2>7. CASE IsValidHandle(t) \/ HelperIsValidHandle(t) \/ GetRfidPtr(t)
               \/ ClearBuffer(t) \/ GetData(t)
      BY <2>6, <2>7 DEF IsValidHandle, HelperIsValidHandle, GetRfidPtr,
                        ClearBuffer, GetData
    <2>8. CASE CallThroughNull(t) \/ UseOfUnsoundIterator(t)
      BY <2>8 DEF Looking, Busy, CallThroughNull, UseOfUnsoundIterator, local
    <2>9. CASE Command(t) \/ AppendData(t)
      BY <2>9 DEF TypeInv, LocOK, Looking, Busy, Command, AppendData, Lookups
    <2> QED BY <1>2, <2>1, <2>2, <2>3, <2>4, <2>5, <2>7, <2>8, <2>9 DEF Step
  <1> QED BY <1>1, <1>2 DEF Next

LEMMA InsideKept ==
    ASSUME Kept, NEW t \in Threads, Inside(t)
    PROVE  TableKept' /\ Handed' /\ Fresh'
  <1>1. TableKept'
    BY DEF Kept, TableKept, Inside
  <1>2. Handed'
    BY DEF Kept, Handed, Inside
  <1>3. Fresh'
    BY DEF Kept, Fresh, Inside
  <1> QED BY <1>1, <1>2, <1>3

LEMMA OpenKept ==
    ASSUME Kept, NEW t \in Threads, Open(t)
    PROVE  TableKept' /\ Handed' /\ Fresh'
  <1>1. /\ UNCHANGED <<handles, mine, flow_count>> /\ opened' = opened + 1
        /\ mine[t] = 0 /\ \A o \in Threads \ {t} : h'[o] = h[o]
    BY DEF Kept, TypeInv, LocOK, Open
  <1>2. h'[t] = h[t] \/ h'[t] = INVALID_HANDLE
    BY DEF Kept, TypeInv, LocOK, Open
  <1>3. TableKept'
    BY <1>1 DEF Kept, TableKept
  <1>4. Handed'
    <2>1. \A i \in DOMAIN handles : handles[i].reader <= opened'
      <3>1. \A i \in DOMAIN handles :
               handles[i].reader \in Int /\ handles[i].reader <= opened
        BY Units DEF Kept, Handed, Readers
      <3> QED BY <1>1, <3>1, Numbers DEF Kept
    <2>2. \A o \in Threads : h'[o] < flow_count'
      BY <1>1, <1>2, Numbers DEF Kept, Handed, INVALID_HANDLE
    <2>3. \A o, u \in Threads : o # u /\ h'[o] = h'[u] =>
             h'[o] = INVALID_HANDLE
      BY <1>1, <1>2 DEF Kept, Handed
    <2>4. \A o \in Threads : mine'[o] = 0 =>
             \A i \in DOMAIN handles' : handles'[i].id # h'[o]
      <3>1. \A i \in DOMAIN handles : handles[i].id # INVALID_HANDLE
        BY Units DEF Kept, INVALID_HANDLE
      <3> QED BY <1>1, <1>2, <3>1 DEF Kept, Handed
    <2> QED BY <1>1, <2>1, <2>2, <2>3, <2>4 DEF Handed
  <1>5. Fresh'
    <2>1. CASE UNCHANGED <<pc, rfid>>
      <3>1. \A o \in Threads : rfid[o] <= opened => rfid[o] <= opened'
        BY <1>1, Numbers, Ranges DEF Kept
      <3> QED BY <1>1, <2>1, <3>1 DEF Kept, Fresh
    <2>2. CASE pc' = [pc EXCEPT ![t] = "add"] /\ rfid' = [rfid EXCEPT ![t] = opened + 1]
      <3>1. \A i \in DOMAIN handles : handles[i].reader # opened + 1
        BY Units, Numbers DEF Kept, Handed, Readers
      <3>2. \A o \in Threads : pc[o] = "add" =>
               rfid[o] # opened + 1 /\ rfid[o] <= opened'
        BY <1>1, Numbers, Ranges DEF Kept, Fresh
      <3>3. \A o \in Threads : /\ pc'[o] = IF o = t THEN "add" ELSE pc[o]
                               /\ rfid'[o] = IF o = t THEN opened + 1 ELSE rfid[o]
        BY <2>2 DEF Kept, TypeInv, LocOK
      <3>4. opened + 1 <= opened'
        BY <1>1, Numbers DEF Kept
      <3> QED BY <1>1, <3>1, <3>2, <3>3, <3>4 DEF Kept, Fresh
    <2> QED BY <2>1, <2>2 DEF Open
  <1> QED BY <1>3, <1>4, <1>5

LEMMA AddKept ==
    ASSUME Kept, NEW t \in Threads, AddHandleUnit(t)
    PROVE  TableKept' /\ Handed' /\ Fresh'
  <1> DEFINE n == Len(handles) + 1
  <1>1. /\ \A i \in DOMAIN handles' :
              \/ i \in DOMAIN handles /\ handles'[i] = handles[i]
              \/ i = n /\ handles'[i].id = flow_count /\ handles'[i].reader = rfid[t]
        /\ \A i \in DOMAIN handles :
              i \in DOMAIN handles' /\ handles'[i] = handles[i]
        /\ n \in DOMAIN handles'
        /\ handles'[n].id = flow_count /\ handles'[n].reader = rfid[t]
        /\ Apart'
    BY Added DEF Kept
  <1>2. /\ /\ pc[t] = "add" /\ flow_count' = flow_count + 1
        /\ UNCHANGED <<opened, rfid>>
        /\ h'[t] = flow_count /\ mine'[t] = rfid[t] /\ pc'[t] = "idle" /\ rfid[t] # 0
        /\ \A o \in Threads \ {t} :
              h'[o] = h[o] /\ mine'[o] = mine[o] /\ pc'[o] = pc[o]
    BY DEF Kept, TypeInv, LocOK, AtWork, AddHandleUnit, NextHandle
  <1> HIDE DEF n
  <1>3. \A i \in DOMAIN handles : handles[i].reader # rfid[t]
    BY <1>2 DEF Kept, Fresh
  <1>4. TableKept'
    <2>1. \A i, j \in DOMAIN handles' : i # j =>
             handles'[i].reader # handles'[j].reader
      BY <1>1, <1>3 DEF Kept, TableKept
    <2>2. \A o \in Threads : mine'[o] # 0 =>
             \E i \in DOMAIN handles' :
                handles'[i].id = h'[o] /\ handles'[i].reader = mine'[o]
      <3>1. \A o \in Threads \ {t} : mine[o] # 0 =>
               \E i \in DOMAIN handles' :
                  handles'[i].id = h[o] /\ handles'[i].reader = mine[o]
        BY <1>1 DEF Kept, TableKept
      <3> QED BY <1>1, <1>2, <3>1
    <2> QED BY <1>1, <2>1, <2>2 DEF TableKept, Apart
  <1>5. Handed'
    <2>1. rfid[t] <= opened
      BY <1>2 DEF Kept, Fresh
    <2>2. \A i \in DOMAIN handles' : handles'[i].reader <= opened'
      BY <1>1, <1>2, <2>1 DEF Kept, Handed
    <2>3. \A o \in Threads : h[o] \in Int /\ h[o] < flow_count
      BY Ranges DEF Kept, Handed
    <2>4. \A o \in Threads : h'[o] < flow_count'
      BY <1>2, <2>3, Numbers DEF Kept
    <2>5. \A o \in Threads : h[o] # flow_count
      BY <2>3, Numbers DEF Kept
    <2>6. \A o, u \in Threads : o # u /\ h'[o] = h'[u] =>
             h'[o] = INVALID_HANDLE
      BY <1>2, <2>5 DEF Kept, Handed
    <2>7. \A o \in Threads : mine'[o] = 0 =>
             \A i \in DOMAIN handles' : handles'[i].id # h'[o]
      BY <1>1, <1>2, <2>5 DEF Kept, Handed
    <2> QED BY <2>2, <2>4, <2>6, <2>7 DEF Handed
  <1>6. Fresh'
    BY <1>1, <1>2 DEF Kept, Fresh
  <1> QED BY <1>4, <1>5, <1>6

LEMMA CloseKept ==
    ASSUME Kept, NEW t \in Threads, Close(t)
    PROVE  TableKept' /\ Handed' /\ Fresh'
  <1>1. /\ /\ UNCHANGED <<pc, rfid, opened, flow_count, h>> /\ pc[t] = "idle"
        /\ mine'[t] = 0
        /\ \A o \in Threads \ {t} : mine'[o] = mine[o]
    BY DEF Kept, TypeInv, LocOK, Close
  <1>2. CASE Find(h[t]) \notin DOMAIN handles
    <2>1. UNCHANGED handles
      BY <1>2 DEF Close
    <2>2. \A i \in DOMAIN handles : handles[i].id # h[t]
      BY <1>2, Found DEF Kept, TypeInv, VecOK
    <2>3. TableKept'
      BY <1>1, <2>1 DEF Kept, TableKept
    <2>4. Handed'
      BY <1>1, <2>1, <2>2 DEF Kept, Handed
    <2>5. Fresh'
      BY <1>1, <2>1 DEF Kept, Fresh
    <2> QED BY <2>3, <2>4, <2>5
  <1>3. CASE Find(h[t]) \in DOMAIN handles
    <2> DEFINE i == Find(h[t])
    <2>1. i \in DOMAIN handles /\ handles' = Erased(i) /\ handles[i].id = h[t]
      BY <1>3, Found DEF Close, Kept, TypeInv, VecOK
    <2> HIDE DEF i
    <2>2. /\ Apart'
          /\ \A j \in DOMAIN handles' :
                 \E k \in DOMAIN handles \ {i} : handles'[j] = handles[k]
          /\ \A k \in DOMAIN handles \ {i} :
                 \E j \in DOMAIN handles' : handles'[j] = handles[k]
      BY <2>1, Removed DEF Kept
    <2>3. \A o \in Threads \ {t} : h[o] # h[t]
      <3>1. h[t] # INVALID_HANDLE
        BY <2>1, Units DEF Kept, INVALID_HANDLE
      <3> QED BY <3>1 DEF Kept, Handed
    <2>4. TableKept'
      <3>1. \A j, k \in DOMAIN handles' : j # k =>
               handles'[j].reader # handles'[k].reader
        <4> SUFFICES ASSUME NEW j \in DOMAIN handles', NEW k \in DOMAIN handles',
                            j # k
                     PROVE  handles'[j].reader # handles'[k].reader
          OBVIOUS
        <4>1. PICK a \in DOMAIN handles, b \in DOMAIN handles :
                 handles'[j] = handles[a] /\ handles'[k] = handles[b]
          BY <2>2
        <4>2. handles'[j].id # handles'[k].id
          BY <2>2 DEF Apart
        <4>3. a # b
          BY <4>1, <4>2
        <4> QED BY <4>1, <4>3 DEF Kept, TableKept
      <3>2. \A o \in Threads : mine'[o] # 0 =>
               \E j \in DOMAIN handles' :
                  handles'[j].id = h'[o] /\ handles'[j].reader = mine'[o]
        <4> SUFFICES ASSUME NEW o \in Threads, mine'[o] # 0
                     PROVE  \E j \in DOMAIN handles' :
                               handles'[j].id = h[o] /\ handles'[j].reader = mine[o]
          BY <1>1
        <4>1. o # t /\ mine[o] # 0
          BY <1>1
        <4>2. PICK k \in DOMAIN handles :
                 handles[k].id = h[o] /\ handles[k].reader = mine[o]
          BY <4>1 DEF Kept, TableKept
        <4>3. k # i
          BY <2>1, <2>3, <4>1, <4>2
        <4> QED BY <2>2, <4>2, <4>3
      <3> QED BY <2>2, <3>1, <3>2 DEF TableKept, Apart
    <2>5. Handed'
      <3>1. \A j \in DOMAIN handles' : handles'[j].reader <= opened'
        BY <1>1, <2>2 DEF Kept, Handed
      <3>2. \A j \in DOMAIN handles' : handles'[j].id # h[t]
        BY <2>1, <2>2 DEF Kept, TypeInv, Apart
      <3>3. \A o \in Threads : mine'[o] = 0 =>
               \A j \in DOMAIN handles' : handles'[j].id # h'[o]
        BY <1>1, <2>2, <3>2 DEF Kept, Handed
      <3> QED BY <1>1, <3>1, <3>3 DEF Kept, Handed
    <2>6. Fresh'
      <3>1. \A o \in Threads : pc[o] = "add" =>
               \A j \in DOMAIN handles' : handles'[j].reader # rfid[o]
        BY <2>2 DEF Kept, Fresh
      <3> QED BY <1>1, <3>1 DEF Kept, Fresh
    <2> QED BY <2>4, <2>5, <2>6
  <1> QED BY <1>2, <1>3

LEMMA KeptStep == Kept /\ [Next]_vars => Kept'
  <1> SUFFICES ASSUME Kept, [Next]_vars
               PROVE  Kept'
    OBVIOUS
  <1>1. TypeInv' /\ Looking'
    BY TypeStep, LookingStep DEF Kept
  <1>2. TableKept' /\ Handed' /\ Fresh'
    <2>1. CASE Next
      <3>1. PICK t \in Threads :
               Open(t) \/ AddHandleUnit(t) \/ Close(t) \/ InCall(t)
        BY <2>1 DEF Next, Step, InCall
      <3> QED BY <3>1, OpenKept, AddKept, CloseKept, InsideStep, InsideKept DEF Kept
    <2>2. CASE UNCHANGED vars
      BY <2>2 DEF Kept, TableKept, Handed, Fresh, vars, table, local
    <2> QED BY <2>1, <2>2
  <1> QED BY <1>1, <1>2 DEF Kept

-----------------------------------------------------------------------------
(* The calls, while the vector did not change under an iterator *)

Inv == Kept /\ Undisturbed /\ FaultHasCause

\* What a step of t leaves alone of the others: their answers, and the
\* buffers of their units.
Private(t) ==
    \A o \in Threads \ {t} :
        /\ result'[o] = result[o]
        /\ \A i \in DOMAIN handles :
              handles[i].id = h[o] => handles'[i].buf = handles[i].buf

\* No two threads pass the handle of one unit.
LEMMA OneCaller ==
    ASSUME Kept, NEW i \in DOMAIN handles, NEW t \in Threads, NEW o \in Threads,
           handles[i].id = h[t], handles[i].id = h[o]
    PROVE  o = t
  <1>1. handles[i].id \in Nat
    BY Units DEF Kept
  <1>2. h[t] # INVALID_HANDLE
    BY <1>1 DEF INVALID_HANDLE
  <1> QED BY <1>2 DEF Kept, Handed

LEMMA AimedAt ==
    ASSUME Kept, NEW t \in Threads, Aimed(t), Busy(t)
    PROVE  /\ Sound(t)
           /\ IsEnd(t) <=> iter[t] \notin DOMAIN handles
           /\ iter[t] \in DOMAIN handles =>
                 handles[iter[t]].id = h[t] /\ mine[t] # 0
           /\ iter[t] \notin DOMAIN handles => mine[t] = 0
  <1>1. /\ iter[t] \in 1..(Len(handles) + 1) /\ ~dangling[t]
        /\ DOMAIN handles = 1..Len(handles)
        /\ Len(handles) \in Nat
    BY Numbers DEF Aimed, At, Kept
  <1>2. Sound(t) /\ (IsEnd(t) <=> iter[t] \notin DOMAIN handles)
    BY <1>1 DEF Sound, IsEnd
  <1>3. iter[t] \in DOMAIN handles => handles[iter[t]].id = h[t] /\ mine[t] # 0
    BY DEF Aimed, At, Kept, Handed
  <1>4. iter[t] \notin DOMAIN handles => mine[t] = 0
    BY <1>2 DEF Aimed, At, Kept, TableKept, IsEnd
  <1> QED BY <1>2, <1>3, <1>4

\* The string of a unit is replaced by the caller of its handle.
LEMMA SpoilPrivate ==
    ASSUME Kept, NEW t \in Threads, NEW i \in DOMAIN handles, NEW b,
           handles[i].id = h[t],
           \A j \in DOMAIN handles :
              handles'[j].buf = IF j = i THEN b ELSE handles[j].buf,
           Spoil(handles[i].id, t), \A o \in Threads : Answered(o)
    PROVE  Private(t)
  <1> SUFFICES ASSUME NEW o \in Threads \ {t}
               PROVE  /\ result'[o] = result[o]
                      /\ \A j \in DOMAIN handles :
                            handles[j].id = h[o] =>
                               handles'[j].buf = handles[j].buf
    BY DEF Private
  <1>1. handles[i].id # h[o]
    BY OneCaller
  <1>2. result[o] # handles[i].id
    <2>1. handles[i].id # None
      BY Units DEF Kept, None
    <2> QED BY <1>1, <2>1 DEF Answered
  <1>3. result'[o] = result[o]
    BY <1>2 DEF Spoil
  <1> QED BY <1>1, <1>3

\* A step of t inside a call, as the other threads see it.
LEMMA OthersInside ==
    ASSUME Kept, NEW t \in Threads, Inside(t), Private(t),
           \A o \in Threads : Aimed(o) /\ Placed(o) /\ Answered(o)
    PROVE  \A o \in Threads \ {t} : (Aimed(o) /\ Placed(o) /\ Answered(o))'
  <1> SUFFICES ASSUME NEW o \in Threads \ {t}
               PROVE  (Aimed(o) /\ Placed(o) /\ Answered(o))'
    OBVIOUS
  <1>1. /\ pc'[o] = pc[o] /\ call'[o] = call[o] /\ iter'[o] = iter[o]
        /\ rfid'[o] = rfid[o] /\ text'[o] = text[o] /\ result'[o] = result[o]
        /\ h' = h /\ mine' = mine /\ dangling' = dangling
        /\ DOMAIN handles' = DOMAIN handles /\ Len(handles') = Len(handles)
        /\ \A i \in DOMAIN handles : handles'[i].id = handles[i].id
    BY DEF Inside, Private
  <1>2. \A b : Buffered(o, b) => Buffered(o, b)'
    BY <1>1 DEF Private, Buffered
  <1>3. Aimed(o)'
    BY <1>1 DEF Aimed, At, Busy
  <1>4. Placed(o)'
    BY <1>1, <1>2 DEF Placed, Buffered, Private
  <1>5. Answered(o)'
    BY <1>1, <1>2 DEF Answered, Buffered, Private
  <1> QED BY <1>3, <1>4, <1>5

\* The step as its own thread sees it.
LEMMA OwnInside ==
    ASSUME Kept, NEW t \in Threads, InCall(t), Inside(t),
           \A o \in Threads : Aimed(o) /\ Placed(o) /\ Answered(o)
    PROVE  (Aimed(t) /\ Placed(t) /\ Answered(t))' /\ Private(t)
  <1> USE DEF Kept
  <1>0. Aimed(t) /\ Placed(t) /\ Answered(t)
    OBVIOUS
  <1>1. CASE BeginCall(t)
    <2>1. /\ pc'[t] = "valid" /\ result'[t] = None
          /\ UNCHANGED <<handles, h, iter, dangling, mine>>
          /\ \A o \in Threads \ {t} : result'[o] = result[o]
      BY <1>1 DEF TypeInv, LocOK, BeginCall, table
    <2>2. Aimed(t)'
      BY <1>0, <2>1 DEF Aimed, At, Busy
    <2>3. Placed(t)' /\ Answered(t)'
      BY <2>1 DEF Placed, Answered
    <2> QED BY <2>1, <2>2, <2>3 DEF Private
  <1>2. CASE Walk(t)
    <2>1. /\ UNCHANGED <<handles, pc, call, h, dangling, rfid, text, mine, result>>
          /\ iter'[t] = Find(h[t])
      BY <1>2 DEF TypeInv, LocOK, Walk, table
    <2>2. At(t)'
      <3>1. /\ Find(h[t]) \in 1..(Len(handles) + 1)
            /\ Find(h[t]) \in DOMAIN handles => handles[Find(h[t])].id = h[t]
            /\ Find(h[t]) \notin DOMAIN handles =>
                  \A i \in DOMAIN handles : handles[i].id # h[t]
        BY Found DEF TypeInv, VecOK
      <3>2. Len(handles) + 1 \notin DOMAIN handles
        BY Numbers
      <3> QED BY <2>1, <3>1, <3>2 DEF At
    <2>3. Aimed(t)'
      BY <1>0, <2>1, <2>2 DEF Aimed
    <2>4. Placed(t)' /\ Answered(t)'
      BY <1>0, <2>1 DEF Placed, Answered, Buffered
    <2> QED BY <2>1, <2>3, <2>4 DEF Private
  <1>3. ASSUME NEW what \in Lookups, NEW p, Use(t, what, p)
        PROVE  /\ Aimed(t)' /\ Busy(t) /\ pc[t] = what /\ pc'[t] = p
               /\ UNCHANGED <<h, mine, call, text>>
    BY <1>0, <1>3 DEF TypeInv, LocOK, Aimed, Busy, Use
  <1>4. CASE IsValidHandle(t)
    <2>1. PICK p \in (IF IsEnd(t)
                      THEN IF call[t] = "antenna" THEN {"ptr"} ELSE {"idle"}
                      ELSE {"again", "ptr"}) : Use(t, "valid", p)
      BY <1>4 DEF IsValidHandle
    <2>2. UNCHANGED <<handles, rfid, result>>
      BY <1>4 DEF IsValidHandle
    <2>3. /\ Aimed(t)' /\ Busy(t) /\ pc[t] = "valid" /\ pc'[t] = p
          /\ UNCHANGED <<h, mine, call, text>>
      BY <1>3, <2>1 DEF Lookups
    <2>4. ~IsEnd(t) => mine[t] # 0
      BY <1>0, <2>3, AimedAt
    <2>5. Placed(t)'
      BY <2>1, <2>3, <2>4 DEF Placed
    <2>6. Answered(t)'
      BY <1>0, <2>2, <2>3 DEF Answered
    <2> QED BY <2>2, <2>3, <2>5, <2>6 DEF Private
  <1>5. CASE HelperIsValidHandle(t)
    <2>1. PICK p : Use(t, "again", p) /\ (~IsEnd(t) => p = "ptr")
      BY <1>5 DEF HelperIsValidHandle
    <2>2. UNCHANGED <<handles, rfid, result>>
      BY <1>5 DEF HelperIsValidHandle
    <2>3. /\ Aimed(t)' /\ Busy(t) /\ pc[t] = "again" /\ pc'[t] = p
          /\ UNCHANGED <<h, mine, call, text>>
      BY <1>3, <2>1 DEF Lookups
    <2>4. mine[t] # 0
      BY <1>0, <2>3 DEF Placed
    <2>5. p = "ptr"
      BY <1>0, <2>1, <2>3, <2>4, AimedAt
    <2>6. Placed(t)'
      BY <2>3, <2>4, <2>5 DEF Placed
    <2>7. Answered(t)'
      BY <1>0, <2>2, <2>3 DEF Answered
    <2> QED BY <2>2, <2>3, <2>6, <2>7 DEF Private
  <1>6. CASE GetRfidPtr(t)
    <2>1. /\ Aimed(t)' /\ Busy(t) /\ pc[t] = "ptr" /\ pc'[t] = "command"
          /\ UNCHANGED <<h, mine, call, text>>
      BY <1>3, <1>6 DEF GetRfidPtr, Lookups
    <2>2. UNCHANGED <<handles, result>> /\ rfid'[t] = handles[iter[t]].reader
      BY <1>6 DEF TypeInv, LocOK, GetRfidPtr
    <2>3. /\ iter[t] \in DOMAIN handles /\ handles[iter[t]].id = h[t]
          /\ mine[t] # 0
      BY <1>0, <1>6, <2>1, AimedAt DEF GetRfidPtr
    <2>4. handles[iter[t]].reader = mine[t]
      BY <2>3 DEF TypeInv, TableKept, Apart
    <2>5. Placed(t)' /\ Answered(t)'
      BY <1>0, <2>1, <2>2, <2>3, <2>4 DEF Placed, Answered
    <2> QED BY <2>1, <2>2, <2>5 DEF Private
  <1>7. CASE ClearBuffer(t)
    <2>1. /\ Aimed(t)' /\ Busy(t) /\ pc[t] = "clear" /\ pc'[t] = "append"
          /\ UNCHANGED <<h, mine, call, text>>
      BY <1>3, <1>7 DEF ClearBuffer, Lookups
    <2>2. mine[t] # 0 /\ text[t] = <<mine[t]>>
      BY <1>0, <2>1 DEF Placed
    <2>3. iter[t] \in DOMAIN handles /\ handles[iter[t]].id = h[t] /\ ~IsEnd(t)
      BY <1>0, <2>1, <2>2, AimedAt
    <2>4. /\ handles' = [handles EXCEPT ![iter[t]].buf = <<>>]
          /\ Spoil(handles[iter[t]].id, t)
      BY <1>7, <2>3 DEF ClearBuffer, Cleared
    <2>5. <<>> \in Seq(Readers) /\ Len(<<>>) <= MaxText
      BY DEF MaxText
    <2>6. /\ DOMAIN handles' = DOMAIN handles
          /\ \A j \in DOMAIN handles :
                /\ handles'[j].id = handles[j].id
                /\ handles'[j].buf = IF j = iter[t] THEN <<>> ELSE handles[j].buf
      BY <2>3, <2>4, <2>5, BufferStep
    <2>7. Buffered(t, <<>>)'
      BY <2>1, <2>3, <2>6 DEF TypeInv, Apart, Buffered
    <2>8. result'[t] = None
      BY <2>4 DEF Spoil
    <2>9. Placed(t)' /\ Answered(t)'
      BY <2>1, <2>2, <2>7, <2>8 DEF Placed, Answered
    <2> QED BY <2>1, <2>3, <2>4, <2>6, <2>9, SpoilPrivate
  <1>8. CASE GetData(t)
    <2>1. /\ Aimed(t)' /\ Busy(t) /\ pc[t] = "data" /\ pc'[t] = "idle"
          /\ UNCHANGED <<h, mine, call, text>>
      BY <1>3, <1>8 DEF GetData, Lookups
    <2>2. mine[t] # 0 /\ Buffered(t, <<mine[t]>>)
      BY <1>0, <2>1 DEF Placed
    <2>3. ~IsEnd(t) /\ handles[iter[t]].id = h[t]
      BY <1>0, <2>1, <2>2, AimedAt
    <2>4. /\ UNCHANGED handles /\ result'[t] = h[t]
          /\ \A o \in Threads \ {t} : result'[o] = result[o]
      BY <1>8, <2>3 DEF TypeInv, LocOK, GetData
    <2>5. Placed(t)' /\ Answered(t)'
      BY <2>1, <2>2, <2>4 DEF Placed, Answered, Buffered
    <2> QED BY <2>1, <2>4, <2>5 DEF Private
  <1>9. CASE CallThroughNull(t) \/ UseOfUnsoundIterator(t)
    <2>1. UNCHANGED <<table, local, result>>
      BY <1>9 DEF CallThroughNull, UseOfUnsoundIterator
    <2>2. Aimed(t)' /\ Placed(t)' /\ Answered(t)'
      BY <1>0, <2>1 DEF Aimed, At, Busy, Placed, Answered, Buffered, table, local
    <2> QED BY <2>1, <2>2 DEF Private, table
  <1>10. CASE Command(t)
    <2>1. PICK p \in {"idle", "ptr", "again", "clear"} :
             pc' = [pc EXCEPT ![t] = p]
      BY <1>10 DEF Command, TypeInv, LocOK, Calls
    <2>2. /\ pc[t] = "command" /\ pc'[t] = p /\ text'[t] = <<rfid[t]>>
          /\ UNCHANGED <<handles, call, h, iter, dangling, rfid, mine, result>>
      BY <1>10, <2>1 DEF TypeInv, LocOK, Command, table
    <2>3. mine[t] # 0 /\ rfid[t] = mine[t]
      BY <1>0, <2>2 DEF Placed
    <2>4. Aimed(t)'
      BY <1>0, <2>2 DEF Aimed, At, Busy
    <2>5. Placed(t)' /\ Answered(t)'
      BY <1>0, <2>1, <2>2, <2>3 DEF Placed, Answered
    <2> QED BY <2>2, <2>4, <2>5 DEF Private
  <1>11. CASE AppendData(t)
    <2> DEFINE i == Find(h[t])
    <2>1. /\ pc[t] = "append" /\ pc'[t] = "data"
          /\ UNCHANGED <<call, h, iter, dangling, text, mine>>
      BY <1>11 DEF TypeInv, LocOK, AppendData
    <2>2. mine[t] # 0 /\ text[t] = <<mine[t]>> /\ Buffered(t, <<>>)
      BY <1>0, <2>1 DEF Placed
    <2>3. i \in DOMAIN handles /\ handles[i].id = h[t]
      BY <2>2, Found DEF TypeInv, VecOK, TableKept
    <2>4. handles[i].buf \o text[t] = <<mine[t]>>
      <3>1. handles[i].buf = <<>>
        BY <2>2, <2>3 DEF Buffered
      <3>2. text[t] \in Seq(Readers)
        BY DEF TypeInv, LocOK
      <3> QED BY <2>2, <3>1, <3>2
    <2>5. UpTo(<<mine[t]>>) = <<mine[t]>>
      <3>1. <<mine[t]>> \in Seq(Readers)
        BY <2>2 DEF TypeInv, LocOK
      <3>2. Len(<<mine[t]>>) <= MaxText
        BY DEF MaxText
      <3> QED BY <3>1, <3>2, UpToTyped
    <2>6. /\ handles' = [handles EXCEPT ![i].buf = <<mine[t]>>]
          /\ <<mine[t]>> \in Seq(Readers) /\ Len(<<mine[t]>>) <= MaxText
          /\ Spoil(handles[i].id, t)
      BY <1>11, <2>3, <2>4, <2>5, Appended
    <2> HIDE DEF i
    <2>7. /\ DOMAIN handles' = DOMAIN handles /\ Len(handles') = Len(handles)
          /\ \A j \in DOMAIN handles :
                /\ handles'[j].id = handles[j].id
                /\ handles'[j].buf = IF j = i THEN <<mine[t]>> ELSE handles[j].buf
      BY <2>3, <2>6, BufferStep
    <2>8. Buffered(t, <<mine[t]>>)'
      BY <2>1, <2>3, <2>7 DEF TypeInv, Apart, Buffered
    <2>9. result'[t] = None
      BY <2>6 DEF Spoil
    <2>10. Aimed(t)'
      BY <1>0, <2>1, <2>7 DEF Aimed, At, Busy
    <2>11. Placed(t)' /\ Answered(t)'
      BY <2>1, <2>2, <2>8, <2>9 DEF Placed, Answered
    <2> QED BY <2>3, <2>6, <2>7, <2>10, <2>11, SpoilPrivate
  <1> QED BY <1>1, <1>2, <1>4, <1>5, <1>6, <1>7, <1>8, <1>9, <1>10, <1>11
          DEF InCall

\* Opening and closing, while no other thread is at an iterator.
LEMMA OpenUndisturbed ==
    ASSUME Kept, NEW t \in Threads, Open(t),
           \A o \in Threads : Aimed(o) /\ Placed(o) /\ Answered(o)
    PROVE  \A o \in Threads : (Aimed(o) /\ Placed(o) /\ Answered(o))'
  <1>1. /\ UNCHANGED <<handles, call, iter, dangling, text, mine>>
        /\ pc'[t] \in {"idle", "add"} /\ result'[t] = None /\ pc[t] = "idle"
        /\ \A o \in Threads \ {t} : /\ pc'[o] = pc[o] /\ rfid'[o] = rfid[o]
                                    /\ h'[o] = h[o] /\ result'[o] = result[o]
    BY DEF Kept, TypeInv, LocOK, Open
  <1>2. ~Busy(t)
    BY <1>1 DEF Kept, Looking, Lookups
  <1>3. (Aimed(t) /\ Placed(t) /\ Answered(t))'
    BY <1>1, <1>2 DEF Aimed, Busy, Placed, Answered
  <1>4. ASSUME NEW o \in Threads \ {t}
        PROVE  (Aimed(o) /\ Placed(o) /\ Answered(o))'
    BY <1>1 DEF Aimed, At, Busy, Placed, Answered, Buffered
  <1> QED BY <1>3, <1>4

LEMMA AddUndisturbed ==
    ASSUME Kept, NEW t \in Threads, AddHandleUnit(t), ~disturbed',
           \A o \in Threads : Aimed(o) /\ Placed(o) /\ Answered(o)
    PROVE  \A o \in Threads : (Aimed(o) /\ Placed(o) /\ Answered(o))'
  <1>1. /\ UNCHANGED <<call, iter, rfid, text, result>>
        /\ pc'[t] = "idle" /\ pc[t] = "add"
        /\ \A o \in Threads \ {t} :
              pc'[o] = pc[o] /\ h'[o] = h[o] /\ mine'[o] = mine[o]
    BY DEF Kept, TypeInv, LocOK, AddHandleUnit
  <1>2. \A o \in Threads : ~Busy(o)
    BY <1>1 DEF Kept, Looking, Lookups, AddHandleUnit, Disturb
  <1>3. \A o \in Threads : Aimed(o)'
    BY <1>1, <1>2 DEF AddHandleUnit, Aimed, Busy
  <1>4. result[t] = None
    BY <1>1 DEF Answered
  <1>5. (Placed(t) /\ Answered(t))'
    BY <1>1, <1>4 DEF Placed, Answered
  <1>6. ASSUME NEW o \in Threads \ {t}
        PROVE  (Placed(o) /\ Answered(o))'
    <2>1. h[o] # flow_count
      BY Ranges, Numbers DEF Kept, Handed
    <2>2. \A b : Buffered(o, b) => Buffered(o, b)'
      BY <1>1, <2>1, Added DEF Kept, Buffered
    <2> QED BY <1>1, <2>2 DEF Placed, Answered
  <1> QED BY <1>3, <1>5, <1>6

LEMMA CloseUndisturbed ==
    ASSUME Kept, NEW t \in Threads, Close(t), ~disturbed',
           \A o \in Threads : Aimed(o) /\ Placed(o) /\ Answered(o)
    PROVE  \A o \in Threads : (Aimed(o) /\ Placed(o) /\ Answered(o))'
  <1>1. /\ UNCHANGED <<pc, call, h, iter, dangling, rfid, text>>
        /\ pc[t] = "idle" /\ result'[t] = None
        /\ \A o \in Threads \ {t} : mine'[o] = mine[o]
    BY DEF Kept, TypeInv, LocOK, Close, Spoil
  <1>2. ~Busy(t)
    BY <1>1 DEF Kept, Looking, Lookups
  <1>3. (Aimed(t) /\ Placed(t) /\ Answered(t))'
    BY <1>1, <1>2 DEF Aimed, Busy, Placed, Answered
  <1>4. ASSUME NEW o \in Threads \ {t}
        PROVE  (Aimed(o) /\ Placed(o) /\ Answered(o))'
    <2>1. CASE Find(h[t]) \notin DOMAIN handles
      <3>1. UNCHANGED <<handles, disturbed>> /\ result'[o] = result[o]
        BY <2>1 DEF Kept, TypeInv, LocOK, Close
      <3> QED BY <1>1, <3>1 DEF Aimed, At, Busy, Placed, Answered, Buffered
    <2>2. CASE Find(h[t]) \in DOMAIN handles
      <3> DEFINE i == Find(h[t])
      <3>1. /\ /\ i \in DOMAIN handles /\ handles' = Erased(i)
            /\ handles[i].id = h[t]
            /\ Spoil(handles[i].id, t) /\ Disturb(t)
        BY <2>2, Found DEF Close, Kept, TypeInv, VecOK
      <3> HIDE DEF i
      <3>2. ~Busy(o)
        BY <3>1 DEF Disturb
      <3>3. Aimed(o)'
        BY <1>1, <3>2 DEF Aimed, Busy
      <3>4. \A j \in DOMAIN handles' : \E k \in DOMAIN handles :
               handles'[j] = handles[k]
        BY <3>1, Removed DEF Kept
      <3>5. \A b : Buffered(o, b) => Buffered(o, b)'
        BY <1>1, <3>4 DEF Buffered
      <3>6. result'[o] = result[o]
        <4>1. handles[i].id # h[o]
          BY <3>1, OneCaller
        <4>2. handles[i].id # None
          BY <3>1, Units DEF Kept, None
        <4> QED BY <3>1, <4>1, <4>2 DEF Spoil, Answered
      <3> QED BY <1>1, <3>3, <3>5, <3>6 DEF Placed, Answered
    <2> QED BY <2>1, <2>2
  <1> QED BY <1>3, <1>4

LEMMA UndisturbedStep == Kept /\ Undisturbed /\ [Next]_vars => Undisturbed'
  <1> SUFFICES ASSUME Kept, Undisturbed, [Next]_vars, ~disturbed'
               PROVE  \A o \in Threads :
                         (Aimed(o) /\ Placed(o) /\ Answered(o))'
    BY DEF Undisturbed
  <1>1. CASE Next
    <2>1. PICK t \in Threads :
             Open(t) \/ AddHandleUnit(t) \/ Close(t) \/ InCall(t)
      BY <1>1 DEF Next, Step, InCall
    <2>2. InCall(t) => Inside(t)
      BY InsideStep DEF Kept
    <2>3. ~disturbed
      BY <2>1, <2>2 DEF Open, AddHandleUnit, Close, Inside, Disturb
    <2>4. \A o \in Threads : Aimed(o) /\ Placed(o) /\ Answered(o)
      BY <2>3 DEF Undisturbed
    <2>5. CASE InCall(t)
      BY <2>2, <2>4, <2>5, OwnInside, OthersInside
    <2> QED BY <2>1, <2>4, <2>5, OpenUndisturbed, AddUndisturbed, CloseUndisturbed
  <1>2. CASE UNCHANGED vars
    <2>1. \A o \in Threads : Aimed(o) /\ Placed(o) /\ Answered(o)
      BY <1>2 DEF Undisturbed, vars
    <2> QED BY <1>2, <2>1 DEF Aimed, At, Busy, Placed, Answered, Buffered, vars,
                              table, local
  <1> QED BY <1>1, <1>2

LEMMA FaultStep == Kept /\ Undisturbed /\ FaultHasCause /\ [Next]_vars =>
   FaultHasCause'
  <1> SUFFICES ASSUME Kept, Undisturbed, FaultHasCause, [Next]_vars
               PROVE  FaultHasCause'
    OBVIOUS
  <1>1. CASE UNCHANGED vars
    BY <1>1 DEF FaultHasCause, vars, local
  <1>2. ASSUME NEW t \in Threads, Step(t)
        PROVE  FaultHasCause'
    <2>1. CASE UNCHANGED fault
      <3>1. fault = "none"
        BY <1>2 DEF Step, Alive, Open, AddHandleUnit, Close, BeginCall, Walk,
                    IsValidHandle, HelperIsValidHandle, GetRfidPtr, ClearBuffer,
                    GetData, Use, CallThroughNull, UseOfUnsoundIterator,
                    Command, AppendData
      <3> QED BY <2>1, <3>1 DEF FaultHasCause
    <2>2. CASE CallThroughNull(t)
      <3>1. /\ UNCHANGED <<local, disturbed>> /\ fault' = "null pointer"
            /\ pc[t] = "ptr" /\ Busy(t) /\ IsEnd(t)
        BY <2>2 DEF CallThroughNull
      <3>2. CASE disturbed
        BY <3>1, <3>2 DEF FaultHasCause
      <3>3. CASE ~disturbed
        <4>1. mine[t] = 0 /\ call[t] = "antenna"
          BY <3>1, <3>3, AimedAt DEF Undisturbed, Placed
        <4> QED BY <3>1, <4>1 DEF FaultHasCause, local
      <3> QED BY <3>2, <3>3
    <2>3. CASE UseOfUnsoundIterator(t)
      <3>1. UNCHANGED disturbed /\ Busy(t) /\ ~Sound(t)
        BY <2>3 DEF UseOfUnsoundIterator
      <3>2. disturbed
        BY <3>1, AimedAt DEF Undisturbed
      <3> QED BY <3>1, <3>2 DEF FaultHasCause
    <2> QED BY <1>2, <2>1, <2>2, <2>3
            DEF Step, Open, AddHandleUnit, Close, BeginCall, Walk, IsValidHandle,
                HelperIsValidHandle, GetRfidPtr, ClearBuffer, GetData, Use,
                Command, AppendData
  <1> QED BY <1>1, <1>2 DEF Next

-----------------------------------------------------------------------------
(* The theorems *)

LEMMA InvInit == Init => Inv
  <1> SUFFICES ASSUME Init
               PROVE  Inv
    OBVIOUS
  <1>1. /\ handles = <<>> /\ DOMAIN handles = {} /\ Len(handles) = 0
        /\ handles \in Seq(Unit)
    BY DEF Init
  <1>2. VecOK /\ Apart /\ NumOK
    BY <1>1, BoundAssumption DEF Init, VecOK, Apart, NumOK
  <1>3. LocOK
    <2>1. <<>> \in Seq(Readers) /\ 0 \in 0..(MaxOpens + 1)
      BY BoundAssumption
    <2> QED BY <2>1 DEF Init, LocOK, Lookups, Calls, INVALID_HANDLE, NoResult
  <1>4. Counted /\ AtWork
    <2>1. Adding = {}
      BY DEF Init, Adding
    <2> QED BY <1>1, <2>1, FS_EmptySet DEF Init, Counted, AtWork
  <1>5. TableKept /\ Handed /\ Fresh
    BY <1>1 DEF Init, TableKept, Handed, Fresh, INVALID_HANDLE
  <1>6. Looking /\ Undisturbed /\ FaultHasCause
    BY <1>1 DEF Init, Looking, Undisturbed, Aimed, Busy, Placed, Answered,
                FaultHasCause
  <1> QED BY <1>2, <1>3, <1>4, <1>5, <1>6 DEF Inv, Kept, TypeInv

LEMMA InvHolds == Spec => []Inv
  <1>1. Inv /\ [Next]_vars => Inv'
    BY KeptStep, UndisturbedStep, FaultStep DEF Inv
  <1> QED BY InvInit, <1>1, PTL DEF Spec

\* Every variable keeps its type: no handle id is given that could not be.
THEOREM TypeCorrect == Spec => []TypeOK
  <1>1. Inv => TypeOK
    BY TypeParts DEF Inv, Kept, TypeInv
  <1> QED BY InvHolds, <1>1, PTL

\* HandleManager never holds a handle or a reader twice, and keeps each open
\* handle with its reader, for any number of threads that open and close.
THEOREM TableKeptHolds == Spec => []TableKept
  <1>1. Inv => TableKept
    BY DEF Inv, Kept
  <1> QED BY InvHolds, <1>1, PTL

\* A call's commands run on the reader of its handle, unless RFOpen or RFClose
\* changed the vector under an iterator.
THEOREM OwnReaderHolds == Spec => []OwnReader
  <1>1. Inv => OwnReader
    BY DEF Inv, Undisturbed, Placed, OwnReader
  <1> QED BY InvHolds, <1>1, PTL

\* The char* a call returned stays good, with that call's answer, until the
\* caller's next call, unless the vector changed under an iterator.
THEOREM ResultIntactHolds == Spec => []ResultIntact
  <1>1. Inv => ResultIntact
    <2> SUFFICES ASSUME Inv, ~disturbed, NEW t \in Threads, result[t] # None
                 PROVE  \E i \in DOMAIN handles : /\ handles[i].id = result[t]
                                                  /\ result[t] = h[t]
                                                  /\ handles[i].buf = <<mine[t]>>
      BY DEF ResultIntact
    <2>1. mine[t] # 0 /\ result[t] = h[t] /\ Buffered(t, <<mine[t]>>)
      BY DEF Inv, Undisturbed, Answered
    <2>2. PICK i \in DOMAIN handles : handles[i].id = h[t]
      BY <2>1 DEF Inv, Kept, TableKept
    <2> QED BY <2>1, <2>2 DEF Buffered
  <1> QED BY InvHolds, <1>1, PTL

\* The unlocked look-ups of the C API meet undefined behaviour only when the
\* vector changed under an iterator, or through the antenna calls' missing test.
THEOREM FaultHasCauseHolds == Spec => []FaultHasCause
  <1>1. Inv => FaultHasCause
    BY DEF Inv
  <1> QED BY InvHolds, <1>1, PTL

=============================================================================
