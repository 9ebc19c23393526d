------------------------ MODULE PacketFraming_proofs ------------------------
(***************************************************************************)
(* The framing of any stream, cut anywhere, with any limit.                *)
(*                                                                         *)
(* The stream is the units one after the other (the first part), so that   *)
(* a byte's place tells its unit.  The buffer has the bytes that arrived,  *)
(* without the units that were taken out whole (Sorted, Whole).  Therefore *)
(* the leftmost match of a pattern is the first unit of its kind that is   *)
(* in the buffer (the spans), but for the digits that a torn heartbeat     *)
(* left; and what was taken out is what was delivered (TakenUnits,         *)
(* TakenDigits).                                                           *)
(***************************************************************************)
EXTENDS PacketFraming, Integers, SequenceTheorems, WellFoundedInduction, TLAPS

-----------------------------------------------------------------------------
(* Induction, and the concatenation of sequences *)

\* A set of naturals has a least element.
LEMMA Least ==
    ASSUME NEW T, T \subseteq Nat, T # {}
    PROVE  \E x \in T : \A y \in T : x <= y
  <1> DEFINE R == OpToRel(<, Nat)
  <1>1. IsWellFoundedOn(R, Nat)
    BY NatLessThanWellFounded
  <1>2. \A x, y \in Nat : y < x => <<y, x>> \in R
    <2> TAKE x, y \in Nat
    <2>1. y < x => <<y, x>> \in {ss \in Nat \X Nat : ss[1] < ss[2]}
      OBVIOUS
    <2> QED BY <2>1 DEF OpToRel
  <1> HIDE DEF R
  <1>3. PICK x \in T : \A y \in T : ~ (<<y, x>> \in R)
    BY <1>1, WFMin
  <1>4. ASSUME NEW y \in T PROVE x <= y
    <2>1. x \in Nat /\ y \in Nat
      OBVIOUS
    <2>2. ~(y < x)
      BY <1>2, <1>3, <2>1
    <2> QED BY <2>1, <2>2
  <1> QED BY <1>4

\* Induction, for a set instead of a predicate.
LEMMA SetInduction ==
    ASSUME NEW T, 0 \in T, \A n \in Nat : n \in T => n + 1 \in T
    PROVE  Nat \subseteq T
  <1> SUFFICES ASSUME Nat \ T # {} PROVE FALSE
    OBVIOUS
  <1>1. PICK x \in Nat \ T : \A y \in Nat \ T : x <= y
    BY Least
  <1>2. x - 1 \in Nat
    OBVIOUS
  <1>3. x - 1 \in T
    BY <1>1, <1>2
  <1>4. (x - 1) + 1 \in T
    BY <1>2, <1>3
  <1> QED BY <1>4

\* The equation of FlattenSeq's recursive function, over the first n.
Joins(f, s, n) ==
    f = [i \in 1..n |-> IF i = 1 THEN s[i] ELSE f[i - 1] \o s[i]]

LEMMA JoinsNext ==
    ASSUME NEW s, NEW n \in Nat, NEW f, Joins(f, s, n)
    PROVE  \E g : Joins(g, s, n + 1)
  <1> DEFINE g == [i \in 1..(n + 1) |-> IF i <= n THEN f[i]
                                        ELSE IF i = 1 THEN s[i]
                                        ELSE f[n] \o s[i]]
  <1>1. \A i \in 1..n : f[i] = IF i = 1 THEN s[i] ELSE f[i - 1] \o s[i]
    BY DEF Joins
  <1>2. \A i \in 1..(n + 1) :
            g[i] = IF i = 1 THEN s[i] ELSE g[i - 1] \o s[i]
    <2> TAKE i \in 1..(n + 1)
    <2>1. CASE i <= n
      <3>1. i \in 1..n /\ (i # 1 => i - 1 \in 1..n)
        BY <2>1
      <3> QED BY <1>1, <3>1
    <2>2. CASE i = n + 1
      <3>1. ~(i <= n) /\ (i # 1 => i - 1 = n /\ n <= n /\ n \in 1..(n + 1))
        BY <2>2
      <3>2. i # 1 => g[i - 1] = f[n]
        BY <3>1
      <3> QED BY <3>1, <3>2
    <2> QED BY <2>1, <2>2
  <1>3. g = [i \in 1..(n + 1) |-> g[i]]
    OBVIOUS
  <1>4. [i \in 1..(n + 1) |-> g[i]]
          = [i \in 1..(n + 1) |-> IF i = 1 THEN s[i] ELSE g[i - 1] \o s[i]]
    BY <1>2
  <1>5. Joins(g, s, n + 1)
    <2> HIDE DEF g
    <2> QED BY <1>3, <1>4 DEF Joins
  <1> HIDE DEF g
  <1> QED BY <1>5

LEMMA JoinsExists ==
    ASSUME NEW s
    PROVE  \A n \in Nat : \E f : Joins(f, s, n)
  <1> DEFINE T == {n \in Nat : \E f : Joins(f, s, n)}
  <1>1. 0 \in T
    <2>1. Joins(<<>>, s, 0)
      BY DEF Joins
    <2> QED BY <2>1
  <1>2. \A n \in Nat : n \in T => n + 1 \in T
    BY JoinsNext
  <1>3. Nat \subseteq T
    <2> HIDE DEF T
    <2> QED BY <1>1, <1>2, SetInduction
  <1> QED BY <1>3

Agree(f, g, n) == \A i \in 1..n : f[i] = g[i]

\* Two solutions agree as far as the sequences do.
LEMMA JoinsUnique ==
    ASSUME NEW s, NEW t, NEW n \in Nat, NEW m \in Nat, n <= m,
           NEW f, NEW g, Joins(f, s, n), Joins(g, t, m),
           Agree(s, t, n)
    PROVE  Agree(f, g, n)
  <1> DEFINE T == {k \in Nat : k \in 1..n => f[k] = g[k]}
  <1>1. 0 \in T
    OBVIOUS
  <1>2. \A i \in 1..n :
            /\ f[i] = IF i = 1 THEN s[i] ELSE f[i - 1] \o s[i]
            /\ g[i] = IF i = 1 THEN s[i] ELSE g[i - 1] \o s[i]
    <2> TAKE i \in 1..n
    <2>1. f[i] = IF i = 1 THEN s[i] ELSE f[i - 1] \o s[i]
      BY DEF Joins
    <2>2. i \in 1..m
      OBVIOUS
    <2>3. g[i] = IF i = 1 THEN t[i] ELSE g[i - 1] \o t[i]
      BY <2>2 DEF Joins
    <2> QED BY <2>1, <2>3 DEF Agree
  <1>3. \A k \in Nat : k \in T => k + 1 \in T
    <2> TAKE k \in Nat
    <2> HAVE k \in T
    <2>1. CASE k + 1 \in 1..n
      <3>1. k + 1 = 1 \/ (k \in 1..n /\ (k + 1) - 1 = k /\ k + 1 # 1)
        BY <2>1
      <3> QED BY <1>2, <2>1, <3>1
    <2>2. CASE k + 1 \notin 1..n
      BY <2>2
    <2> QED BY <2>1, <2>2
  <1>4. Nat \subseteq T
    <2> HIDE DEF T
    <2> QED BY <1>1, <1>3, SetInduction
  <1> QED BY <1>4 DEF Agree

\* FlattenSeq, an element at a time.
LEMMA FlattenFirst ==
    ASSUME NEW S, NEW s \in Seq(S)
    PROVE  /\ Len(s) = 0 => FlattenSeq(s) = <<>>
           /\ Len(s) # 0 =>
                 \E f : Joins(f, s, Len(s)) /\ FlattenSeq(s) = f[Len(s)]
  <1>1. CASE Len(s) = 0
    BY <1>1 DEF FlattenSeq
  <1>2. CASE Len(s) # 0
    <2>1. FlattenSeq(s) = (CHOOSE f : Joins(f, s, Len(s)))[Len(s)]
      BY <1>2 DEF FlattenSeq, Joins
    <2>2. \E f : Joins(f, s, Len(s))
      BY JoinsExists
    <2> QED BY <1>2, <2>1, <2>2
  <1> QED BY <1>1, <1>2

LEMMA FlattenNext ==
    ASSUME NEW S, NEW s \in Seq(Seq(S)), NEW t \in Seq(Seq(S)),
           Len(t) = Len(s) + 1, \A i \in 1..Len(s) : s[i] = t[i]
    PROVE  FlattenSeq(t) = FlattenSeq(s) \o t[Len(t)]
  <1> DEFINE n == Len(s)
  <1>0. n \in Nat /\ Len(t) = n + 1 /\ t[n + 1] \in Seq(S)
    OBVIOUS
  <1>1. PICK g : Joins(g, t, n + 1) /\ FlattenSeq(t) = g[n + 1]
    BY <1>0, FlattenFirst
  <1>2. g[n + 1] = IF n + 1 = 1 THEN t[n + 1] ELSE g[n] \o t[n + 1]
    <2> HIDE DEF n
    <2>1. n + 1 \in 1..(n + 1) /\ (n + 1) - 1 = n
      BY <1>0
    <2>2. g = [i \in 1..(n + 1) |-> IF i = 1 THEN t[i] ELSE g[i - 1] \o t[i]]
      BY <1>1 DEF Joins
    <2> QED BY <2>1, <2>2
  <1>3. CASE n = 0
    <2>1. FlattenSeq(s) = <<>>
      BY <1>3, FlattenFirst
    <2>2. g[n + 1] = t[n + 1]
      BY <1>2, <1>3
    <2> QED BY <1>0, <1>1, <2>1, <2>2
  <1>4. CASE n # 0
    <2>1. PICK f : Joins(f, s, n) /\ FlattenSeq(s) = f[n]
      BY <1>4, FlattenFirst
    <2>2. Agree(f, g, n)
      <3> HIDE DEF n
      <3>1. Agree(s, t, n)
        BY DEF n, Agree
      <3>2. n <= n + 1 /\ n + 1 \in Nat
        BY <1>0
      <3> QED BY <1>0, <1>1, <2>1, <3>1, <3>2, JoinsUnique
    <2>3. f[n] = g[n]
      BY <1>0, <1>4, <2>2 DEF Agree
    <2>4. n + 1 # 1
      BY <1>0, <1>4
    <2> QED BY <1>0, <1>1, <1>2, <2>1, <2>3, <2>4
  <1> QED BY <1>3, <1>4

-----------------------------------------------------------------------------
(* The layout of the stream *)

Names == {"LF", "text", "CR", "hex", "heartbeat", "00-16-", "x02A"}

Size(n) == Len(Classes(stream[n]))

\* The k-th byte of unit n.
At(n, k) == LastAt(n - 1) + k

\* The first n units.
Flat(n) == FlattenSeq([i \in 1..n |-> Classes(stream[i])])

LEMMA StreamUnits ==
    ASSUME stream \in Streams
    PROVE  /\ stream \in Seq(Units) /\ Len(stream) \in Nat
           /\ DOMAIN stream = 1..Len(stream)
           /\ \A n \in 1..Len(stream) : stream[n] \in Units
           /\ \A n \in 1..Len(stream) : stream[n] \in Torn =>
                 n = 1 /\ \A j \in 1..Len(stream) : stream[j] # "boot"
  BY StreamsAssumption

LEMMA ClassesType ==
    \A u \in Units : /\ Classes(u) \in Seq(Names)
                     /\ Len(Classes(u)) \in {2, 3, 4}
  <1> TAKE u \in Units
  <1>1. CASE u = "line"
    BY <1>1 DEF Classes, Names
  <1>2. CASE u = "torn_line"
    <2>1. Classes(u) = <<"text", "CR", "LF">>
      BY <1>2 DEF Classes
    <2>2. <<"text", "CR", "LF">> \in Seq(Names)
      BY DEF Names
    <2> QED BY <2>1, <2>2
  <1>3. CASE u = "beat"
    BY <1>3 DEF Classes, Names
  <1>4. CASE u = "torn_beat"
    <2>1. Classes(u) = <<"00-16-", "hex">>
      BY <1>4 DEF Classes
    <2>2. <<"00-16-", "hex">> \in Seq(Names)
      BY DEF Names
    <2> QED BY <2>1, <2>2
  <1>5. CASE u = "boot"
    BY <1>5 DEF Classes, Names
  <1> QED BY <1>1, <1>2, <1>3, <1>4, <1>5 DEF Units, Torn

LEMMA JoinFacts ==
    ASSUME NEW S, NEW a \in Seq(S), NEW b \in Seq(S)
    PROVE  /\ a \o b \in Seq(S) /\ Len(a \o b) = Len(a) + Len(b)
           /\ \A i \in 1..Len(a) : (a \o b)[i] = a[i]
           /\ \A i \in 1..Len(b) : (a \o b)[Len(a) + i] = b[i]
  OBVIOUS

LEMMA FlatNext ==
    ASSUME stream \in Streams
    PROVE  /\ Flat(0) = <<>>
           /\ \A n \in 1..Len(stream) :
                 Flat(n) = Flat(n - 1) \o Classes(stream[n])
  <1> DEFINE S(n) == [i \in 1..n |-> Classes(stream[i])]
  <1>1. \A n \in 0..Len(stream) : S(n) \in Seq(Seq(Names)) /\ Len(S(n)) = n
    <2> TAKE n \in 0..Len(stream)
    <2>1. \A i \in 1..n : Classes(stream[i]) \in Seq(Names)
      BY StreamUnits, ClassesType
    <2>2. n \in Nat
      BY StreamUnits
    <2> QED BY <2>1, <2>2
  <1>2. Flat(0) = <<>>
    <2>1. S(0) \in Seq(Seq(Names)) /\ Len(S(0)) = 0
      BY <1>1, StreamUnits
    <2>2. FlattenSeq(S(0)) = <<>>
      <3> HIDE DEF S
      <3> QED BY <2>1, FlattenFirst
    <2> QED BY <2>2 DEF Flat
  <1>3. ASSUME NEW n \in 1..Len(stream)
        PROVE  Flat(n) = Flat(n - 1) \o Classes(stream[n])
    <2>1. n \in Nat /\ n - 1 \in 0..Len(stream) /\ n \in 0..Len(stream)
          /\ n = (n - 1) + 1
      BY StreamUnits
    <2>2. \A i \in 1..(n - 1) : S(n - 1)[i] = S(n)[i]
      BY <2>1
    <2>3. S(n)[n] = Classes(stream[n])
      BY <2>1
    <2>4. FlattenSeq(S(n)) = FlattenSeq(S(n - 1)) \o S(n)[n]
      <3> HIDE DEF S
      <3>1. /\ S(n - 1) \in Seq(Seq(Names)) /\ Len(S(n - 1)) = n - 1
            /\ S(n) \in Seq(Seq(Names)) /\ Len(S(n)) = n
        BY <1>1, <2>1
      <3>2. Len(S(n)) = Len(S(n - 1)) + 1
        BY <2>1, <3>1
      <3>3. \A i \in 1..Len(S(n - 1)) : S(n - 1)[i] = S(n)[i]
        BY <2>2, <3>1
      <3>4. FlattenSeq(S(n)) = FlattenSeq(S(n - 1)) \o S(n)[Len(S(n))]
        BY <3>1, <3>2, <3>3, FlattenNext
      <3> QED BY <3>1, <3>4
    <2> QED BY <2>3, <2>4 DEF Flat
  <1> QED BY <1>2, <1>3

LEMMA FlatType ==
    ASSUME stream \in Streams
    PROVE  \A n \in 0..Len(stream) : Flat(n) \in Seq(Names)
  <1> DEFINE T == {n \in Nat : n <= Len(stream) => Flat(n) \in Seq(Names)}
  <1>1. 0 \in T
    <2>1. <<>> \in Seq(Names)
      OBVIOUS
    <2>2. Flat(0) \in Seq(Names)
      BY FlatNext, <2>1
    <2> QED BY <2>2
  <1>2. \A n \in Nat : n \in T => n + 1 \in T
    <2> SUFFICES ASSUME NEW n \in Nat, n \in T, n + 1 <= Len(stream)
                 PROVE  Flat(n + 1) \in Seq(Names)
      OBVIOUS
    <2>1. n <= Len(stream) /\ n + 1 \in 1..Len(stream) /\ (n + 1) - 1 = n
      BY StreamUnits
    <2>2. Flat(n + 1) = Flat(n) \o Classes(stream[n + 1])
      BY <2>1, FlatNext
    <2>3. Classes(stream[n + 1]) \in Seq(Names)
      BY <2>1, StreamUnits, ClassesType
    <2>4. Flat(n) \in Seq(Names)
      BY <2>1
    <2> QED BY <2>2, <2>3, <2>4, JoinFacts
  <1>3. Nat \subseteq T
    <2> HIDE DEF T
    <2> QED BY <1>1, <1>2, SetInduction
  <1> QED BY <1>3, StreamUnits

\* Where the units end.
LEMMA EndsNext ==
    ASSUME stream \in Streams
    PROVE  /\ LastAt(0) = 0
           /\ \A n \in 0..Len(stream) : LastAt(n) \in Nat
           /\ \A n \in 1..Len(stream) : /\ LastAt(n) = LastAt(n - 1) + Size(n)
                                        /\ Size(n) \in {2, 3, 4}
  <1>1. \A n \in Int : LastAt(n) = Len(Flat(n))
    BY DEF LastAt, Flat
  <1>2. \A n \in 0..Len(stream) : LastAt(n) \in Nat
    BY <1>1, FlatType, StreamUnits
  <1>3. LastAt(0) = 0
    BY <1>1, FlatNext
  <1>4. ASSUME NEW n \in 1..Len(stream)
        PROVE  LastAt(n) = LastAt(n - 1) + Size(n) /\ Size(n) \in {2, 3, 4}
    <2>1. n - 1 \in 0..Len(stream) /\ n - 1 \in Int /\ n \in Int
      BY StreamUnits
    <2>2. Flat(n - 1) \in Seq(Names) /\ Classes(stream[n]) \in Seq(Names)
          /\ Len(Classes(stream[n])) \in {2, 3, 4}
      BY <2>1, FlatType, StreamUnits, ClassesType
    <2>3. Len(Flat(n)) = Len(Flat(n - 1)) + Len(Classes(stream[n]))
      BY <2>2, FlatNext
    <2> QED BY <1>1, <2>1, <2>2, <2>3 DEF Size
  <1> QED BY <1>2, <1>3, <1>4

LEMMA EndsGrow ==
    ASSUME stream \in Streams
    PROVE  \A m, n \in 0..Len(stream) : m <= n => LastAt(m) <= LastAt(n)
  <1> SUFFICES ASSUME NEW m \in 0..Len(stream)
               PROVE  \A n \in 0..Len(stream) : m <= n => LastAt(m) <= LastAt(n)
    OBVIOUS
  <1> DEFINE T == {n \in Nat : n <= Len(stream) /\ m <= n =>
                                  LastAt(m) <= LastAt(n)}
  <1>0. m \in Nat /\ Len(stream) \in Nat
    BY StreamUnits
  <1>1. 0 \in T
    BY <1>0, EndsNext
  <1>2. \A n \in Nat : n \in T => n + 1 \in T
    <2> SUFFICES ASSUME NEW n \in Nat, n \in T, n + 1 <= Len(stream), m <= n + 1
                 PROVE  LastAt(m) <= LastAt(n + 1)
      OBVIOUS
    <2>1. /\ n + 1 \in 1..Len(stream) /\ (n + 1) - 1 = n
          /\ n \in 0..Len(stream) /\ n + 1 \in 0..Len(stream)
      BY <1>0
    <2>2. LastAt(n + 1) = LastAt(n) + Size(n + 1) /\ Size(n + 1) \in {2, 3, 4}
      BY <2>1, EndsNext
    <2>3. LastAt(m) \in Nat /\ LastAt(n) \in Nat /\ LastAt(n + 1) \in Nat
      BY <2>1, EndsNext
    <2>4. CASE m = n + 1
      BY <2>3, <2>4
    <2>5. CASE m <= n
      <3>1. LastAt(m) <= LastAt(n)
        BY <2>1, <2>5
      <3> QED BY <2>2, <2>3, <3>1
    <2> QED BY <1>0, <2>4, <2>5
  <1>3. Nat \subseteq T
    <2> HIDE DEF T
    <2> QED BY <1>1, <1>2, SetInduction
  <1> QED BY <1>0, <1>3

\* Every place is in a unit.
LEMMA EveryPlace ==
    ASSUME stream \in Streams, NEW p \in 1..LastAt(Len(stream))
    PROVE  \E n \in 1..Len(stream) : \E k \in 1..Size(n) : p = At(n, k)
  <1> DEFINE T == {n \in 0..Len(stream) : p <= LastAt(n)}
  <1>1. Len(stream) \in T /\ T \subseteq Nat
    BY StreamUnits, EndsNext
  <1>2. PICK n \in T : \A m \in T : n <= m
    <2> HIDE DEF T
    <2> QED BY <1>1, Least
  <1>3. n # 0
    BY EndsNext, StreamUnits
  <1>4. n \in 1..Len(stream) /\ n - 1 \in 0..Len(stream)
    BY <1>3, StreamUnits
  <1>5. ~(p <= LastAt(n - 1))
    BY <1>2, <1>4
  <1>6. /\ LastAt(n) = LastAt(n - 1) + Size(n) /\ Size(n) \in {2, 3, 4}
        /\ LastAt(n - 1) \in Nat
    BY <1>4, EndsNext
  <1>7. p - LastAt(n - 1) \in 1..Size(n)
    BY <1>5, <1>6, <1>2
  <1>8. p = LastAt(n - 1) + (p - LastAt(n - 1))
    BY <1>6
  <1> QED BY <1>4, <1>7, <1>8 DEF At

LEMMA UnitContent ==
    ASSUME stream \in Streams, NEW n \in 1..Len(stream), NEW k \in 1..Size(n)
    PROVE  Flat(Len(stream))[At(n, k)] = Classes(stream[n])[k]
  <1> DEFINE T == {m \in Nat : n <= m /\ m <= Len(stream) =>
                                  Flat(m)[At(n, k)] = Classes(stream[n])[k]}
  <1>0. /\ n \in Nat /\ n # 0 /\ Len(stream) \in Nat /\ k \in Nat
        /\ n - 1 \in 0..Len(stream) /\ n \in 0..Len(stream)
    BY StreamUnits
  <1>1. 0 \in T
    BY <1>0
  <1>2. \A m \in Nat : m \in T => m + 1 \in T
    <2> SUFFICES ASSUME NEW m \in Nat, m \in T, n <= m + 1, m + 1 <= Len(stream)
                 PROVE  Flat(m + 1)[At(n, k)] = Classes(stream[n])[k]
      OBVIOUS
    <2>1. /\ m + 1 \in 1..Len(stream) /\ (m + 1) - 1 = m
          /\ m \in 0..Len(stream) /\ m + 1 \in 0..Len(stream)
      BY <1>0
    <2>2. Flat(m + 1) = Flat(m) \o Classes(stream[m + 1])
      BY <2>1, FlatNext
    <2>3. /\ Flat(m) \in Seq(Names) /\ Len(Flat(m)) = LastAt(m)
          /\ Classes(stream[m + 1]) \in Seq(Names)
          /\ Len(Classes(stream[m + 1])) = Size(m + 1)
      BY <2>1, FlatType, StreamUnits, ClassesType DEF LastAt, Flat, Size
    <2>4. CASE n = m + 1
      <3>1. At(n, k) = Len(Flat(m)) + k
        BY <2>1, <2>3, <2>4 DEF At
      <3>2. k \in 1..Len(Classes(stream[m + 1]))
        BY <2>3, <2>4
      <3>3. Flat(m + 1)[Len(Flat(m)) + k] = Classes(stream[m + 1])[k]
        BY <2>2, <2>3, <3>2, JoinFacts
      <3> QED BY <2>4, <3>1, <3>3
    <2>5. CASE n <= m
      <3>1. Flat(m)[At(n, k)] = Classes(stream[n])[k]
        BY <2>1, <2>5
      <3>2. At(n, k) \in 1..LastAt(m)
        <4>1. LastAt(n) <= LastAt(m) /\ LastAt(n) = LastAt(n - 1) + Size(n)
              /\ LastAt(n - 1) \in Nat /\ LastAt(m) \in Nat
              /\ Size(n) \in {2, 3, 4}
          BY <1>0, <2>1, <2>5, EndsNext, EndsGrow
        <4> QED BY <4>1 DEF At
      <3> QED BY <2>2, <2>3, <3>1, <3>2
    <2> QED BY <1>0, <2>4, <2>5
  <1>3. Nat \subseteq T
    <2> HIDE DEF T
    <2> QED BY <1>1, <1>2, SetInduction
  <1> QED BY <1>0, <1>3


Byte == [c : Names, at : DOMAIN Bytes]
Ends == Len(stream)
AllUnits == 1..Len(stream)

\* What the places of the units are.
LEMMA Places ==
    ASSUME stream \in Streams
    PROVE  /\ \A n \in AllUnits : \A k \in 1..Size(n) :
                 /\ At(n, k) \in 1..LastAt(Ends) /\ At(n, k) <= LastAt(n)
                 /\ At(n, k) = At(n, 1) + (k - 1)
           /\ \A n \in AllUnits : /\ Size(n) \in {2, 3, 4}
                                  /\ At(n, Size(n)) = LastAt(n)
                                  /\ LastAt(n) \in 1..LastAt(Ends)
                                  /\ At(n, 1) \in Nat
           /\ \A m, n \in AllUnits : m < n => LastAt(m) < At(n, 1)
  <1>0. \A n \in AllUnits :
            /\ n - 1 \in 0..Len(stream) /\ n \in 0..Len(stream)
            /\ n <= Len(stream)
    BY StreamUnits DEF AllUnits
  <1>1. \A n \in AllUnits :
            /\ LastAt(n) = LastAt(n - 1) + Size(n) /\ Size(n) \in {2, 3, 4}
            /\ LastAt(n - 1) \in Nat /\ LastAt(n) <= LastAt(Ends)
            /\ LastAt(Ends) \in Nat
    <2> TAKE n \in AllUnits
    <2>1. Ends \in 0..Len(stream)
      BY StreamUnits DEF Ends
    <2>2. LastAt(n) <= LastAt(Ends)
      BY <1>0, <2>1, EndsGrow DEF Ends
    <2> QED BY <1>0, <2>1, <2>2, EndsNext DEF AllUnits
  <1>2. \A m, n \in AllUnits : m < n => LastAt(m) <= LastAt(n - 1)
    <2> TAKE m, n \in AllUnits
    <2> HAVE m < n
    <2>1. m \in Nat /\ n \in Nat /\ m <= n - 1
      BY DEF AllUnits
    <2> QED BY <1>0, <2>1, EndsGrow
  <1>3. \A m, n \in AllUnits : m < n => LastAt(m) < At(n, 1)
    <2> TAKE m, n \in AllUnits
    <2> HAVE m < n
    <2>1. LastAt(m) \in Nat
      BY <1>0, EndsNext
    <2> QED BY <1>1, <1>2, <2>1 DEF At
  <1>4. \A n \in AllUnits : \A k \in 1..Size(n) :
            /\ At(n, k) \in 1..LastAt(Ends) /\ At(n, k) <= LastAt(n)
            /\ At(n, k) = At(n, 1) + (k - 1)
    <2> TAKE n \in AllUnits
    <2> TAKE k \in 1..Size(n)
    <2>1. Size(n) \in Nat /\ k \in Nat
      BY <1>1
    <2> QED BY <1>1, <2>1 DEF At
  <1>5. \A n \in AllUnits : /\ Size(n) \in {2, 3, 4}
                            /\ At(n, Size(n)) = LastAt(n)
                            /\ LastAt(n) \in 1..LastAt(Ends)
                            /\ At(n, 1) \in Nat
    BY <1>1 DEF At
  <1> QED BY <1>3, <1>4, <1>5

\* Two units share no place.
LEMMA PlaceOnce ==
    ASSUME stream \in Streams, NEW m \in AllUnits, NEW n \in AllUnits,
           NEW j \in 1..Size(m), NEW k \in 1..Size(n), At(m, j) = At(n, k)
    PROVE  m = n /\ j = k
  <1>1. m \in Nat /\ n \in Nat
    BY DEF AllUnits
  <1>2. /\ At(m, j) <= LastAt(m) /\ At(n, k) <= LastAt(n)
        /\ At(m, j) = At(m, 1) + (j - 1) /\ At(n, k) = At(n, 1) + (k - 1)
        /\ At(m, 1) \in Nat /\ At(n, 1) \in Nat
        /\ LastAt(m) \in Nat /\ LastAt(n) \in Nat
        /\ j \in Nat /\ k \in Nat /\ 1 <= j /\ 1 <= k
    BY Places
  <1>3. ~(m < n) /\ ~(n < m)
    <2>1. (m < n => LastAt(m) < At(n, 1)) /\ (n < m => LastAt(n) < At(m, 1))
      BY Places
    <2>2. At(m, j) \in Int /\ At(n, k) \in Int
      BY Places
    <2>3. At(m, 1) <= At(m, j) /\ At(n, 1) <= At(n, k)
      <3>1. \A a, i \in Nat : 1 <= i => a <= a + (i - 1)
        OBVIOUS
      <3> QED BY <1>2, <3>1
    <2>4. ASSUME m < n PROVE FALSE
      <3>1. LastAt(m) < At(n, 1)
        BY <2>1, <2>4
      <3> QED BY <1>2, <2>2, <2>3, <3>1
    <2>5. ASSUME n < m PROVE FALSE
      <3>1. LastAt(n) < At(m, 1)
        BY <2>1, <2>5
      <3> QED BY <1>2, <2>2, <2>3, <3>1
    <2> QED BY <2>4, <2>5
  <1>4. m = n
    BY <1>1, <1>3
  <1>5. At(m, 1) + (j - 1) = At(m, 1) + (k - 1)
    BY <1>2, <1>4
  <1> QED BY <1>2, <1>4, <1>5

LEMMA BytesAre ==
    ASSUME stream \in Streams
    PROVE  /\ DOMAIN Bytes = 1..LastAt(Ends) /\ Len(Bytes) = LastAt(Ends)
           /\ LastAt(Ends) \in Nat
           /\ Bytes \in Seq(Byte)
           /\ \A p \in 1..LastAt(Ends) : Bytes[p] \in Byte /\ Bytes[p].at = p
           /\ \A n \in AllUnits : \A k \in 1..Size(n) :
                 Bytes[At(n, k)].c = Classes(stream[n])[k]
  <1> DEFINE cs == Flat(Len(stream))
  <1>1. cs \in Seq(Names) /\ Len(cs) = LastAt(Ends) /\ LastAt(Ends) \in Nat
    <2>1. Len(stream) \in 0..Len(stream)
      BY StreamUnits
    <2>2. cs \in Seq(Names)
      BY <2>1, FlatType
    <2>3. LastAt(Ends) = Len(cs)
      BY DEF LastAt, Ends, Flat
    <2> QED BY <2>2, <2>3
  <1>2. Bytes = [p \in DOMAIN cs |-> [c |-> cs[p], at |-> p]]
    <2>1. DOMAIN stream = 1..Len(stream)
      BY StreamUnits
    <2> QED BY <2>1 DEF Bytes, Flat
  <1>3. \A n \in AllUnits : \A k \in 1..Size(n) :
            /\ At(n, k) \in 1..LastAt(Ends)
            /\ cs[At(n, k)] = Classes(stream[n])[k]
    BY Places, UnitContent DEF AllUnits
  <1> HIDE DEF cs
  <1>4. DOMAIN cs = 1..LastAt(Ends) /\ \A p \in 1..LastAt(Ends) : cs[p] \in Names
    BY <1>1
  <1>5. DOMAIN Bytes = 1..LastAt(Ends)
    BY <1>2, <1>4
  <1>6. \A p \in 1..LastAt(Ends) :
            /\ Bytes[p] = [c |-> cs[p], at |-> p] /\ Bytes[p].at = p
            /\ Bytes[p].c = cs[p] /\ Bytes[p] \in Byte
    BY <1>2, <1>4, <1>5 DEF Byte
  <1>7. Bytes \in Seq(Byte) /\ Len(Bytes) = LastAt(Ends)
    <2>1. Bytes = [p \in 1..LastAt(Ends) |-> Bytes[p]]
      BY <1>2, <1>4
    <2>2. Bytes \in [1..LastAt(Ends) -> Byte]
      BY <1>6, <2>1
    <2> QED BY <1>1, <2>2
  <1> QED BY <1>1, <1>3, <1>5, <1>6, <1>7

LEMMA UnitIs ==
    ASSUME stream \in Streams, NEW n \in AllUnits
    PROVE  /\ Unit(n) \in Seq(Byte) /\ Len(Unit(n)) = Size(n)
           /\ DOMAIN Unit(n) = 1..Size(n)
           /\ \A k \in 1..Size(n) : /\ Unit(n)[k] = Bytes[At(n, k)]
                                    /\ Unit(n)[k].at = At(n, k)
  <1>1. /\ LastAt(n - 1) \in Nat /\ LastAt(n) = LastAt(n - 1) + Size(n)
        /\ Size(n) \in Nat /\ LastAt(n) <= LastAt(Ends)
    <2>1. n - 1 \in 0..Len(stream)
      BY StreamUnits DEF AllUnits
    <2>2. /\ LastAt(n - 1) \in Nat /\ LastAt(n) = LastAt(n - 1) + Size(n)
          /\ Size(n) \in {2, 3, 4}
      BY <2>1, EndsNext DEF AllUnits
    <2>3. LastAt(n) \in 1..LastAt(Ends)
      BY Places
    <2> QED BY <2>2, <2>3
  <1>2. /\ Unit(n) \in Seq(Byte) /\ Len(Unit(n)) = Size(n)
        /\ \A k \in 1..Size(n) : Unit(n)[k] = Bytes[LastAt(n - 1) + k]
    <2> DEFINE a == LastAt(n - 1)
               s == Size(n)
    <2>1. a \in Nat /\ s \in Nat /\ a + s <= Len(Bytes) /\ Bytes \in Seq(Byte)
      BY <1>1, BytesAre
    <2>2. Unit(n) = SubSeq(Bytes, a + 1, a + s)
      BY <1>1 DEF Unit
    <2> HIDE DEF a, s
    <2>3. /\ SubSeq(Bytes, a + 1, a + s) \in Seq(Byte)
          /\ Len(SubSeq(Bytes, a + 1, a + s)) = s
          /\ \A k \in 1..s : SubSeq(Bytes, a + 1, a + s)[k] = Bytes[a + k]
      BY <2>1
    <2> QED BY <2>2, <2>3 DEF a, s
  <1>3. \A k \in 1..Size(n) : At(n, k) \in 1..LastAt(Ends)
    BY Places
  <1> QED BY <1>2, <1>3, BytesAre DEF At

\* Which units have a byte of which class, and where.
LEMMA ClassPlaces ==
    \A u \in Units : \A k \in 1..Len(Classes(u)) :
        LET c == Classes(u)[k]
        IN  /\ c = "LF" => \/ u = "line" /\ k \in {1, 4}
                           \/ u = "torn_line" /\ k = 3
            /\ c = "CR" => \/ u = "line" /\ k = 3
                           \/ u = "torn_line" /\ k = 2
                           \/ u = "boot" /\ k = 2
            /\ c = "hex" => \/ u = "beat" /\ k \in {1, 4}
                            \/ u = "torn_beat" /\ k = 2
            /\ c = "heartbeat" => u = "beat" /\ k = 2
            /\ c = "x02A" => u = "boot" /\ k = 1
  <1> TAKE u \in Units
  <1>1. CASE u = "line"
    BY <1>1 DEF Classes
  <1>2. CASE u = "torn_line"
    <2>1. Classes(u) = <<"text", "CR", "LF">>
      BY <1>2 DEF Classes
    <2>2. /\ Len(Classes(u)) = 3 /\ Classes(u)[1] = "text"
          /\ Classes(u)[2] = "CR" /\ Classes(u)[3] = "LF"
      BY <2>1
    <2>3. \A k \in 1..Len(Classes(u)) : k \in {1, 2, 3}
      BY <2>2
    <2> HIDE DEF Classes
    <2> QED BY <1>2, <2>2, <2>3
  <1>3. CASE u = "beat"
    BY <1>3 DEF Classes
  <1>4. CASE u = "torn_beat"
    <2>1. Classes(u) = <<"00-16-", "hex">>
      BY <1>4 DEF Classes
    <2>2. /\ Len(Classes(u)) = 2
          /\ Classes(u)[1] = "00-16-" /\ Classes(u)[2] = "hex"
      BY <2>1
    <2>3. \A k \in 1..Len(Classes(u)) : k \in {1, 2}
      BY <2>2
    <2> QED BY <1>4, <2>2, <2>3
  <1>5. CASE u = "boot"
    <2>1. Classes(u) = <<"x02A", "CR">>
      BY <1>5 DEF Classes
    <2> QED BY <1>5, <2>1
  <1> QED BY <1>1, <1>2, <1>3, <1>4, <1>5 DEF Units, Torn

\* The patterns' classes, by unit.
LEMMA UnitClasses ==
    /\ Len(Classes("line")) = 4 /\ Len(Classes("beat")) = 4
    /\ Len(Classes("boot")) = 2 /\ Len(Classes("torn_line")) = 3
    /\ Len(Classes("torn_beat")) = 2
    /\ Classes("line")[1] = "LF" /\ Classes("line")[2] = "text"
    /\ Classes("line")[3] = "CR" /\ Classes("line")[4] = "LF"
    /\ Classes("torn_line")[1] = "text"
    /\ Classes("beat")[1] = "hex" /\ Classes("beat")[2] = "heartbeat"
    /\ Classes("beat")[3] = "00-16-" /\ Classes("beat")[4] = "hex"
    /\ Classes("torn_beat")[1] = "00-16-" /\ Classes("torn_beat")[2] = "hex"
    /\ Classes("boot")[1] = "x02A" /\ Classes("boot")[2] = "CR"
  BY DEF Classes

-----------------------------------------------------------------------------
(* The buffer *)

\* Which bytes are in the buffer, and which units were taken out of it.
Kept(p) == \E i \in DOMAIN buffer : buffer[i].at = p
Gone(n) == Arrived(n) /\ ~Kept(LastAt(n))

\* The buffer has bytes that arrived, in the order they arrived.
Sorted ==
    /\ \A i \in DOMAIN buffer : /\ buffer[i].at \in 1..pos
                                /\ buffer[i] = Bytes[buffer[i].at]
    /\ \A i, j \in DOMAIN buffer : i < j => buffer[i].at < buffer[j].at

\* A unit is in the buffer as far as it arrived, or it was taken out whole; a
\* torn one stays, but for the digits of a heartbeat.
Whole ==
    \A n \in AllUnits :
        \/ \A k \in 1..Size(n) :
              At(n, k) <= pos /\ (stream[n] = "torn_beat" => k = 1) =>
                  Kept(At(n, k))
        \/ /\ stream[n] \notin Torn /\ Arrived(n)
           /\ \A k \in 1..Size(n) : ~Kept(At(n, k))

BufferInv ==
    /\ stream \in Streams /\ pos \in 0..LastAt(Ends)
    /\ buffer \in Seq(Byte)
    /\ Sorted /\ Whole

\* The byte at i in the buffer is the k-th one of unit n.
Holds(i, n, k) == i \in DOMAIN buffer /\ buffer[i].at = At(n, k)

LEMMA Increasing ==
    ASSUME BufferInv
    PROVE  /\ DOMAIN buffer = 1..Len(buffer) /\ Len(buffer) \in Nat
           /\ pos \in Nat
           /\ \A i \in DOMAIN buffer : buffer[i].at \in Nat
           /\ \A i, j \in DOMAIN buffer :
                 /\ buffer[i].at < buffer[j].at => i < j
                 /\ buffer[i].at = buffer[j].at => i = j
  <1>1. DOMAIN buffer = 1..Len(buffer) /\ Len(buffer) \in Nat /\ pos \in Nat
    BY BytesAre DEF BufferInv
  <1>2. \A i \in DOMAIN buffer : buffer[i].at \in Nat
    BY DEF BufferInv, Sorted
  <1>3. ASSUME NEW i \in DOMAIN buffer, NEW j \in DOMAIN buffer
        PROVE  /\ buffer[i].at < buffer[j].at => i < j
               /\ buffer[i].at = buffer[j].at => i = j
    <2>1. /\ i < j => buffer[i].at < buffer[j].at
          /\ j < i => buffer[j].at < buffer[i].at
      BY DEF BufferInv, Sorted
    <2> QED BY <1>1, <1>2, <2>1
  <1> QED BY <1>1, <1>2, <1>3

\* What is next to a byte in the stream, and kept, is next to it in the buffer.
LEMMA NextByte ==
    ASSUME BufferInv, NEW i \in DOMAIN buffer
    PROVE  /\ Kept(buffer[i].at + 1) =>
                 i + 1 \in DOMAIN buffer /\ buffer[i + 1].at = buffer[i].at + 1
           /\ Kept(buffer[i].at - 1) =>
                 i - 1 \in DOMAIN buffer /\ buffer[i - 1].at = buffer[i].at - 1
  <1> DEFINE at(j) == buffer[j].at
  <1>1. \A j, l \in DOMAIN buffer :
            /\ j \in Nat /\ at(j) \in Nat
            /\ at(j) < at(l) => j < l
            /\ j < l => at(j) < at(l)
    BY Increasing DEF BufferInv, Sorted
  <1>2. \A j, l \in DOMAIN buffer : \A h \in j..l : h \in DOMAIN buffer
    BY Increasing
  <1>3. ASSUME Kept(at(i) + 1)
        PROVE  i + 1 \in DOMAIN buffer /\ at(i + 1) = at(i) + 1
    <2>1. PICK j \in DOMAIN buffer : at(j) = at(i) + 1
      BY <1>3 DEF Kept
    <2> HIDE DEF at
    <2>2. i < j /\ i \in Nat /\ j \in Nat /\ at(i) \in Nat
      BY <1>1, <2>1
    <2>3. i + 1 \in DOMAIN buffer
      BY <1>2, <2>2
    <2>4. at(i) < at(i + 1) /\ at(i + 1) \in Nat
      BY <1>1, <2>2, <2>3
    <2>5. i + 1 < j => at(i + 1) < at(j)
      BY <1>1, <2>3
    <2> QED BY <2>1, <2>2, <2>3, <2>4, <2>5
  <1>4. ASSUME Kept(at(i) - 1)
        PROVE  i - 1 \in DOMAIN buffer /\ at(i - 1) = at(i) - 1
    <2>1. PICK j \in DOMAIN buffer : at(j) = at(i) - 1
      BY <1>4 DEF Kept
    <2> HIDE DEF at
    <2>2. i \in Nat /\ j \in Nat /\ at(i) \in Nat /\ at(j) < at(i)
      BY <1>1, <2>1
    <2>6. j < i
      BY <1>1, <2>2
    <2>3. i - 1 \in DOMAIN buffer
      BY <1>2, <2>2, <2>6
    <2>4. at(i - 1) < at(i) /\ at(i - 1) \in Nat
      BY <1>1, <2>2, <2>3
    <2>5. j < i - 1 => at(j) < at(i - 1)
      BY <1>1, <2>3
    <2> QED BY <2>1, <2>2, <2>3, <2>4, <2>5, <2>6
  <1> QED BY <1>3, <1>4

\* The unit a byte of the buffer is of.
LEMMA Owner ==
    ASSUME BufferInv, NEW i \in DOMAIN buffer
    PROVE  \E n \in AllUnits : \E k \in 1..Size(n) : Holds(i, n, k)
  <1>1. buffer[i].at \in 1..LastAt(Ends)
    <2>1. buffer[i].at \in 1..pos /\ pos \in 0..LastAt(Ends)
          /\ LastAt(Ends) \in Nat
      BY BytesAre DEF BufferInv, Sorted
    <2> QED BY <2>1
  <1> QED BY <1>1, EveryPlace DEF BufferInv, Holds, Ends, AllUnits

LEMMA HoldsClass ==
    ASSUME BufferInv, NEW n \in AllUnits, NEW k \in 1..Size(n),
           NEW i, Holds(i, n, k)
    PROVE  /\ i \in Nat \ {0} /\ buffer[i].c = Classes(stream[n])[k]
           /\ At(n, k) <= pos /\ Kept(At(n, k))
           /\ stream[n] \in Units /\ n \in Nat
  <1>1. buffer[i] = Bytes[At(n, k)] /\ At(n, k) \in 1..pos
    BY DEF BufferInv, Sorted, Holds
  <1>2. Bytes[At(n, k)].c = Classes(stream[n])[k]
    BY BytesAre DEF BufferInv
  <1>3. i \in Nat \ {0} /\ Kept(At(n, k))
    BY Increasing DEF Holds, Kept
  <1>4. stream[n] \in Units /\ n \in Nat
    BY StreamUnits DEF BufferInv, AllUnits
  <1> QED BY <1>1, <1>2, <1>3, <1>4, Increasing

\* The other bytes of the unit are about it.
LEMMA UnitTogether ==
    ASSUME BufferInv, NEW n \in AllUnits, NEW k \in 1..Size(n),
           NEW i, Holds(i, n, k), stream[n] # "torn_beat",
           NEW j \in 1..Size(n), At(n, j) <= pos
    PROVE  Holds(i + (j - k), n, j)
  <1>0. stream \in Streams
    BY DEF BufferInv
  <1>1. /\ Size(n) \in {2, 3, 4} /\ At(n, 1) \in Nat /\ k \in Nat /\ j \in Nat
        /\ k <= Size(n) /\ j <= Size(n) /\ i \in Nat /\ pos \in Nat
        /\ k # 0 /\ j # 0
    BY <1>0, Places, HoldsClass, Increasing
  <1>2. \A h \in 1..Size(n) : At(n, h) = At(n, 1) + (h - 1)
    BY <1>0, Places
  <1>3. \A h \in 1..Size(n) : At(n, h) <= pos => Kept(At(n, h))
    <2>1. Kept(At(n, k))
      BY HoldsClass
    <2> QED BY <2>1 DEF BufferInv, Whole
  <1>4. \A h \in 1..Size(n) : h <= j \/ h <= k => At(n, h) <= pos
    <2> TAKE h \in 1..Size(n)
    <2>1. /\ At(n, k) <= pos /\ At(n, j) = At(n, 1) + (j - 1)
          /\ At(n, k) = At(n, 1) + (k - 1) /\ At(n, h) = At(n, 1) + (h - 1)
      BY <1>2, HoldsClass
    <2> HIDE DEF At
    <2>2. \A a, x, y \in Nat : x <= y /\ a + (y - 1) <= pos => a + (x - 1) <= pos
      BY <1>1
    <2> QED BY <1>1, <2>1, <2>2
  <1>5. \A h \in 1..Size(n) : \A x : Holds(x, n, h) =>
            /\ h + 1 \in 1..Size(n) /\ At(n, h + 1) <= pos =>
                  Holds(x + 1, n, h + 1)
            /\ h - 1 \in 1..Size(n) /\ At(n, h - 1) <= pos =>
                  Holds(x - 1, n, h - 1)
    <2> TAKE h \in 1..Size(n)
    <2> SUFFICES ASSUME NEW x, Holds(x, n, h)
                 PROVE  /\ h + 1 \in 1..Size(n) /\ At(n, h + 1) <= pos =>
                              Holds(x + 1, n, h + 1)
                        /\ h - 1 \in 1..Size(n) /\ At(n, h - 1) <= pos =>
                              Holds(x - 1, n, h - 1)
      OBVIOUS
    <2>1. x \in DOMAIN buffer /\ buffer[x].at = At(n, h)
      BY DEF Holds
    <2>2. /\ h + 1 \in 1..Size(n) => At(n, h + 1) = At(n, h) + 1
          /\ h - 1 \in 1..Size(n) => At(n, h - 1) = At(n, h) - 1
      <3>1. /\ h + 1 \in 1..Size(n) => At(n, h + 1) = At(n, 1) + ((h + 1) - 1)
            /\ h - 1 \in 1..Size(n) => At(n, h - 1) = At(n, 1) + ((h - 1) - 1)
            /\ At(n, h) = At(n, 1) + (h - 1)
        BY <1>2
      <3> QED BY <1>1, <3>1
    <2>3. h + 1 \in 1..Size(n) /\ At(n, h + 1) <= pos => Holds(x + 1, n, h + 1)
      <3> HAVE h + 1 \in 1..Size(n) /\ At(n, h + 1) <= pos
      <3>1. Kept(buffer[x].at + 1)
        BY <1>3, <2>1, <2>2
      <3> QED BY <2>1, <2>2, <3>1, NextByte DEF Holds
    <2>4. h - 1 \in 1..Size(n) /\ At(n, h - 1) <= pos => Holds(x - 1, n, h - 1)
      <3> HAVE h - 1 \in 1..Size(n) /\ At(n, h - 1) <= pos
      <3>1. Kept(buffer[x].at - 1)
        BY <1>3, <2>1, <2>2
      <3> QED BY <2>1, <2>2, <3>1, NextByte DEF Holds
    <2> QED BY <2>3, <2>4
  <1> DEFINE T(d) == /\ k + d <= j => Holds(i + d, n, k + d)
                     /\ k - d >= j => Holds(i - d, n, k - d)
  <1>6. ASSUME NEW d \in {0, 1, 2}, T(d) PROVE T(d + 1)
    <2>1. ASSUME k + (d + 1) <= j PROVE Holds(i + (d + 1), n, k + (d + 1))
      <3>1. Holds(i + d, n, k + d)
        BY <1>1, <1>6, <2>1
      <3>2. /\ k + d \in 1..Size(n) /\ (k + d) + 1 \in 1..Size(n)
            /\ (k + d) + 1 = k + (d + 1) /\ (i + d) + 1 = i + (d + 1)
        BY <1>1, <2>1
      <3>3. At(n, (k + d) + 1) <= pos
        BY <1>4, <2>1, <3>2
      <3>4. Holds((i + d) + 1, n, (k + d) + 1)
        BY <1>5, <3>1, <3>2, <3>3
      <3> QED BY <3>2, <3>4
    <2>2. ASSUME k - (d + 1) >= j PROVE Holds(i - (d + 1), n, k - (d + 1))
      <3>1. Holds(i - d, n, k - d)
        BY <1>1, <1>6, <2>2
      <3>2. /\ k - d \in 1..Size(n) /\ (k - d) - 1 \in 1..Size(n)
            /\ (k - d) - 1 = k - (d + 1) /\ (i - d) - 1 = i - (d + 1)
            /\ (k - d) - 1 <= k
        BY <1>1, <2>2
      <3>3. At(n, (k - d) - 1) <= pos
        BY <1>4, <3>2
      <3>4. Holds((i - d) - 1, n, (k - d) - 1)
        BY <1>5, <3>1, <3>2, <3>3
      <3> QED BY <3>2, <3>4
    <2> QED BY <2>1, <2>2
  <1>7. T(0)
    BY <1>1
  <1>8. T(1) /\ T(2) /\ T(3)
    <2> HIDE DEF T
    <2>1. T(0 + 1)
      BY <1>6, <1>7
    <2>2. T(1 + 1)
      BY <1>6, <2>1
    <2>3. T(2 + 1)
      BY <1>6, <2>2
    <2> QED BY <2>1, <2>2, <2>3
  <1>9. j - k \in {-3, -2, -1, 0, 1, 2, 3}
    BY <1>1
  <1>10. CASE j >= k
    <2>1. PICK d \in {0, 1, 2, 3} : d = j - k
      BY <1>1, <1>9, <1>10
    <2>2. k + d = j /\ k + d <= j /\ i + d = i + (j - k)
      BY <1>1, <2>1
    <2>3. T(d)
      BY <1>7, <1>8
    <2> QED BY <2>2, <2>3
  <1>11. CASE k > j
    <2>1. PICK d \in {0, 1, 2, 3} : d = k - j
      BY <1>1, <1>9, <1>11
    <2>2. k - d = j /\ k - d >= j /\ i - d = i + (j - k)
      BY <1>1, <2>1
    <2>3. T(d)
      BY <1>7, <1>8
    <2> QED BY <2>2, <2>3
  <1> QED BY <1>1, <1>10, <1>11

\* How two bytes of the buffer lie to each other.
LEMMA HoldsOrder ==
    ASSUME BufferInv, NEW m \in AllUnits, NEW n \in AllUnits,
           NEW j \in 1..Size(m), NEW k \in 1..Size(n),
           NEW h, NEW i, Holds(h, m, j), Holds(i, n, k)
    PROVE  /\ m < n => h < i
           /\ h < i => m <= n
           /\ h < i => At(m, j) < At(n, k)
           /\ h = i => m = n /\ j = k
           /\ h < i /\ m # n => LastAt(m) <= pos
           /\ h < i /\ j + 1 \in 1..Size(m) => At(m, j + 1) <= pos
  <1>0. stream \in Streams
    BY DEF BufferInv
  <1>1. /\ h \in DOMAIN buffer /\ i \in DOMAIN buffer
        /\ buffer[h].at = At(m, j) /\ buffer[i].at = At(n, k)
        /\ h \in Nat /\ i \in Nat
    BY Increasing DEF Holds
  <1>2. /\ At(m, j) \in Nat /\ At(n, k) \in Nat /\ At(n, 1) \in Nat
        /\ At(m, 1) \in Nat /\ LastAt(m) \in Nat /\ LastAt(n) \in Nat
        /\ At(m, j) <= LastAt(m) /\ At(n, k) <= LastAt(n)
        /\ m \in Nat /\ n \in Nat /\ j \in Nat /\ k \in Nat /\ pos \in Nat
    BY <1>0, Places, Increasing DEF AllUnits
  <1>3. At(n, 1) <= At(n, k) /\ At(m, 1) <= At(m, j)
    <2>1. \A a, x \in Nat : 1 <= x => a <= a + (x - 1)
      OBVIOUS
    <2>2. At(n, k) = At(n, 1) + (k - 1) /\ At(m, j) = At(m, 1) + (j - 1)
      BY <1>0, Places
    <2> QED BY <1>2, <2>1, <2>2
  <1>4. (m < n => LastAt(m) < At(n, 1)) /\ (n < m => LastAt(n) < At(m, 1))
    BY <1>0, Places
  <1>5. m < n => At(m, j) < At(n, k)
    BY <1>2, <1>3, <1>4
  <1>6. n < m => At(n, k) < At(m, j)
    BY <1>2, <1>3, <1>4
  <1>7. h < i => At(m, j) < At(n, k)
    BY <1>1 DEF BufferInv, Sorted
  <1>8. At(m, j) < At(n, k) => h < i
    BY <1>1, Increasing
  <1>9. At(n, k) <= pos
    BY HoldsClass
  <1>10. h < i /\ m # n => LastAt(m) <= pos
    BY <1>2, <1>3, <1>4, <1>6, <1>7, <1>9
  <1>11. h < i /\ j + 1 \in 1..Size(m) => At(m, j + 1) <= pos
    <2>1. j + 1 \in 1..Size(m) => At(m, j + 1) = At(m, j) + 1
      <3>1. /\ j + 1 \in 1..Size(m) => At(m, j + 1) = At(m, 1) + ((j + 1) - 1)
            /\ At(m, j) = At(m, 1) + (j - 1)
        BY <1>0, Places
      <3> QED BY <1>2, <3>1
    <2> QED BY <1>2, <1>7, <1>9, <2>1
  <1>12. h = i => m = n /\ j = k
    BY <1>0, <1>1, PlaceOnce
  <1> QED BY <1>2, <1>5, <1>6, <1>7, <1>8, <1>10, <1>11, <1>12

-----------------------------------------------------------------------------
(* The matches *)

\* Unit n is in the buffer, from i on.
Stands(i, n) ==
    i \in DOMAIN buffer /\ \A k \in 1..Size(n) : Holds(i + (k - 1), n, k)

Leftmost(ms, m) == m \in ms /\ \A o \in ms : m[1] <= o[1]

\* The match m is unit n, the first of its kind in the buffer; the digits
\* that are left of a torn heartbeat can stand before it.
Spanned(m, n) ==
    /\ n \in AllUnits /\ Arrived(n)
    /\ m \in Spans /\ m[1] <= m[2]
    /\ Stands(m[2] - (Size(n) - 1), n)
    /\ \/ m[1] = m[2] - (Size(n) - 1)
       \/ /\ m[1] = m[2] - Size(n)
          /\ stream[n] = "beat" /\ stream[1] = "torn_beat" /\ Holds(m[1], 1, 2)
    /\ \A l \in Sent(stream[n]) : l < n => Gone(l)

Kinds == {"line", "beat", "boot"}

LEMMA SentUnits ==
    ASSUME stream \in Streams, NEW u
    PROVE  /\ \A n : n \in Sent(u) <=> n \in AllUnits /\ stream[n] = u
           /\ \A n \in AllUnits : stream[n] \in Units
           /\ \A n \in AllUnits : stream[n] \in Torn => n = 1
           /\ \A n \in AllUnits : stream[n] \in Kinds \union Torn
           /\ \A m, n \in AllUnits : stream[m] \in Torn => stream[n] # "boot"
           /\ \A n \in AllUnits : n \in Nat \ {0}
  BY StreamUnits DEF Sent, AllUnits, Units, Kinds

LEMMA Sizes ==
    ASSUME stream \in Streams, NEW n \in AllUnits
    PROVE  /\ stream[n] = "line" => Size(n) = 4
           /\ stream[n] = "torn_line" => Size(n) = 3
           /\ stream[n] = "beat" => Size(n) = 4
           /\ stream[n] = "torn_beat" => Size(n) = 2
           /\ stream[n] = "boot" => Size(n) = 2
           /\ Size(n) \in Nat \ {0}
  BY UnitClasses, Places DEF Size

LEMMA MatchesAre ==
    /\ Matches("line") = LineMatches
    /\ Matches("beat") = BeatMatches
    /\ Matches("boot") = BootMatches
  BY DEF Matches

LEMMA FoundLeftmost ==
    ASSUME BufferInv, NEW u \in Kinds, Matches(u) # {}
    PROVE  Leftmost(Matches(u), Found(Matches(u)))
  <1> DEFINE T == {m[1] : m \in Matches(u)}
  <1>1. Matches(u) \subseteq Spans
    BY DEF Matches, LineMatches, BeatMatches, BootMatches, Kinds
  <1>2. T \subseteq Nat /\ T # {}
    <2>1. \A m \in Spans : m[1] \in Nat
      BY Increasing DEF Spans
    <2> QED BY <1>1, <2>1
  <1>3. PICK x \in T : \A y \in T : x <= y
    <2> HIDE DEF T
    <2> QED BY <1>2, Least
  <1>4. PICK m \in Matches(u) : \A o \in Matches(u) : m[1] <= o[1]
    BY <1>3
  <1> QED BY <1>4 DEF Found, Leftmost

\* A unit of the buffer that arrived is there whole, and is a match.
LEMMA UnitStands ==
    ASSUME BufferInv, NEW n \in AllUnits, NEW k \in 1..Size(n), NEW i,
           Holds(i, n, k), stream[n] # "torn_beat", Arrived(n)
    PROVE  Stands(i - (k - 1), n)
  <1>1. k \in Int /\ i \in Int
    BY HoldsClass
  <1>2. ASSUME NEW j \in 1..Size(n)
        PROVE  Holds((i - (k - 1)) + (j - 1), n, j)
    <2>1. At(n, j) <= pos
      <3>1. At(n, j) <= LastAt(n) /\ At(n, j) \in Nat /\ LastAt(n) \in Nat
        BY Places DEF BufferInv
      <3>2. LastAt(n) <= pos /\ pos \in Nat
        BY Increasing DEF Arrived
      <3> QED BY <3>1, <3>2
    <2>2. Holds(i + (j - k), n, j)
      BY <2>1, UnitTogether
    <2>3. (i - (k - 1)) + (j - 1) = i + (j - k)
      BY <1>1
    <2> QED BY <2>2, <2>3
  <1>3. i - (k - 1) \in DOMAIN buffer
    <2>1. 1 \in 1..Size(n)
      BY Sizes DEF BufferInv
    <2>2. Holds((i - (k - 1)) + (1 - 1), n, 1)
      BY <1>2, <2>1
    <2>3. (i - (k - 1)) + (1 - 1) = i - (k - 1)
      BY <1>1
    <2> QED BY <2>2, <2>3 DEF Holds
  <1> QED BY <1>2, <1>3 DEF Stands

LEMMA StandsMatch ==
    ASSUME BufferInv, NEW n \in AllUnits, stream[n] \in Kinds,
           NEW i, Stands(i, n)
    PROVE  /\ i \in Nat \ {0} /\ Holds(i, n, 1)
           /\ <<i, i + (Size(n) - 1)>> \in Matches(stream[n])
  <1>1. stream \in Streams
    BY DEF BufferInv
  <1>2. Size(n) \in {2, 4}
    BY <1>1, Sizes DEF Kinds
  <1>3. Holds(i + (1 - 1), n, 1)
    BY <1>2 DEF Stands
  <1>4. i \in Nat \ {0} /\ i + (1 - 1) = i
    BY Increasing DEF Stands
  <1>5. i \in Nat \ {0} /\ Holds(i, n, 1)
    BY <1>3, <1>4
  <1>6. Holds(i + 1, n, 2)
    <2>1. Holds(i + (2 - 1), n, 2)
      BY <1>2 DEF Stands
    <2> QED BY <2>1
  <1>7. buffer[i].c = Classes(stream[n])[1] /\ buffer[i + 1].c = Classes(stream[n])[2]
    BY <1>2, <1>5, <1>6, HoldsClass
  <1>8. CASE stream[n] = "boot"
    <2>1. i \in DOMAIN buffer /\ i + 1 \in DOMAIN buffer /\ Size(n) = 2
      BY <1>1, <1>5, <1>6, <1>8, Sizes DEF Holds
    <2>2. <<i, i + 1>> \in BootMatches
      BY <1>7, <1>8, <2>1, UnitClasses DEF BootMatches, Spans
    <2> QED BY <1>5, <1>8, <2>1, <2>2 DEF Matches
  <1>9. CASE stream[n] # "boot"
    <2>0. Size(n) = 4
      BY <1>1, <1>9, Sizes DEF Kinds
    <2>1. Holds(i + 2, n, 3) /\ Holds(i + 3, n, 4)
      <3>1. Holds(i + (3 - 1), n, 3) /\ Holds(i + (4 - 1), n, 4)
        BY <2>0 DEF Stands
      <3> QED BY <3>1
    <2>2. /\ i \in DOMAIN buffer /\ i + 1 \in DOMAIN buffer
          /\ i + 2 \in DOMAIN buffer /\ i + 3 \in DOMAIN buffer
      BY <1>5, <1>6, <2>1 DEF Holds
    <2>3. /\ buffer[i + 2].c = Classes(stream[n])[3]
          /\ buffer[i + 3].c = Classes(stream[n])[4]
      BY <2>0, <2>1, HoldsClass
    <2>4. <<i, i + 3>> \in Spans
      BY <2>2 DEF Spans
    <2>5. /\ (i + 3) - 1 = i + 2 /\ (i + 3) - 2 = i + 1 /\ (i + 3) - 3 = i
          /\ i + 2 <= i + 3 /\ i + 3 <= i + 3 /\ i + (Size(n) - 1) = i + 3
      BY <1>5, <2>0
    <2>8. <<i, i + (Size(n) - 1)>> = <<i, i + 3>>
      BY <2>5
    <2>6. CASE stream[n] = "line"
      <3>1. \A h \in (i + 1)..(i + 1) : buffer[h].c \notin {"LF", "CR"}
        <4>1. \A h \in (i + 1)..(i + 1) : h = i + 1
          BY <1>5
        <4>2. buffer[i + 1].c = "text"
          BY <1>7, <2>6, UnitClasses
        <4> QED BY <4>1, <4>2
      <3>2. /\ buffer[i].c = "LF" /\ buffer[i + 2].c = "CR"
            /\ buffer[i + 3].c = "LF"
        BY <1>7, <2>3, <2>6, UnitClasses
      <3>3. <<i, i + 3>> \in LineMatches
        BY <2>4, <2>5, <3>1, <3>2 DEF LineMatches
      <3>4. Matches(stream[n]) = LineMatches
        BY <2>6, MatchesAre
      <3> QED BY <1>5, <2>8, <3>3, <3>4
    <2>7. CASE stream[n] = "beat"
      <3>1. \A h \in i..i : buffer[h].c = "hex"
        <4>1. \A h \in i..i : h = i
          BY <1>5
        <4>2. buffer[i].c = "hex"
          BY <1>7, <2>7, UnitClasses
        <4> QED BY <4>1, <4>2
      <3>2. /\ buffer[i + 1].c = "heartbeat" /\ buffer[i + 2].c = "00-16-"
            /\ buffer[i + 3].c = "hex"
        BY <1>7, <2>3, <2>7, UnitClasses
      <3>3. <<i, i + 3>> \in BeatMatches
        BY <2>4, <2>5, <3>1, <3>2 DEF BeatMatches
      <3>4. Matches(stream[n]) = BeatMatches
        BY <2>7, MatchesAre
      <3> QED BY <1>5, <2>8, <3>3, <3>4
    <2> QED BY <1>9, <2>6, <2>7 DEF Kinds
  <1> QED BY <1>5, <1>8, <1>9

\* What is kept of a unit that arrived whole, is kept whole.
LEMMA KeptStands ==
    ASSUME BufferInv, NEW n \in AllUnits, stream[n] \in Kinds,
           Arrived(n), ~Gone(n)
    PROVE  \E i : Stands(i, n)
  <1>1. /\ Size(n) \in Nat \ {0} /\ Size(n) \in 1..Size(n)
        /\ At(n, Size(n)) = LastAt(n)
    BY Places, Sizes DEF BufferInv
  <1>2. PICK i : Holds(i, n, Size(n))
    BY <1>1 DEF Gone, Kept, Holds
  <1>3. Stands(i - (Size(n) - 1), n)
    BY <1>1, <1>2, UnitStands DEF Kinds
  <1> QED BY <1>3

\* A unit of the kind before the leftmost match is not there any more.
LEMMA NoneBefore ==
    ASSUME BufferInv, NEW n \in AllUnits, stream[n] \in Kinds,
           NEW m, Leftmost(Matches(stream[n]), m),
           NEW i, Stands(i, n),
           \/ m[1] = i
           \/ m[1] = i - 1 /\ Holds(m[1], 1, 2) /\ stream[1] = "torn_beat"
    PROVE  \A l \in Sent(stream[n]) : l < n => Gone(l)
  <1> SUFFICES ASSUME NEW l \in Sent(stream[n]), l < n, ~Gone(l) PROVE FALSE
    OBVIOUS
  <1>1. l \in AllUnits /\ stream[l] = stream[n] /\ l \in Nat /\ n \in Nat
    BY SentUnits DEF BufferInv
  <1>2. Holds(i, n, 1) /\ 1 \in 1..Size(n) /\ 1 \in 1..Size(l) /\ i \in Nat
    <2>1. stream \in Streams
      BY DEF BufferInv
    <2>2. Holds(i, n, 1) /\ i \in Nat
      BY StandsMatch
    <2> QED BY <1>1, <2>1, <2>2, Sizes
  <1>3. Arrived(l)
    <2>1. LastAt(l) < At(n, 1)
      BY <1>1, Places DEF BufferInv
    <2>2. At(n, 1) <= pos
      BY <1>2, HoldsClass
    <2>3. LastAt(l) \in Nat /\ At(n, 1) \in Nat /\ pos \in Nat
      BY <1>1, Places, Increasing DEF BufferInv
    <2> QED BY <2>1, <2>2, <2>3 DEF Arrived
  <1>4. PICK j : Stands(j, l)
    BY <1>1, <1>3, KeptStands
  <1>5. /\ j \in Nat /\ Holds(j, l, 1)
        /\ <<j, j + (Size(l) - 1)>> \in Matches(stream[n])
    BY <1>1, <1>4, StandsMatch
  <1>6. j < i
    BY <1>1, <1>2, <1>5, HoldsOrder
  <1>7. m[1] <= j
    BY <1>5 DEF Leftmost
  <1>8. m[1] = i - 1 /\ j = i - 1
        /\ Holds(m[1], 1, 2) /\ stream[1] = "torn_beat"
    BY <1>2, <1>5, <1>6, <1>7
  <1>9. stream \in Streams /\ 1 \in AllUnits
    BY <1>1, SentUnits DEF BufferInv, AllUnits
  <1>10. 2 \in 1..Size(1)
    BY <1>8, <1>9, Sizes
  <1>11. l = 1
    BY <1>1, <1>2, <1>5, <1>8, <1>9, <1>10, HoldsOrder
  <1> QED BY <1>1, <1>8, <1>11 DEF Kinds

\* A byte of the buffer, with what its class says of it.
LEMMA ByteUnit ==
    ASSUME BufferInv, NEW i \in DOMAIN buffer
    PROVE  \E n \in AllUnits : \E k \in 1..Size(n) :
              LET c == buffer[i].c
                  u == stream[n]
              IN  /\ Holds(i, n, k)
                  /\ c = "LF" => \/ u = "line" /\ k \in {1, 4}
                                 \/ u = "torn_line" /\ k = 3
                  /\ c = "CR" => \/ u = "line" /\ k = 3
                                 \/ u = "torn_line" /\ k = 2
                                 \/ u = "boot" /\ k = 2
                  /\ c = "hex" => \/ u = "beat" /\ k \in {1, 4}
                                  \/ u = "torn_beat" /\ k = 2
                  /\ c = "heartbeat" => u = "beat" /\ k = 2
                  /\ c = "x02A" => u = "boot" /\ k = 1
  <1>1. PICK n \in AllUnits : \E k \in 1..Size(n) : Holds(i, n, k)
    BY Owner
  <1>2. PICK k \in 1..Size(n) : Holds(i, n, k)
    BY <1>1
  <1>3. buffer[i].c = Classes(stream[n])[k] /\ stream[n] \in Units
        /\ k \in 1..Len(Classes(stream[n]))
    BY <1>2, HoldsClass DEF Size
  <1> QED BY <1>2, <1>3, ClassPlaces

\* What is in a unit that stands, byte by byte.
LEMMA StandsBytes ==
    ASSUME BufferInv, NEW n \in AllUnits, NEW i, Stands(i, n)
    PROVE  /\ i \in Nat \ {0} /\ Holds(i, n, 1)
           /\ \A k \in 1..Size(n) :
                 /\ i + (k - 1) \in DOMAIN buffer
                 /\ buffer[i + (k - 1)].c = Classes(stream[n])[k]
           /\ Arrived(n)
  <1>1. i \in Nat \ {0}
    BY Increasing DEF Stands
  <1>2. \A k \in 1..Size(n) : Holds(i + (k - 1), n, k)
    BY DEF Stands
  <1>3. 1 \in 1..Size(n) /\ Size(n) \in 1..Size(n) /\ At(n, Size(n)) = LastAt(n)
    BY Sizes, Places DEF BufferInv
  <1>4. Holds(i, n, 1)
    BY <1>1, <1>2, <1>3
  <1>5. Arrived(n)
    BY <1>2, <1>3, HoldsClass DEF Arrived
  <1>6. ASSUME NEW k \in 1..Size(n)
        PROVE  /\ i + (k - 1) \in DOMAIN buffer
               /\ buffer[i + (k - 1)].c = Classes(stream[n])[k]
    <2>1. Holds(i + (k - 1), n, k)
      BY <1>2
    <2> QED BY <2>1, HoldsClass DEF Holds
  <1> QED BY <1>1, <1>4, <1>5, <1>6

\* Spanned, from where the unit stands.
LEMMA Spans1 ==
    ASSUME BufferInv, NEW n \in AllUnits, stream[n] \in Kinds,
           NEW m \in Spans, Leftmost(Matches(stream[n]), m), m[1] <= m[2],
           Stands(m[2] - (Size(n) - 1), n),
           \/ m[1] = m[2] - (Size(n) - 1)
           \/ /\ m[1] = m[2] - Size(n)
              /\ stream[n] = "beat" /\ stream[1] = "torn_beat"
              /\ Holds(m[1], 1, 2)
    PROVE  Spanned(m, n)
  <1>1. Size(n) \in Nat /\ m[2] \in Nat
    BY Sizes, Increasing DEF BufferInv, Spans
  <1>2. (m[2] - (Size(n) - 1)) - 1 = m[2] - Size(n)
    BY <1>1
  <1>3. \A l \in Sent(stream[n]) : l < n => Gone(l)
    BY <1>2, NoneBefore
  <1>4. Arrived(n)
    BY StandsBytes
  <1> QED BY <1>3, <1>4 DEF Spanned

LEMMA BootSpan ==
    ASSUME BufferInv, NEW m, Leftmost(BootMatches, m)
    PROVE  \E n \in AllUnits : stream[n] = "boot" /\ Spanned(m, n)
  <1>0. stream \in Streams
    BY DEF BufferInv
  <1>1. /\ m \in Spans /\ m[2] = m[1] + 1 /\ buffer[m[1]].c = "x02A"
        /\ m[1] \in DOMAIN buffer /\ m[2] \in DOMAIN buffer
        /\ m[1] \in Nat /\ m[2] \in Nat
    BY Increasing DEF Leftmost, BootMatches, Spans
  <1>2. PICK n \in AllUnits : Holds(m[1], n, 1) /\ stream[n] = "boot"
    BY <1>1, ByteUnit
  <1>3. Size(n) = 2 /\ 1 \in 1..Size(n) /\ 2 \in 1..Size(n) /\ 1 + 1 = 2
    BY <1>0, <1>2, Sizes
  <1>4. PICK l \in AllUnits : \E k \in 1..Size(l) : Holds(m[2], l, k)
    BY <1>1, Owner
  <1>5. At(n, 1 + 1) <= pos
    <2>1. PICK k \in 1..Size(l) : Holds(m[2], l, k)
      BY <1>4
    <2>2. m[1] < m[2] /\ 1 + 1 \in 1..Size(n)
      BY <1>1, <1>3
    <2> QED BY <1>2, <1>3, <2>1, <2>2, HoldsOrder
  <1>6. Arrived(n)
    BY <1>0, <1>3, <1>5, Places DEF Arrived
  <1>7. Stands(m[1] - (1 - 1), n)
    BY <1>2, <1>3, <1>6, UnitStands
  <1>8. m[1] - (1 - 1) = m[2] - (Size(n) - 1) /\ m[1] = m[2] - (Size(n) - 1)
        /\ m[1] <= m[2]
    BY <1>1, <1>3
  <1>9. stream[n] \in Kinds /\ Matches(stream[n]) = BootMatches
    BY <1>2, MatchesAre DEF Kinds
  <1>10. Spanned(m, n)
    BY <1>1, <1>7, <1>8, <1>9, Spans1
  <1> QED BY <1>2, <1>10

LEMMA LineSpan ==
    ASSUME BufferInv, NEW m, Leftmost(LineMatches, m)
    PROVE  \E n \in AllUnits : stream[n] = "line" /\ Spanned(m, n)
  <1>0. stream \in Streams
    BY DEF BufferInv
  <1> DEFINE c == m[2] - 1
  <1>1. /\ m \in Spans /\ m[1] + 2 <= m[2]
        /\ buffer[m[1]].c = "LF" /\ buffer[c].c = "CR"
        /\ \A i \in (m[1] + 1)..(c - 1) : buffer[i].c \notin {"LF", "CR"}
    <2>1. m \in LineMatches
      BY DEF Leftmost
    <2>2. m \in Spans
      BY <2>1 DEF LineMatches
    <2>3. m[2] \in Nat
      BY <2>2, Increasing DEF Spans
    <2>4. m[2] - 2 = c - 1
      BY <2>3
    <2> QED BY <2>1, <2>2, <2>4 DEF LineMatches
  <1>2. /\ m[1] \in DOMAIN buffer /\ m[2] \in DOMAIN buffer
        /\ m[1] \in Nat /\ m[2] \in Nat /\ c \in Nat /\ m[1] <= c - 1
        /\ c \in DOMAIN buffer /\ m[1] <= m[2] /\ c < m[2] /\ c = m[2] - 1
    BY <1>1, Increasing DEF Spans
  <1> HIDE DEF c
  <1>3. PICK n \in AllUnits : \E k \in 1..Size(n) :
            /\ Holds(c, n, k)
            /\ \/ stream[n] = "line" /\ k = 3
               \/ stream[n] = "torn_line" /\ k = 2
               \/ stream[n] = "boot" /\ k = 2
    BY <1>1, <1>2, ByteUnit
  <1>4. PICK a \in AllUnits : \E b \in 1..Size(a) :
            /\ Holds(m[1], a, b)
            /\ \/ stream[a] = "line" /\ b \in {1, 4}
               \/ stream[a] = "torn_line" /\ b = 3
    BY <1>1, <1>2, ByteUnit
  <1>5. PICK b \in 1..Size(a) :
            /\ Holds(m[1], a, b)
            /\ \/ stream[a] = "line" /\ b \in {1, 4}
               \/ stream[a] = "torn_line" /\ b = 3
    BY <1>4
  <1>6. CASE stream[n] = "line" /\ Holds(c, n, 3)
    <2>1. Size(n) = 4 /\ 3 \in 1..Size(n) /\ 3 + 1 \in 1..Size(n) /\ 3 + 1 = 4
      BY <1>0, <1>6, Sizes
    <2>2. Arrived(n)
      <3>1. PICK o \in AllUnits : \E h \in 1..Size(o) : Holds(m[2], o, h)
        BY <1>2, Owner
      <3>2. PICK h \in 1..Size(o) : Holds(m[2], o, h)
        BY <3>1
      <3>3. At(n, 3 + 1) <= pos
        BY <1>2, <1>6, <2>1, <3>2, HoldsOrder
      <3> QED BY <1>0, <2>1, <3>3, Places DEF Arrived
    <2>3. Stands(c - (3 - 1), n)
      BY <1>6, <2>1, <2>2, UnitStands
    <2>4. c - (3 - 1) = m[2] - (Size(n) - 1)
      BY <1>2, <2>1
    <2>5. buffer[c - 2].c = "LF" /\ buffer[c - 1].c = "text"
      <3>1. /\ (c - (3 - 1)) + (1 - 1) = c - 2 /\ (c - (3 - 1)) + (2 - 1) = c - 1
            /\ 1 \in 1..Size(n) /\ 2 \in 1..Size(n)
        BY <1>2, <2>1
      <3>2. /\ buffer[(c - (3 - 1)) + (1 - 1)].c = Classes(stream[n])[1]
            /\ buffer[(c - (3 - 1)) + (2 - 1)].c = Classes(stream[n])[2]
        BY <2>3, <3>1, StandsBytes
      <3> QED BY <1>6, <3>1, <3>2, UnitClasses
    <2>6. m[1] # c - 1
      BY <1>1, <2>5
    <2>7. ~(m[1] < c - 2)
      <3> SUFFICES ASSUME m[1] < c - 2 PROVE FALSE
        OBVIOUS
      <3>1. c - 2 \in (m[1] + 1)..(c - 1)
        BY <1>2
      <3> QED BY <1>1, <2>5, <3>1
    <2>8. m[1] = m[2] - (Size(n) - 1)
      BY <1>2, <2>1, <2>6, <2>7
    <2>9. stream[n] \in Kinds /\ Matches(stream[n]) = LineMatches
      BY <1>6, MatchesAre DEF Kinds
    <2>10. Spanned(m, n)
      BY <1>1, <1>2, <2>3, <2>4, <2>8, <2>9, Spans1
    <2> QED BY <1>6, <2>10
  <1>7. CASE stream[n] = "torn_line" /\ Holds(c, n, 2)
    <2>1. n = 1 /\ Size(n) = 3 /\ 1 \in 1..Size(n) /\ 2 \in 1..Size(n)
      BY <1>0, <1>7, Sizes, SentUnits DEF Torn
    <2>2. At(n, 1) <= pos /\ At(n, 1) \in Nat
      <3>1. At(n, 2) <= pos /\ At(n, 2) = At(n, 1) + (2 - 1)
            /\ At(n, 1) \in Nat /\ pos \in Nat
        BY <1>0, <1>7, <2>1, HoldsClass, Places, Increasing
      <3> QED BY <3>1
    <2>3. Holds(c + (1 - 2), n, 1) /\ c + (1 - 2) = c - 1
      BY <1>2, <1>7, <2>1, <2>2, UnitTogether
    <2>4. buffer[c - 1].c = "text"
      BY <1>7, <2>1, <2>3, HoldsClass, UnitClasses
    <2>5. m[1] < c - 1
      BY <1>1, <1>2, <2>4
    <2>6. a <= n /\ At(a, b) < At(n, 1)
      BY <1>5, <2>1, <2>3, <2>5, HoldsOrder
    <2>7. a = n
      BY <1>0, <2>1, <2>6, SentUnits
    <2>8. At(n, b) = At(n, 1) + (b - 1) /\ b \in Nat /\ 1 <= b
      BY <1>0, <1>5, <2>1, <2>7, Places
    <2> QED BY <2>2, <2>6, <2>7, <2>8
  <1>8. CASE stream[n] = "boot" /\ Holds(c, n, 2)
    <2>1. Size(n) = 2 /\ 1 \in 1..Size(n) /\ 2 \in 1..Size(n)
      BY <1>0, <1>8, Sizes
    <2>2. Arrived(n)
      BY <1>0, <1>8, <2>1, HoldsClass, Places DEF Arrived
    <2>3. Stands(c - (2 - 1), n) /\ (c - (2 - 1)) + (1 - 1) = c - 1
      BY <1>2, <1>8, <2>1, <2>2, UnitStands
    <2>4. buffer[c - 1].c = "x02A"
      BY <1>8, <2>1, <2>3, StandsBytes, UnitClasses
    <2>5. m[1] < c - 1 /\ m[1] < c
      BY <1>1, <1>2, <2>4
    <2>6. stream[a] = "line" /\ b \in {1, 4}
      <3>1. stream[a] \notin Torn
        BY <1>0, <1>8, SentUnits
      <3> QED BY <1>5, <3>1 DEF Torn
    <2>7. Size(a) = 4 /\ \A k \in {1, 2, 3, 4} : k \in 1..Size(a)
      BY <1>0, <2>6, Sizes
    <2>8. Arrived(a)
      BY <1>5, <1>8, <2>1, <2>5, <2>6, HoldsOrder DEF Arrived
    <2>9. CASE b = 1
      <3>1. Stands(m[1] - (1 - 1), a) /\ m[1] - (1 - 1) = m[1]
        BY <1>2, <1>5, <2>6, <2>7, <2>8, <2>9, UnitStands
      <3>2. Holds(m[1] + (3 - 1), a, 3) /\ m[1] + (3 - 1) = m[1] + 2
        BY <1>2, <2>7, <3>1 DEF Stands
      <3>3. buffer[m[1] + 2].c = "CR"
        BY <2>6, <2>7, <3>2, HoldsClass, UnitClasses
      <3>4. m[1] + 2 # c
        <4> SUFFICES ASSUME m[1] + 2 = c PROVE FALSE
          OBVIOUS
        <4>1. a = n
          BY <1>8, <2>1, <2>7, <3>2, HoldsOrder
        <4> QED BY <1>8, <2>6, <4>1
      <3>5. m[1] + 2 \in (m[1] + 1)..(c - 1)
        BY <1>2, <2>5, <3>4
      <3> QED BY <1>1, <3>3, <3>5
    <2>10. CASE b = 4
      <3>1. Stands(m[1] - (4 - 1), a) /\ m[1] - (4 - 1) = m[1] - 3
        BY <1>2, <1>5, <2>6, <2>7, <2>8, <2>10, UnitStands
      <3>2. <<m[1] - 3, (m[1] - 3) + (Size(a) - 1)>> \in Matches(stream[a])
            /\ m[1] - 3 \in Nat
        BY <2>6, <3>1, StandsMatch DEF Kinds
      <3>3. Matches(stream[a]) = LineMatches
        BY <2>6, MatchesAre
      <3>4. m[1] <= m[1] - 3
        BY <3>2, <3>3 DEF Leftmost
      <3> QED BY <1>2, <3>4
    <2> QED BY <2>6, <2>9, <2>10
  <1> QED BY <1>3, <1>6, <1>7, <1>8

LEMMA BeatSpan ==
    ASSUME BufferInv, NEW m, Leftmost(BeatMatches, m)
    PROVE  \E n \in AllUnits : stream[n] = "beat" /\ Spanned(m, n)
  <1>0. stream \in Streams
    BY DEF BufferInv
  <1> DEFINE w == m[2] - 2
  <1>1. /\ m \in Spans /\ m[1] + 3 <= m[2] /\ buffer[w].c = "heartbeat"
        /\ \A i \in m[1]..(w - 1) : buffer[i].c = "hex"
    <2>1. m \in BeatMatches
      BY DEF Leftmost
    <2>2. m \in Spans
      BY <2>1 DEF BeatMatches
    <2>3. m[2] \in Nat
      BY <2>2, Increasing DEF Spans
    <2>4. m[2] - 3 = w - 1
      BY <2>3
    <2> QED BY <2>1, <2>2, <2>4 DEF BeatMatches
  <1>2. /\ m[1] \in DOMAIN buffer /\ m[2] \in DOMAIN buffer
        /\ m[1] \in Nat \ {0} /\ m[2] \in Nat /\ w \in Nat /\ m[1] <= w - 1
        /\ w \in DOMAIN buffer /\ w + 1 \in DOMAIN buffer
        /\ m[1] <= m[2] /\ w = m[2] - 2 /\ w < w + 1 /\ w + 1 < m[2]
        /\ w - 1 < w
    BY <1>1, Increasing DEF Spans
  <1> HIDE DEF w
  <1>3. PICK n \in AllUnits : Holds(w, n, 2) /\ stream[n] = "beat"
    BY <1>1, <1>2, ByteUnit
  <1>4. /\ Size(n) = 4 /\ \A k \in {1, 2, 3, 4} : k \in 1..Size(n)
        /\ 2 + 1 = 3 /\ 3 + 1 = 4
    BY <1>0, <1>3, Sizes
  <1>5. Holds(w + 1, n, 3)
    <2>1. PICK o \in AllUnits : \E h \in 1..Size(o) : Holds(w + 1, o, h)
      BY <1>2, Owner
    <2>2. PICK h \in 1..Size(o) : Holds(w + 1, o, h)
      BY <2>1
    <2>3. At(n, 2 + 1) <= pos
      BY <1>2, <1>3, <1>4, <2>2, HoldsOrder
    <2>4. Holds(w + (3 - 2), n, 3) /\ w + (3 - 2) = w + 1
      BY <1>2, <1>3, <1>4, <2>3, UnitTogether
    <2> QED BY <2>4
  <1>6. Arrived(n)
    <2>1. PICK o \in AllUnits : \E h \in 1..Size(o) : Holds(m[2], o, h)
      BY <1>2, Owner
    <2>2. PICK h \in 1..Size(o) : Holds(m[2], o, h)
      BY <2>1
    <2>3. At(n, 3 + 1) <= pos
      BY <1>2, <1>4, <1>5, <2>2, HoldsOrder
    <2> QED BY <1>0, <1>4, <2>3, Places DEF Arrived
  <1>7. Stands(w - (2 - 1), n) /\ w - (2 - 1) = w - 1
    BY <1>2, <1>3, <1>4, <1>6, UnitStands
  <1>8. w - 1 = m[2] - (Size(n) - 1) /\ w - 2 = m[2] - Size(n)
    BY <1>2, <1>4
  <1>9. Holds(w - 1, n, 1)
    BY <1>7, StandsBytes
  <1>10. \/ m[1] = w - 1
         \/ m[1] = w - 2 /\ stream[1] = "torn_beat" /\ Holds(m[1], 1, 2)
    <2> SUFFICES ASSUME m[1] # w - 1
                 PROVE  /\ m[1] = w - 2
                        /\ stream[1] = "torn_beat" /\ Holds(m[1], 1, 2)
      OBVIOUS
    <2> DEFINE x == w - 2
    <2>1. /\ x \in DOMAIN buffer /\ x \in m[1]..(w - 1) /\ x \in Nat
          /\ x < w - 1 /\ x + 1 = w - 1 /\ m[1] <= x /\ x = w - 2
      <3>1. DOMAIN buffer = 1..Len(buffer) /\ Len(buffer) \in Nat
        BY Increasing
      <3>2. m[1] \in Nat \ {0} /\ w \in 1..Len(buffer) /\ m[1] <= w - 2
            /\ w \in Nat
        BY <1>2, <3>1
      <3> QED BY <3>1, <3>2
    <2> HIDE DEF x
    <2>2. PICK a \in AllUnits : \E b \in 1..Size(a) :
              /\ Holds(x, a, b)
              /\ \/ stream[a] = "beat" /\ b \in {1, 4}
                 \/ stream[a] = "torn_beat" /\ b = 2
      BY <1>1, <2>1, ByteUnit
    <2>3. CASE stream[a] = "beat" /\ Holds(x, a, 1)
      <3>1. Size(a) = 4 /\ 1 \in 1..Size(a) /\ 2 \in 1..Size(a) /\ 1 + 1 = 2
        BY <1>0, <2>3, Sizes
      <3>2. At(a, 1 + 1) <= pos
        BY <1>4, <1>9, <2>1, <2>3, <3>1, HoldsOrder
      <3>3. Holds(x + (2 - 1), a, 2) /\ x + (2 - 1) = w - 1
        BY <2>1, <2>3, <3>1, <3>2, UnitTogether
      <3>4. 2 = 1
        BY <1>4, <1>9, <3>1, <3>3, HoldsOrder
      <3> QED BY <3>4
    <2>4. CASE stream[a] = "beat" /\ Holds(x, a, 4)
      <3>1. Size(a) = 4 /\ \A k \in {1, 2, 3, 4} : k \in 1..Size(a)
        BY <1>0, <2>4, Sizes
      <3>2. Arrived(a)
        BY <1>0, <2>4, <3>1, HoldsClass, Places DEF Arrived
      <3>3. Stands(x - (4 - 1), a) /\ x - (4 - 1) = x - 3
        BY <2>1, <2>4, <3>1, <3>2, UnitStands
      <3>4. buffer[x - 2].c = "heartbeat"
        <4>1. (x - 3) + (2 - 1) = x - 2
          BY <2>1
        <4> QED BY <2>4, <3>1, <3>3, <4>1, StandsBytes, UnitClasses
      <3>5. m[1] <= x - 3
        <4>1. <<x - 3, (x - 3) + (Size(a) - 1)>> \in Matches(stream[a])
          BY <2>4, <3>3, StandsMatch DEF Kinds
        <4>2. Matches(stream[a]) = BeatMatches
          BY <2>4, MatchesAre
        <4> QED BY <4>1, <4>2 DEF Leftmost
      <3>6. x - 2 \in m[1]..(w - 1)
        BY <1>2, <2>1, <3>5
      <3> QED BY <1>1, <3>4, <3>6
    <2>5. CASE stream[a] = "torn_beat" /\ Holds(x, a, 2)
      <3>1. /\ a = 1 /\ stream[a] \in Torn
            /\ Size(a) = 2 /\ 1 \in 1..Size(a) /\ 2 \in 1..Size(a)
        BY <1>0, <2>5, Sizes, SentUnits DEF Torn
      <3>2. /\ At(a, 1) = At(a, 2) - 1 /\ At(a, 1) <= pos
        <4>1. At(a, 2) <= pos /\ At(a, 2) = At(a, 1) + (2 - 1)
              /\ At(a, 1) \in Nat /\ pos \in Nat
          BY <1>0, <2>5, <3>1, HoldsClass, Places, Increasing
        <4> QED BY <4>1
      <3>3. Kept(At(a, 1))
        BY <3>1, <3>2 DEF BufferInv, Whole
      <3>4. Holds(x - 1, a, 1)
        BY <2>1, <2>5, <3>2, <3>3, NextByte DEF Holds
      <3>5. buffer[x - 1].c = "00-16-"
        BY <2>5, <3>1, <3>4, HoldsClass, UnitClasses
      <3>6. x - 1 \notin m[1]..(w - 1)
        BY <1>1, <3>5
      <3>7. m[1] = x
        BY <1>2, <2>1, <3>6
      <3> QED BY <2>1, <2>5, <3>1, <3>7
    <2> QED BY <2>2, <2>3, <2>4, <2>5
  <1>11. stream[n] \in Kinds /\ Matches(stream[n]) = BeatMatches
    BY <1>3, MatchesAre DEF Kinds
  <1>12. Spanned(m, n)
    BY <1>1, <1>2, <1>3, <1>7, <1>8, <1>10, <1>11, Spans1
  <1> QED BY <1>3, <1>12

\* The match the loop of kind u finds.
LEMMA FoundSpan ==
    ASSUME BufferInv, NEW u \in Kinds, Matches(u) # {}
    PROVE  \E n \in Sent(u) : Spanned(Found(Matches(u)), n)
  <1>1. Leftmost(Matches(u), Found(Matches(u)))
    BY FoundLeftmost
  <1>2. \E n \in AllUnits : stream[n] = u /\ Spanned(Found(Matches(u)), n)
    BY <1>1, LineSpan, BeatSpan, BootSpan, MatchesAre DEF Kinds
  <1> QED BY <1>2, SentUnits DEF BufferInv

\* The loop of kind u that finds nothing has nothing left to find.
LEMMA NoneFound ==
    ASSUME BufferInv, NEW u \in Kinds, Matches(u) = {}
    PROVE  \A n \in Sent(u) : Arrived(n) => Gone(n)
  <1> SUFFICES ASSUME NEW n \in Sent(u), Arrived(n), ~Gone(n) PROVE FALSE
    OBVIOUS
  <1>1. n \in AllUnits /\ stream[n] = u
    BY SentUnits DEF BufferInv
  <1>2. \E i : Stands(i, n)
    BY <1>1, KeptStands
  <1> QED BY <1>1, <1>2, StandsMatch

-----------------------------------------------------------------------------
(* What a step does to the buffer *)

\* The digits that a torn heartbeat left went with a whole one.
DigitsTaken ==
    1 \in AllUnits /\ stream[1] = "torn_beat" /\ 2 <= pos /\ ~Kept(2)

LEMMA SameStream ==
    ASSUME stream' = stream
    PROVE  /\ Bytes' = Bytes /\ Byte' = Byte
           /\ AllUnits' = AllUnits /\ LastAt(Ends)' = LastAt(Ends)
           /\ \A n : LastAt(n)' = LastAt(n) /\ Size(n)' = Size(n)
                     /\ Unit(n)' = Unit(n) /\ Packet(n)' = Packet(n)
           /\ \A n, k : At(n, k)' = At(n, k)
           /\ \A u : Sent(u)' = Sent(u)
           /\ \A t, n : IsBeat(t, n)' = IsBeat(t, n)
  <1>1. Bytes' = Bytes
    BY DEF Bytes
  <1>2. \A n : LastAt(n)' = LastAt(n)
    BY DEF LastAt
  <1>3. \A n : Size(n)' = Size(n)
    BY DEF Size
  <1>4. \A n : Unit(n)' = Unit(n)
    BY <1>1, <1>2 DEF Unit
  <1>5. \A n : Packet(n)' = Packet(n)
    BY <1>4 DEF Packet
  <1>6. \A n, k : At(n, k)' = At(n, k)
    BY <1>2 DEF At
  <1>7. \A u : Sent(u)' = Sent(u)
    BY DEF Sent
  <1>8. \A t, n : IsBeat(t, n)' = IsBeat(t, n)
    BY <1>1, <1>4 DEF IsBeat
  <1>9. LastAt(Ends)' = LastAt(Ends) /\ AllUnits' = AllUnits
    BY DEF LastAt, Ends, AllUnits
  <1>10. Byte' = Byte
    BY <1>1 DEF Byte, Names
  <1> QED BY <1>1, <1>2, <1>3, <1>4, <1>5, <1>6, <1>7, <1>8, <1>9, <1>10

CutOf(t, s, a, b) ==
    /\ a \in 1..Len(s) /\ b \in 1..Len(s) /\ a <= b
    /\ t = SubSeq(s, 1, a - 1) \o SubSeq(s, b + 1, Len(s))

LEMMA CutSeq ==
    ASSUME NEW S, NEW s \in Seq(S), NEW a, NEW b, NEW t, CutOf(t, s, a, b)
    PROVE  /\ t \in Seq(S) /\ Len(t) = (a - 1) + (Len(s) - b)
           /\ \A i \in 1..Len(t) : t[i] = IF i < a THEN s[i]
                                          ELSE s[i + (b - (a - 1))]
  <1> DEFINE x == SubSeq(s, 1, a - 1)
             y == SubSeq(s, b + 1, Len(s))
  <1>0. /\ a \in 1..Len(s) /\ b \in 1..Len(s) /\ a <= b
        /\ Len(s) \in Nat /\ a \in Nat /\ b \in Nat
    BY DEF CutOf
  <1>1. /\ x \in Seq(S) /\ Len(x) = a - 1
        /\ \A i \in 1..(a - 1) : x[i] = s[i]
    BY <1>0
  <1>2. /\ y \in Seq(S) /\ Len(y) = Len(s) - b
        /\ \A i \in 1..(Len(s) - b) : y[i] = s[b + i]
    BY <1>0
  <1>3. t = x \o y
    BY DEF CutOf
  <1> HIDE DEF x, y
  <1>4. /\ t \in Seq(S) /\ Len(t) = Len(x) + Len(y)
        /\ \A i \in 1..Len(x) : t[i] = x[i]
        /\ \A i \in 1..Len(y) : t[Len(x) + i] = y[i]
    <2>1. x \in Seq(S) /\ y \in Seq(S)
      BY <1>1, <1>2
    <2> QED BY <1>3, <2>1, JoinFacts
  <1>5. ASSUME NEW i \in 1..Len(t)
        PROVE  t[i] = IF i < a THEN s[i] ELSE s[i + (b - (a - 1))]
    <2>0. Len(x) = a - 1 /\ Len(y) = Len(s) - b /\ Len(t) = Len(x) + Len(y)
      BY <1>1, <1>2, <1>4
    <2>1. CASE i < a
      <3>1. i \in 1..(a - 1)
        BY <1>0, <2>0, <2>1
      <3> QED BY <1>1, <1>4, <2>1, <3>1
    <2>2. CASE ~(i < a)
      <3>1. i - (a - 1) \in 1..(Len(s) - b)
        BY <1>0, <2>0, <2>2
      <3>2. t[(a - 1) + (i - (a - 1))] = s[b + (i - (a - 1))]
        BY <1>1, <1>2, <1>4, <3>1
      <3>3. /\ (a - 1) + (i - (a - 1)) = i
            /\ b + (i - (a - 1)) = i + (b - (a - 1))
        BY <1>0, <2>0
      <3> QED BY <2>2, <3>2, <3>3
    <2> QED BY <2>1, <2>2
  <1> QED BY <1>1, <1>2, <1>4, <1>5

\* The cut leaves the bytes outside the match, in their order.
LEMMA CutBuffer ==
    ASSUME BufferInv, NEW m \in Spans, m[1] <= m[2], buffer' = Cut(m)
    PROVE  /\ buffer' \in Seq(Byte)
           /\ \E f \in [DOMAIN buffer' -> DOMAIN buffer] :
                 /\ \A i \in DOMAIN buffer' : /\ buffer'[i] = buffer[f[i]]
                                              /\ f[i] \notin m[1]..m[2]
                 /\ \A i, j \in DOMAIN buffer' : i < j => f[i] < f[j]
                 /\ \A j \in DOMAIN buffer \ (m[1]..m[2]) :
                       \E i \in DOMAIN buffer' : f[i] = j
  <1> DEFINE a == m[1]
             b == m[2]
             d == b - (a - 1)
  <1>1. /\ a \in 1..Len(buffer) /\ b \in 1..Len(buffer) /\ a <= b
        /\ buffer \in Seq(Byte) /\ Len(buffer) \in Nat
        /\ DOMAIN buffer = 1..Len(buffer)
    BY Increasing DEF BufferInv, Spans
  <1>2. CutOf(buffer', buffer, a, b)
    BY <1>1 DEF Cut, CutOf
  <1> HIDE DEF a, b
  <1>3. /\ buffer' \in Seq(Byte) /\ Len(buffer') = (a - 1) + (Len(buffer) - b)
        /\ \A i \in 1..Len(buffer') : buffer'[i] = IF i < a THEN buffer[i]
                                                   ELSE buffer[i + d]
    <2>1. buffer \in Seq(Byte)
      BY <1>1
    <2>2. \A t : CutOf(t, buffer, a, b) =>
            /\ t \in Seq(Byte) /\ Len(t) = (a - 1) + (Len(buffer) - b)
            /\ \A i \in 1..Len(t) : t[i] = IF i < a THEN buffer[i]
                                           ELSE buffer[i + (b - (a - 1))]
      BY <2>1, CutSeq
    <2> QED BY <1>2, <2>2
  <1>4. DOMAIN buffer' = 1..Len(buffer') /\ Len(buffer') \in Nat
    BY <1>3
  <1> DEFINE f == [i \in DOMAIN buffer' |-> IF i < a THEN i ELSE i + d]
  <1>5. ASSUME NEW i \in DOMAIN buffer'
        PROVE  /\ f[i] \in DOMAIN buffer /\ buffer'[i] = buffer[f[i]]
               /\ f[i] \notin a..b
    <2>1. i \in 1..Len(buffer')
      BY <1>4
    <2>2. CASE i < a
      <3>1. i \in 1..Len(buffer) /\ i \notin a..b
        BY <1>1, <2>1, <2>2
      <3> QED BY <1>1, <1>3, <2>1, <2>2, <3>1
    <2>3. CASE ~(i < a)
      <3>1. i + d \in 1..Len(buffer) /\ i + d \notin a..b
        BY <1>1, <1>3, <2>1, <2>3
      <3> QED BY <1>1, <1>3, <2>1, <2>3, <3>1
    <2> QED BY <2>2, <2>3
  <1>6. \A i, j \in DOMAIN buffer' : i < j => f[i] < f[j]
    <2>1. d \in Nat /\ a \in Nat
      BY <1>1
    <2>2. \A i, j \in Nat : i < j => (IF i < a THEN i ELSE i + d)
                                        < (IF j < a THEN j ELSE j + d)
      <3> HIDE DEF d
      <3> QED BY <2>1
    <2> QED BY <1>4, <2>2
  <1>7. ASSUME NEW j \in DOMAIN buffer \ (a..b)
        PROVE  \E i \in DOMAIN buffer' : f[i] = j
    <2>1. j \in 1..Len(buffer) /\ (j < a \/ b < j)
      BY <1>1
    <2>2. CASE j < a
      <3>1. j \in DOMAIN buffer'
        BY <1>1, <1>3, <1>4, <2>1, <2>2
      <3>2. f[j] = j
        BY <2>2, <3>1
      <3> QED BY <3>1, <3>2
    <2>3. CASE b < j
      <3>1. j - d \in DOMAIN buffer' /\ ~(j - d < a) /\ (j - d) + d = j
        BY <1>1, <1>3, <1>4, <2>1, <2>3
      <3>2. f[j - d] = j
        BY <3>1
      <3> QED BY <3>1, <3>2
    <2> QED BY <2>1, <2>2, <2>3
  <1>8. f \in [DOMAIN buffer' -> DOMAIN buffer]
    BY <1>5
  <1> HIDE DEF f
  <1> QED BY <1>3, <1>5, <1>6, <1>7, <1>8 DEF a, b

\* What stays when the match of unit n is cut out.
LEMMA CutKept ==
    ASSUME BufferInv, NEW m, NEW n, Spanned(m, n), buffer' = Cut(m)
    PROVE  \A p : Kept(p)' <=>
              /\ Kept(p) /\ \A k \in 1..Size(n) : p # At(n, k)
              /\ m[1] = m[2] - Size(n) => p # At(1, 2)
  <1> DEFINE s == Size(n)
  <1>1. /\ m \in Spans /\ m[1] <= m[2] /\ n \in AllUnits
        /\ m[1] \in DOMAIN buffer /\ m[2] \in DOMAIN buffer
        /\ Stands(m[2] - (s - 1), n)
        /\ \/ m[1] = m[2] - (s - 1)
           \/ m[1] = m[2] - s /\ Holds(m[1], 1, 2)
    BY DEF Spanned, Spans
  <1>2. s \in Nat \ {0} /\ m[1] \in Nat /\ m[2] \in Nat
    BY <1>1, Sizes, Increasing DEF BufferInv
  <1>3. \A k \in 1..s : Holds((m[2] - (s - 1)) + (k - 1), n, k)
    BY <1>1 DEF Stands
  <1> HIDE DEF s
  <1> DEFINE Out(p) == \/ \E k \in 1..s : p = At(n, k)
                       \/ m[1] = m[2] - s /\ p = At(1, 2)
  <1>4. ASSUME NEW i \in m[1]..m[2] PROVE Out(buffer[i].at)
    <2>1. CASE i >= m[2] - (s - 1)
      <3>1. /\ i - (m[2] - (s - 1)) + 1 \in 1..s
            /\ (m[2] - (s - 1)) + ((i - (m[2] - (s - 1)) + 1) - 1) = i
        BY <1>2, <2>1
      <3>2. Holds(i, n, i - (m[2] - (s - 1)) + 1)
        BY <1>3, <3>1
      <3> QED BY <3>1, <3>2 DEF Holds
    <2>2. CASE i < m[2] - (s - 1)
      <3>1. m[1] = m[2] - s /\ i = m[1] /\ Holds(m[1], 1, 2)
        BY <1>1, <1>2, <2>2
      <3> QED BY <3>1 DEF Holds
    <2> QED BY <1>2, <2>1, <2>2
  <1>5. ASSUME NEW i \in DOMAIN buffer, Out(buffer[i].at) PROVE i \in m[1]..m[2]
    <2>1. ASSUME NEW k \in 1..s, buffer[i].at = At(n, k) PROVE i \in m[1]..m[2]
      <3>1. Holds((m[2] - (s - 1)) + (k - 1), n, k)
        BY <1>3
      <3>2. i = (m[2] - (s - 1)) + (k - 1)
        BY <2>1, <3>1, Increasing DEF Holds
      <3> QED BY <1>1, <1>2, <3>2
    <2>2. ASSUME m[1] = m[2] - s, buffer[i].at = At(1, 2) PROVE i \in m[1]..m[2]
      <3>1. Holds(m[1], 1, 2)
        BY <1>1, <1>2, <2>2
      <3>2. i = m[1]
        BY <2>2, <3>1, Increasing DEF Holds
      <3> QED BY <1>1, <1>2, <3>2
    <2> QED BY <1>5, <2>1, <2>2
  <1>6. PICK f \in [DOMAIN buffer' -> DOMAIN buffer] :
            /\ \A i \in DOMAIN buffer' : /\ buffer'[i] = buffer[f[i]]
                                         /\ f[i] \notin m[1]..m[2]
            /\ \A j \in DOMAIN buffer \ (m[1]..m[2]) :
                  \E i \in DOMAIN buffer' : f[i] = j
    BY <1>1, CutBuffer
  <1> SUFFICES ASSUME NEW p PROVE Kept(p)' <=> Kept(p) /\ ~Out(p)
    BY DEF s
  <1> HIDE DEF Out
  <1>7. ASSUME Kept(p)' PROVE Kept(p) /\ ~Out(p)
    <2>1. PICK i \in DOMAIN buffer' : buffer'[i].at = p
      BY <1>7 DEF Kept
    <2>2. f[i] \in DOMAIN buffer /\ buffer[f[i]].at = p /\ f[i] \notin m[1]..m[2]
      BY <1>6, <2>1
    <2> QED BY <1>5, <2>2 DEF Kept
  <1>8. ASSUME Kept(p), ~Out(p) PROVE Kept(p)'
    <2>1. PICK j \in DOMAIN buffer : buffer[j].at = p
      BY <1>8 DEF Kept
    <2>2. j \in DOMAIN buffer \ (m[1]..m[2])
      BY <1>4, <1>8, <2>1
    <2>3. PICK i \in DOMAIN buffer' : f[i] = j
      BY <1>6, <2>2
    <2>4. buffer'[i].at = p
      BY <1>6, <2>1, <2>3
    <2> QED BY <2>4 DEF Kept
  <1> QED BY <1>7, <1>8

LEMMA CutKeeps ==
    ASSUME BufferInv, NEW m, NEW n, Spanned(m, n), stream[n] \in Kinds,
           buffer' = Cut(m), stream' = stream, pos' = pos
    PROVE  /\ BufferInv'
           /\ \A l \in AllUnits :
                 stream[l] \in Kinds => (Gone(l)' <=> Gone(l) \/ l = n)
           /\ \A l : Arrived(l)' <=> Arrived(l)
           /\ Arrived(n) /\ ~Gone(n)
           /\ DigitsTaken' <=> DigitsTaken \/ m[1] = m[2] - Size(n)
           /\ m[1] = m[2] - Size(n) =>
                 ~DigitsTaken /\ stream[1] = "torn_beat" /\ 1 \in AllUnits
                 /\ At(1, 2) = 2
  <1>0. /\ stream \in Streams /\ n \in AllUnits /\ Arrived(n)
        /\ m \in Spans /\ m[1] <= m[2] /\ pos \in Nat
    BY Increasing DEF BufferInv, Spanned
  <1> DEFINE Two == m[1] = m[2] - Size(n)
  <1>1. \A p : Kept(p)' <=> /\ Kept(p) /\ \A k \in 1..Size(n) : p # At(n, k)
                            /\ Two => p # At(1, 2)
    BY CutKept
  <1>2. /\ 1 \in 1..Size(n) /\ Size(n) \in 1..Size(n)
        /\ At(n, Size(n)) = LastAt(n) /\ Size(n) \in Nat
    BY <1>0, Sizes, Places
  <1>3. Kept(At(n, Size(n)))
    <2>1. Stands(m[2] - (Size(n) - 1), n)
      BY DEF Spanned
    <2>2. Holds((m[2] - (Size(n) - 1)) + (Size(n) - 1), n, Size(n))
      BY <1>2, <2>1 DEF Stands
    <2> QED BY <2>2 DEF Kept, Holds
  <1>4. ~Gone(n)
    BY <1>2, <1>3 DEF Gone
  <1>5. Two => /\ stream[1] = "torn_beat" /\ 1 \in AllUnits /\ Holds(m[1], 1, 2)
               /\ At(1, 2) = 2 /\ Size(1) = 2 /\ n # 1
    <2> HAVE Two
    <2>1. m[1] # m[2] - (Size(n) - 1)
      <3>1. m[2] \in Nat
        BY <1>0, Increasing DEF Spans
      <3> QED BY <1>2, <3>1
    <2>2. /\ stream[n] = "beat" /\ stream[1] = "torn_beat" /\ Holds(m[1], 1, 2)
      BY <2>1 DEF Spanned
    <2>3. 1 \in AllUnits /\ n # 1
      BY <1>0, <2>2, StreamUnits DEF AllUnits
    <2>4. LastAt(1 - 1) = 0
      BY <1>0, EndsNext
    <2>5. At(1, 2) = 2 /\ Size(1) = 2
      BY <1>0, <2>2, <2>3, <2>4, Sizes DEF At
    <2> QED BY <2>2, <2>3, <2>5
  <1>6. Two => ~DigitsTaken
    BY <1>5 DEF DigitsTaken, Kept, Holds
  <1> HIDE DEF Two
  <1>7. /\ Bytes' = Bytes /\ Byte' = Byte /\ AllUnits' = AllUnits
        /\ LastAt(Ends)' = LastAt(Ends)
        /\ \A l : LastAt(l)' = LastAt(l) /\ Size(l)' = Size(l)
        /\ \A l, k : At(l, k)' = At(l, k)
    BY SameStream
  <1>8. \A l \in AllUnits : \A k \in 1..Size(l) :
            Kept(At(l, k))' <=>
               /\ Kept(At(l, k)) /\ l # n
               /\ Two => ~(l = 1 /\ k = 2)
    <2> TAKE l \in AllUnits
    <2> TAKE k \in 1..Size(l)
    <2>1. At(l, k)' = At(l, k)
      BY <1>7
    <2>2. Kept(At(l, k))' <=>
              /\ Kept(At(l, k)) /\ \A j \in 1..Size(n) : At(l, k) # At(n, j)
              /\ Two => At(l, k) # At(1, 2)
      BY <1>1, <2>1 DEF Kept
    <2>3. (\E j \in 1..Size(n) : At(l, k) = At(n, j)) <=> l = n
      BY <1>0, PlaceOnce
    <2>4. Two => (At(l, k) = At(1, 2) <=> l = 1 /\ k = 2)
      BY <1>0, <1>5, PlaceOnce
    <2> QED BY <2>2, <2>3, <2>4
  <1>9. \A l : Arrived(l)' <=> Arrived(l)
    BY <1>7 DEF Arrived
  <1>10. ASSUME NEW l \in AllUnits, stream[l] \in Kinds
         PROVE  Gone(l)' <=> Gone(l) \/ l = n
    <2>1. /\ Size(l) \in 1..Size(l) /\ At(l, Size(l)) = LastAt(l)
          /\ LastAt(l)' = LastAt(l)
      BY <1>0, <1>7, Sizes, Places
    <2>2. Kept(LastAt(l))' <=>
              /\ Kept(LastAt(l)) /\ \A j \in 1..Size(n) : LastAt(l) # At(n, j)
              /\ Two => LastAt(l) # At(1, 2)
      BY <1>1, <2>1 DEF Kept
    <2>3. (\E j \in 1..Size(n) : LastAt(l) = At(n, j)) <=> l = n
      BY <1>0, <1>2, <2>1, PlaceOnce
    <2>4. Two => LastAt(l) # At(1, 2)
      <3>1. Two => (LastAt(l) = At(1, 2) => l = 1)
        BY <1>0, <1>5, <2>1, PlaceOnce
      <3>2. Two => l # 1
        BY <1>5, <1>10 DEF Kinds
      <3> QED BY <3>1, <3>2
    <2>5. Gone(l)' <=> Arrived(l) /\ ~Kept(LastAt(l))'
      BY <1>9 DEF Gone
    <2>6. Kept(LastAt(l))' <=> Kept(LastAt(l)) /\ l # n
      BY <2>2, <2>3, <2>4
    <2> QED BY <1>0, <2>5, <2>6 DEF Gone
  <1>11. DigitsTaken' <=> DigitsTaken \/ Two
    <2>1. DigitsTaken' <=> /\ 1 \in AllUnits /\ stream[1] = "torn_beat"
                           /\ 2 <= pos /\ ~Kept(2)'
      BY <1>7 DEF DigitsTaken
    <2>2. Two => 2 <= pos
      <3>1. Two => Holds(m[1], 1, 2) /\ 1 \in AllUnits /\ 2 \in 1..Size(1)
        BY <1>5
      <3> QED BY <1>5, <3>1, HoldsClass
    <2>3. Two => ~Kept(2)'
      BY <1>1, <1>5
    <2>4. 1 \in AllUnits /\ stream[1] = "torn_beat" =>
              At(1, 2) = 2 /\ n # 1 /\ 2 \in 1..Size(1)
      <3> HAVE 1 \in AllUnits /\ stream[1] = "torn_beat"
      <3>1. LastAt(1 - 1) = 0
        BY <1>0, EndsNext
      <3>2. Size(1) = 2
        BY <1>0, Sizes
      <3> QED BY <3>1, <3>2 DEF At, Kinds
    <2>5. ASSUME 1 \in AllUnits, stream[1] = "torn_beat", ~Two
          PROVE  Kept(2)' <=> Kept(2)
      <3>1. \A k \in 1..Size(n) : 2 # At(n, k)
        BY <1>0, <2>4, <2>5, PlaceOnce
      <3> QED BY <1>1, <2>5, <3>1
    <2> QED BY <1>5, <2>1, <2>2, <2>3, <2>5 DEF DigitsTaken
  <1>12. PICK f \in [DOMAIN buffer' -> DOMAIN buffer] :
            /\ \A i \in DOMAIN buffer' : buffer'[i] = buffer[f[i]]
            /\ \A i, j \in DOMAIN buffer' : i < j => f[i] < f[j]
    BY <1>0, CutBuffer
  <1>13. buffer' \in Seq(Byte)
    BY <1>0, CutBuffer
  <1>14. Sorted'
    <2>1. \A i \in DOMAIN buffer' : /\ buffer'[i].at \in 1..pos
                                    /\ buffer'[i] = Bytes[buffer'[i].at]
      BY <1>12 DEF BufferInv, Sorted
    <2>2. \A i, j \in DOMAIN buffer' : i < j => buffer'[i].at < buffer'[j].at
      BY <1>12 DEF BufferInv, Sorted
    <2> QED BY <1>7, <2>1, <2>2 DEF Sorted
  <1>15. Whole'
    <2>1. ASSUME NEW l \in AllUnits
          PROVE  \/ \A k \in 1..Size(l) :
                       At(l, k) <= pos /\ (stream[l] = "torn_beat" => k = 1) =>
                          Kept(At(l, k))'
                 \/ /\ stream[l] \notin Torn /\ Arrived(l)
                    /\ \A k \in 1..Size(l) : ~Kept(At(l, k))'
      <3>1. CASE l = n
        <4>1. stream[l] \notin Torn
          BY <3>1 DEF Kinds, Torn
        <4> QED BY <1>0, <1>8, <3>1, <4>1
      <3>2. CASE l # n
        <4>1. \/ \A k \in 1..Size(l) :
                    At(l, k) <= pos /\ (stream[l] = "torn_beat" => k = 1) =>
                       Kept(At(l, k))
              \/ /\ stream[l] \notin Torn /\ Arrived(l)
                 /\ \A k \in 1..Size(l) : ~Kept(At(l, k))
          BY DEF BufferInv, Whole
        <4>2. Two /\ stream[l] # "torn_beat" => l # 1
          BY <1>5
        <4>3. 1 # 2
          OBVIOUS
        <4> QED BY <1>8, <3>2, <4>1, <4>2, <4>3
      <3> QED BY <3>1, <3>2
    <2> QED BY <1>7, <1>9, <2>1 DEF Whole
  <1>16. BufferInv'
    BY <1>7, <1>13, <1>14, <1>15 DEF BufferInv
  <1> QED BY <1>0, <1>4, <1>5, <1>6, <1>9, <1>10, <1>11, <1>16 DEF Two

\* What stays when the stream goes on.
LEMMA ReceiveKeeps ==
    ASSUME BufferInv, stream' = stream, NEW c \in Nat, pos + c <= Len(Bytes),
           pos' = pos + c, buffer' = buffer \o SubSeq(Bytes, pos + 1, pos + c)
    PROVE  /\ BufferInv'
           /\ \A l \in AllUnits : (Gone(l)' <=> Gone(l))
                                   /\ (Arrived(l) => Arrived(l)')
           /\ DigitsTaken' <=> DigitsTaken
  <1>0. /\ stream \in Streams /\ pos \in Nat /\ pos' \in Nat /\ pos <= pos'
        /\ pos' \in 0..LastAt(Ends) /\ buffer \in Seq(Byte)
        /\ DOMAIN buffer = 1..Len(buffer) /\ Len(buffer) \in Nat
    <2>1. /\ stream \in Streams /\ pos \in Nat /\ buffer \in Seq(Byte)
          /\ DOMAIN buffer = 1..Len(buffer) /\ Len(buffer) \in Nat
      BY Increasing DEF BufferInv
    <2>2. Len(Bytes) = LastAt(Ends) /\ LastAt(Ends) \in Nat
      BY <2>1, BytesAre
    <2> QED BY <2>1, <2>2
  <1> DEFINE new == SubSeq(Bytes, pos + 1, pos + c)
  <1>1. /\ new \in Seq(Byte) /\ Len(new) = c
        /\ \A i \in 1..c : new[i] = Bytes[pos + i] /\ new[i].at = pos + i
    <2>1. Bytes \in Seq(Byte) /\ Len(Bytes) = LastAt(Ends)
      BY <1>0, BytesAre
    <2>2. /\ new \in Seq(Byte) /\ Len(new) = c
          /\ \A i \in 1..c : new[i] = Bytes[pos + i]
      BY <1>0, <2>1
    <2>3. \A i \in 1..c : pos + i \in 1..LastAt(Ends)
      <3>1. pos + c <= LastAt(Ends) /\ LastAt(Ends) \in Nat
        BY <1>0, <2>1
      <3> QED BY <1>0, <3>1
    <2>4. \A i \in 1..c : Bytes[pos + i].at = pos + i
      BY <1>0, <2>3, BytesAre
    <2> QED BY <2>2, <2>4
  <1> HIDE DEF new
  <1>2. /\ buffer' \in Seq(Byte) /\ Len(buffer') = Len(buffer) + c
        /\ \A i \in 1..Len(buffer) : buffer'[i] = buffer[i]
        /\ \A i \in 1..c : buffer'[Len(buffer) + i] = new[i]
    <2>1. buffer' = buffer \o new
      BY DEF new
    <2>2. new \in Seq(Byte) /\ Len(new) = c
      BY <1>1
    <2>3. /\ buffer' \in Seq(Byte) /\ Len(buffer') = Len(buffer) + Len(new)
          /\ \A i \in 1..Len(buffer) : buffer'[i] = buffer[i]
          /\ \A i \in 1..Len(new) : buffer'[Len(buffer) + i] = new[i]
      <3>1. buffer \in Seq(Byte) /\ new \in Seq(Byte)
        BY <1>0, <2>2
      <3>2. /\ buffer \o new \in Seq(Byte)
            /\ Len(buffer \o new) = Len(buffer) + Len(new)
            /\ \A i \in 1..Len(buffer) : (buffer \o new)[i] = buffer[i]
            /\ \A i \in 1..Len(new) : (buffer \o new)[Len(buffer) + i] = new[i]
        BY <3>1, JoinFacts
      <3> QED BY <2>1, <3>2
    <2> QED BY <2>2, <2>3
  <1>3. DOMAIN buffer' = 1..(Len(buffer) + c)
    BY <1>2
  <1>4. \A i \in DOMAIN buffer' :
            \/ i \in DOMAIN buffer /\ buffer'[i] = buffer[i]
            \/ \E h \in 1..c : /\ i = Len(buffer) + h
                               /\ buffer'[i] = Bytes[pos + h]
                               /\ buffer'[i].at = pos + h
    <2> TAKE i \in DOMAIN buffer'
    <2>1. CASE i \in 1..Len(buffer)
      BY <1>0, <1>2, <2>1
    <2>2. CASE i \notin 1..Len(buffer)
      <3>1. i - Len(buffer) \in 1..c /\ i = Len(buffer) + (i - Len(buffer))
        BY <1>0, <1>3, <2>2
      <3> QED BY <1>1, <1>2, <3>1
    <2> QED BY <2>1, <2>2
  <1>5. \A p : Kept(p)' <=> Kept(p) \/ p \in (pos + 1)..(pos + c)
    <2> TAKE p
    <2>1. ASSUME Kept(p)' PROVE Kept(p) \/ p \in (pos + 1)..(pos + c)
      <3>1. PICK i \in DOMAIN buffer' : buffer'[i].at = p
        BY <2>1 DEF Kept
      <3>2. CASE i \in DOMAIN buffer /\ buffer'[i] = buffer[i]
        BY <3>1, <3>2 DEF Kept
      <3>3. CASE \E h \in 1..c : buffer'[i].at = pos + h
        BY <1>0, <3>1, <3>3
      <3> QED BY <1>4, <3>2, <3>3
    <2>2. ASSUME Kept(p) PROVE Kept(p)'
      <3>1. PICK i \in DOMAIN buffer : buffer[i].at = p
        BY <2>2 DEF Kept
      <3>2. i \in DOMAIN buffer' /\ buffer'[i].at = p
        BY <1>0, <1>2, <1>3, <3>1
      <3> QED BY <3>2 DEF Kept
    <2>3. ASSUME p \in (pos + 1)..(pos + c) PROVE Kept(p)'
      <3>1. p - pos \in 1..c /\ pos + (p - pos) = p
        BY <1>0, <2>3
      <3>2. /\ buffer'[Len(buffer) + (p - pos)].at = p
            /\ Len(buffer) + (p - pos) \in DOMAIN buffer'
        <4>1. buffer'[Len(buffer) + (p - pos)] = new[p - pos]
              /\ new[p - pos].at = pos + (p - pos)
          BY <1>1, <1>2, <3>1
        <4>2. Len(buffer) + (p - pos) \in 1..(Len(buffer) + c)
          BY <1>0, <3>1
        <4> QED BY <1>3, <3>1, <4>1, <4>2
      <3> QED BY <3>2 DEF Kept
    <2> QED BY <2>1, <2>2, <2>3
  <1>6. /\ Bytes' = Bytes /\ Byte' = Byte /\ AllUnits' = AllUnits
        /\ LastAt(Ends)' = LastAt(Ends)
        /\ \A l : LastAt(l)' = LastAt(l) /\ Size(l)' = Size(l)
        /\ \A l, k : At(l, k)' = At(l, k)
    BY SameStream
  <1>7. \A l \in AllUnits : Arrived(l) => Arrived(l)'
    <2> TAKE l \in AllUnits
    <2>1. LastAt(l)' = LastAt(l) /\ LastAt(l) \in Nat
      BY <1>0, <1>6, Places
    <2> QED BY <1>0, <2>1 DEF Arrived
  <1>8. \A l \in AllUnits : Gone(l)' <=> Gone(l)
    <2> TAKE l \in AllUnits
    <2>1. LastAt(l)' = LastAt(l) /\ LastAt(l) \in Nat
      BY <1>0, <1>6, Places
    <2>2. Kept(LastAt(l))' <=>
              Kept(LastAt(l)) \/ LastAt(l) \in (pos + 1)..(pos + c)
      <3> DEFINE Then(p) == \E i \in DOMAIN buffer' : buffer'[i].at = p
      <3>1. Then(LastAt(l)) <=>
                Kept(LastAt(l)) \/ LastAt(l) \in (pos + 1)..(pos + c)
        <4>1. \A p : Then(p) <=> Kept(p) \/ p \in (pos + 1)..(pos + c)
          BY <1>5 DEF Kept
        <4> HIDE DEF Then
        <4> QED BY <4>1
      <3>2. Kept(LastAt(l))' <=> Then(LastAt(l))
        BY <2>1 DEF Kept
      <3> QED BY <3>1, <3>2
    <2>3. Kept(LastAt(l)) => Arrived(l)
      <3>1. \A i \in DOMAIN buffer : buffer[i].at \in 1..pos
        BY DEF BufferInv, Sorted
      <3> QED BY <1>0, <2>1, <3>1 DEF Kept, Arrived
    <2>4. Arrived(l)' <=> Arrived(l) \/ LastAt(l) \in (pos + 1)..(pos + c)
      BY <1>0, <2>1 DEF Arrived
    <2>5. Arrived(l) => LastAt(l) \notin (pos + 1)..(pos + c)
      BY <1>0, <2>1 DEF Arrived
    <2>6. Gone(l)' <=> Arrived(l)' /\ ~Kept(LastAt(l))'
      BY DEF Gone
    <2> QED BY <2>2, <2>4, <2>5, <2>6 DEF Gone
  <1>9. DigitsTaken' <=> DigitsTaken
    <2>1. Kept(2)' <=> Kept(2) \/ 2 \in (pos + 1)..(pos + c)
      BY <1>5
    <2>2. 2 <= pos' /\ 2 \notin (pos + 1)..(pos + c) => 2 <= pos
      BY <1>0
    <2>3. 2 <= pos => 2 <= pos' /\ 2 \notin (pos + 1)..(pos + c)
      BY <1>0
    <2> QED BY <1>6, <2>1, <2>2, <2>3 DEF DigitsTaken
  <1>10. Sorted'
    <2>1. \A i \in DOMAIN buffer : /\ buffer[i].at \in 1..pos
                                   /\ buffer[i] = Bytes[buffer[i].at]
      BY DEF BufferInv, Sorted
    <2>2. \A i \in DOMAIN buffer' : /\ buffer'[i].at \in 1..pos'
                                    /\ buffer'[i] = Bytes[buffer'[i].at]
      <3> TAKE i \in DOMAIN buffer'
      <3>1. CASE i \in DOMAIN buffer /\ buffer'[i] = buffer[i]
        <4>1. buffer'[i].at \in 1..pos /\ buffer'[i] = Bytes[buffer'[i].at]
          BY <2>1, <3>1
        <4> QED BY <1>0, <4>1
      <3>2. CASE \E h \in 1..c : /\ buffer'[i] = Bytes[pos + h]
                                 /\ buffer'[i].at = pos + h
        <4>1. PICK h \in 1..c : /\ buffer'[i] = Bytes[pos + h]
                                /\ buffer'[i].at = pos + h
          BY <3>2
        <4>2. pos + h \in 1..pos'
          BY <1>0
        <4> QED BY <4>1, <4>2
      <3> QED BY <1>4, <3>1, <3>2
    <2>3. \A i, j \in DOMAIN buffer' : i < j => buffer'[i].at < buffer'[j].at
      <3> TAKE i, j \in DOMAIN buffer'
      <3> HAVE i < j
      <3>0. i \in Nat /\ j \in Nat
        BY <1>3
      <3>1. CASE j \in DOMAIN buffer /\ buffer'[j] = buffer[j]
        <4>1. i \in DOMAIN buffer
          BY <1>0, <1>3, <3>0, <3>1
        <4>2. buffer'[i] = buffer[i]
          BY <1>0, <1>2, <4>1
        <4> QED BY <3>1, <4>1, <4>2 DEF BufferInv, Sorted
      <3>2. CASE \E h \in 1..c : j = Len(buffer) + h /\ buffer'[j].at = pos + h
        <4>1. PICK h \in 1..c : j = Len(buffer) + h /\ buffer'[j].at = pos + h
          BY <3>2
        <4>2. CASE i \in DOMAIN buffer /\ buffer'[i] = buffer[i]
          <5>1. buffer'[i].at \in 1..pos
            BY <2>1, <4>2
          <5>2. \A x \in 1..pos : x < pos + h
            BY <1>0
          <5> QED BY <4>1, <5>1, <5>2
        <4>3. CASE \E g \in 1..c : i = Len(buffer) + g /\ buffer'[i].at = pos + g
          <5>1. PICK g \in 1..c : i = Len(buffer) + g /\ buffer'[i].at = pos + g
            BY <4>3
          <5>2. g < h
            BY <1>0, <3>0, <4>1, <5>1
          <5>3. pos + g < pos + h
            BY <1>0, <5>2
          <5> QED BY <4>1, <5>1, <5>3
        <4> QED BY <1>4, <4>2, <4>3
      <3> QED BY <1>4, <3>1, <3>2
    <2> QED BY <1>6, <2>2, <2>3 DEF Sorted
  <1>11. Whole'
    <2>1. ASSUME NEW l \in AllUnits
          PROVE  \/ \A k \in 1..Size(l) :
                       At(l, k) <= pos' /\ (stream[l] = "torn_beat" => k = 1) =>
                          Kept(At(l, k))'
                 \/ /\ stream[l] \notin Torn /\ Arrived(l)'
                    /\ \A k \in 1..Size(l) : ~Kept(At(l, k))'
      <3>1. \A k \in 1..Size(l) :
                /\ At(l, k) \in Nat
                /\ Kept(At(l, k))' <=>
                      Kept(At(l, k)) \/ At(l, k) \in (pos + 1)..(pos + c)
        <4> TAKE k \in 1..Size(l)
        <4>1. At(l, k)' = At(l, k) /\ At(l, k) \in Nat
          BY <1>0, <1>6, Places
        <4> DEFINE Then(p) == \E i \in DOMAIN buffer' : buffer'[i].at = p
        <4>2. Then(At(l, k)) <=>
                  Kept(At(l, k)) \/ At(l, k) \in (pos + 1)..(pos + c)
          <5>1. \A p : Then(p) <=> Kept(p) \/ p \in (pos + 1)..(pos + c)
            BY <1>5 DEF Kept
          <5> HIDE DEF Then
          <5> QED BY <5>1
        <4>3. Kept(At(l, k))' <=> Then(At(l, k))
          BY <4>1 DEF Kept
        <4> QED BY <4>1, <4>2, <4>3
      <3>2. CASE \A k \in 1..Size(l) :
                    At(l, k) <= pos /\ (stream[l] = "torn_beat" => k = 1) =>
                       Kept(At(l, k))
        <4> SUFFICES ASSUME NEW k \in 1..Size(l), At(l, k) <= pos',
                            stream[l] = "torn_beat" => k = 1
                     PROVE  Kept(At(l, k))'
          OBVIOUS
        <4>1. At(l, k) <= pos \/ At(l, k) \in (pos + 1)..(pos + c)
          BY <1>0, <3>1
        <4> QED BY <3>1, <3>2, <4>1
      <3>3. CASE /\ stream[l] \notin Torn /\ Arrived(l)
                 /\ \A k \in 1..Size(l) : ~Kept(At(l, k))
        <4>1. \A k \in 1..Size(l) : At(l, k) \notin (pos + 1)..(pos + c)
          <5> TAKE k \in 1..Size(l)
          <5>1. At(l, k) <= LastAt(l) /\ LastAt(l) \in Nat /\ At(l, k) \in Nat
            BY <1>0, Places
          <5>2. LastAt(l) <= pos
            BY <3>3 DEF Arrived
          <5> QED BY <1>0, <5>1, <5>2
        <4> QED BY <1>7, <3>1, <3>3, <4>1
      <3> QED BY <3>2, <3>3 DEF BufferInv, Whole
    <2> QED BY <1>6, <2>1 DEF Whole
  <1>12. BufferInv'
    BY <1>0, <1>2, <1>6, <1>10, <1>11 DEF BufferInv
  <1> QED BY <1>7, <1>8, <1>9, <1>12

-----------------------------------------------------------------------------
(* What was extracted *)

\* What was taken out is in a packet, and nothing else is.
TakenUnits ==
    \A n \in AllUnits : stream[n] \in Kinds => (Gone(n) <=> Extracted(n))

\* A heartbeat of five bytes has the digits of the torn one in it.
WithDigits(text) == Len(text) = 5

TakenDigits ==
    /\ \A i \in DOMAIN Heard : WithDigits(Heard[i]) =>
          /\ DigitsTaken
          /\ \A j \in DOMAIN Heard : WithDigits(Heard[j]) => i = j
    /\ DigitsTaken => \E i \in DOMAIN Heard : WithDigits(Heard[i])

\* The beats wait for the callback.
Unset == ~callback => beats = <<>>

\* A loop that ended before its limit has left no whole packet.
Emptied(u) == \A n \in Sent(u) : Arrived(n) => Gone(n)

Loops ==
    /\ phase # "line" /\ "line" \notin capped => Emptied("line")
    /\ phase \in {"boot", "wait"} /\ "beat" \notin capped => Emptied("beat")
    /\ phase = "wait" /\ "boot" \notin capped => Emptied("boot")

Lists ==
    /\ queue \in Seq([type : {"line", "boot"}, text : Seq(Byte)])
    /\ beats \in Seq(Seq(Byte)) /\ unheard \in Seq(Seq(Byte))
    /\ Heard \in Seq(Seq(Byte))

Small ==
    /\ phase \in Kinds \union {"wait"}
    /\ count \in 0..(MaxExtract - 1) /\ capped \subseteq Kinds
    /\ callback \in BOOLEAN /\ opened \in BOOLEAN

\* The part that is about the bytes and the packets.
Core == /\ BufferInv /\ Lists /\ TakenUnits /\ TakenDigits
        /\ QueuedInOrder /\ HeartbeatsInOrder

Inv == Small /\ Core /\ Unset /\ Loops

\* The digits of a torn heartbeat are the second byte of the stream.
LEMMA DigitsPlace ==
    ASSUME stream \in Streams, AllUnits # {}, stream[1] = "torn_beat"
    PROVE  /\ 1 \in AllUnits /\ Size(1) = 2 /\ At(1, 2) = 2
           /\ Bytes[2] \in Byte /\ Bytes[2].at = 2
  <1>1. 1 \in AllUnits
    BY SentUnits DEF AllUnits
  <1>2. Size(1) = 2 /\ LastAt(1 - 1) = 0
    BY <1>1, Sizes, EndsNext
  <1>3. At(1, 2) = 2
    BY <1>2 DEF At
  <1>4. 2 \in 1..LastAt(Ends)
    BY <1>1, <1>2, <1>3, Places
  <1>5. Bytes[2] \in Byte /\ Bytes[2].at = 2
    BY <1>4, BytesAre
  <1> QED BY <1>1, <1>2, <1>3, <1>5

\* Where a heartbeat's bytes are from.
LEMMA BeatText ==
    ASSUME stream \in Streams, NEW n \in Sent("beat"), NEW t, IsBeat(t, n)
    PROVE  /\ t \in Seq(Byte)
           /\ \/ t = Unit(n) /\ Len(t) = 4 /\ ~WithDigits(t)
                 /\ \A k \in 1..4 : t[k] = Unit(n)[k]
              \/ /\ stream[1] = "torn_beat" /\ 1 \in AllUnits /\ At(1, 2) = 2
                 /\ t = <<Bytes[2]>> \o Unit(n)
                 /\ Len(t) = 5 /\ WithDigits(t) /\ t[1].at = 2
                 /\ \A k \in 1..4 : t[k + 1] = Unit(n)[k]
           /\ Len(t) \in 1..Len(t) /\ t[Len(t)].at = LastAt(n)
  <1>1. n \in AllUnits /\ stream[n] = "beat"
    BY SentUnits
  <1>2. /\ Size(n) = 4 /\ Unit(n) \in Seq(Byte) /\ Len(Unit(n)) = 4
        /\ \A k \in 1..4 : Unit(n)[k].at = At(n, k)
        /\ At(n, 4) = LastAt(n)
    BY <1>1, Sizes, UnitIs, Places
  <1>3. CASE t = Unit(n)
    <2>1. /\ t \in Seq(Byte) /\ Len(t) = 4 /\ t[4].at = LastAt(n)
      BY <1>2, <1>3
    <2>2. ~WithDigits(t) /\ Len(t) \in 1..Len(t) /\ t[Len(t)].at = LastAt(n)
      BY <2>1 DEF WithDigits
    <2> QED BY <1>3, <2>1, <2>2
  <1>4. CASE stream[1] = "torn_beat" /\ t = <<Bytes[2]>> \o Unit(n)
    <2>5. /\ 1 \in AllUnits /\ At(1, 2) = 2
          /\ Bytes[2] \in Byte /\ Bytes[2].at = 2
      BY <1>1, <1>4, DigitsPlace
    <2> DEFINE b == Bytes[2]
               v == Unit(n)
    <2>6. /\ <<b>> \in Seq(Byte) /\ Len(<<b>>) = 1 /\ <<b>>[1] = b
      BY <2>5
    <2>7. v \in Seq(Byte) /\ Len(v) = 4
      BY <1>2
    <2> HIDE DEF b, v
    <2>8. /\ <<b>> \o v \in Seq(Byte) /\ Len(<<b>> \o v) = Len(<<b>>) + Len(v)
          /\ \A i \in 1..Len(<<b>>) : (<<b>> \o v)[i] = <<b>>[i]
          /\ \A i \in 1..Len(v) : (<<b>> \o v)[Len(<<b>>) + i] = v[i]
      <3>1. <<b>> \in Seq(Byte) /\ v \in Seq(Byte)
        BY <2>6, <2>7
      <3> QED BY <3>1, JoinFacts
    <2>9. /\ <<b>> \o v \in Seq(Byte) /\ Len(<<b>> \o v) = 5
          /\ (<<b>> \o v)[1] = b
          /\ \A k \in 1..4 : (<<b>> \o v)[k + 1] = v[k]
      <3>1. 1 \in 1..Len(<<b>>) /\ Len(<<b>>) + Len(v) = 5
            /\ \A k \in 1..4 : k \in 1..Len(v) /\ Len(<<b>>) + k = k + 1
        BY <2>6, <2>7
      <3> QED BY <2>6, <2>8, <3>1
    <2>10. t = <<b>> \o v
      BY <1>4 DEF b, v
    <2>11. /\ t \in Seq(Byte) /\ Len(t) = 5 /\ t[1] = b
           /\ \A k \in 1..4 : t[k + 1] = v[k]
      BY <2>9, <2>10
    <2>12. t[5] = v[4]
      <3>1. t[4 + 1] = v[4]
        BY <2>11
      <3> QED BY <3>1
    <2>13. t[5].at = LastAt(n)
      BY <1>2, <2>12 DEF v
    <2> QED BY <1>4, <2>5, <2>11, <2>13 DEF b, v, WithDigits
  <1> QED BY <1>3, <1>4 DEF IsBeat

LEMMA BeatOnce ==
    ASSUME stream \in Streams, NEW m \in Sent("beat"), NEW n \in Sent("beat"),
           NEW t, IsBeat(t, m), IsBeat(t, n)
    PROVE  m = n
  <1>1. m \in AllUnits /\ n \in AllUnits
    BY SentUnits
  <1>2. LastAt(m) = LastAt(n)
    <2>1. t[Len(t)].at = LastAt(m)
      BY BeatText
    <2>2. t[Len(t)].at = LastAt(n)
      BY BeatText
    <2> QED BY <2>1, <2>2
  <1>3. /\ At(m, Size(m)) = LastAt(m) /\ At(n, Size(n)) = LastAt(n)
        /\ Size(m) \in 1..Size(m) /\ Size(n) \in 1..Size(n)
    BY <1>1, Places, Sizes
  <1> QED BY <1>1, <1>2, <1>3, PlaceOnce

LEMMA PacketOnce ==
    ASSUME stream \in Streams, NEW m \in AllUnits, NEW n \in AllUnits,
           Packet(m) = Packet(n)
    PROVE  m = n
  <1>1. Unit(m) = Unit(n)
    BY DEF Packet
  <1>2. 1 \in 1..Size(m) /\ 1 \in 1..Size(n)
    BY Sizes
  <1>3. At(m, 1) = At(n, 1)
    BY <1>1, <1>2, UnitIs
  <1> QED BY <1>2, <1>3, PlaceOnce

\* The text of the match.
LEMMA MatchText ==
    ASSUME BufferInv, NEW m, NEW n, Spanned(m, n)
    PROVE  /\ Text(m) \in Seq(Byte)
           /\ m[1] = m[2] - (Size(n) - 1) => Text(m) = Unit(n)
           /\ m[1] = m[2] - Size(n) => Text(m) = <<Bytes[2]>> \o Unit(n)
  <1> DEFINE a == m[1]
             b == m[2]
             s == Size(n)
  <1>1. /\ stream \in Streams /\ n \in AllUnits /\ buffer \in Seq(Byte)
        /\ a \in 1..Len(buffer) /\ b \in 1..Len(buffer) /\ a <= b
        /\ DOMAIN buffer = 1..Len(buffer) /\ Len(buffer) \in Nat
        /\ Stands(b - (s - 1), n)
    BY Increasing DEF BufferInv, Spanned, Spans
  <1>2. s \in Nat \ {0} /\ Unit(n) \in Seq(Byte) /\ Len(Unit(n)) = s
        /\ \A k \in 1..s : Unit(n)[k] = Bytes[At(n, k)]
    BY <1>1, Sizes, UnitIs
  <1>3. \A k \in 1..s : /\ (b - (s - 1)) + (k - 1) \in DOMAIN buffer
                        /\ buffer[(b - (s - 1)) + (k - 1)] = Unit(n)[k]
    <2> TAKE k \in 1..s
    <2>1. Holds((b - (s - 1)) + (k - 1), n, k)
      BY <1>1 DEF Stands
    <2> QED BY <1>2, <2>1 DEF Holds, BufferInv, Sorted
  <1>4. m[1] = m[2] - s =>
            /\ stream[1] = "torn_beat" /\ 1 \in AllUnits /\ Holds(a, 1, 2)
            /\ buffer[a] = Bytes[2] /\ Bytes[2] \in Byte
    <2> HAVE m[1] = m[2] - s
    <2>1. m[1] # m[2] - (s - 1)
      BY <1>1, <1>2
    <2>2. stream[1] = "torn_beat" /\ Holds(a, 1, 2)
      BY <2>1 DEF Spanned
    <2>3. 1 \in AllUnits /\ At(1, 2) = 2
      BY <1>1, <2>2, DigitsPlace
    <2>6. buffer[a] = Bytes[2] /\ buffer[a] \in Byte
      BY <1>1, <2>2, <2>3 DEF Holds, BufferInv, Sorted
    <2> QED BY <2>2, <2>3, <2>6
  <1>5. Text(m) = SubSeq(buffer, a, b)
    BY DEF Text
  <1> HIDE DEF a, b, s
  <1>6. /\ Text(m) \in Seq(Byte) /\ Len(Text(m)) = (b - a) + 1
        /\ \A i \in 1..((b - a) + 1) : Text(m)[i] = buffer[a + (i - 1)]
    <2>1. /\ SubSeq(buffer, a, b) \in Seq(Byte)
          /\ Len(SubSeq(buffer, a, b)) = (b - a) + 1
          /\ \A i \in 1..((b - a) + 1) :
                SubSeq(buffer, a, b)[i] = buffer[a + (i - 1)]
      BY <1>1
    <2> QED BY <1>5, <2>1
  <1>7. ASSUME a = b - (s - 1) PROVE Text(m) = Unit(n)
    <2>1. (b - a) + 1 = s
      BY <1>1, <1>2, <1>7
    <2>2. \A i \in 1..s : Text(m)[i] = Unit(n)[i]
      BY <1>3, <1>6, <1>7, <2>1
    <2> QED BY <1>2, <1>6, <2>1, <2>2
  <1>8. ASSUME a = b - s PROVE Text(m) = <<Bytes[2]>> \o Unit(n)
    <2> DEFINE x == Bytes[2]
               v == Unit(n)
    <2>1. x \in Byte /\ v \in Seq(Byte) /\ Len(v) = s /\ buffer[a] = x
      BY <1>2, <1>4, <1>8 DEF a, b
    <2> HIDE DEF x, v
    <2>2. <<x>> \in Seq(Byte) /\ Len(<<x>>) = 1 /\ <<x>>[1] = x
      BY <2>1
    <2>3. /\ <<x>> \o v \in Seq(Byte) /\ Len(<<x>> \o v) = Len(<<x>>) + Len(v)
          /\ \A i \in 1..Len(<<x>>) : (<<x>> \o v)[i] = <<x>>[i]
          /\ \A i \in 1..Len(v) : (<<x>> \o v)[Len(<<x>>) + i] = v[i]
      BY <2>1, <2>2, JoinFacts
    <2>4. (b - a) + 1 = s + 1 /\ Len(<<x>> \o v) = s + 1
      BY <1>1, <1>2, <1>8, <2>1, <2>2, <2>3
    <2>5. \A i \in 1..(s + 1) : Text(m)[i] = (<<x>> \o v)[i]
      <3> TAKE i \in 1..(s + 1)
      <3>1. Text(m)[i] = buffer[a + (i - 1)]
        BY <1>6, <2>4
      <3>2. CASE i = 1
        <4>1. a + (i - 1) = a /\ i \in 1..Len(<<x>>)
          BY <1>1, <2>2, <3>2
        <4> QED BY <2>1, <2>2, <2>3, <3>1, <3>2, <4>1
      <3>3. CASE i # 1
        <4>1. /\ i - 1 \in 1..s /\ Len(<<x>>) + (i - 1) = i
              /\ a + (i - 1) = (b - (s - 1)) + ((i - 1) - 1)
          BY <1>1, <1>2, <1>8, <2>2, <3>3
        <4>2. buffer[a + (i - 1)] = v[i - 1]
          BY <1>3, <4>1 DEF v
        <4>3. (<<x>> \o v)[i] = v[i - 1]
          BY <2>1, <2>3, <4>1
        <4> QED BY <3>1, <4>2, <4>3
      <3> QED BY <3>2, <3>3
    <2>6. Text(m) = <<x>> \o v
      <3> DEFINE y == <<x>> \o v
                 t == Text(m)
      <3>1. /\ y \in Seq(Byte) /\ t \in Seq(Byte) /\ Len(y) = s + 1
            /\ Len(t) = s + 1 /\ \A i \in 1..(s + 1) : t[i] = y[i]
        BY <1>6, <2>3, <2>4, <2>5
      <3> HIDE DEF y, t
      <3>2. t = y
        BY <3>1
      <3> QED BY <3>2 DEF y, t
    <2> QED BY <2>6 DEF x, v
  <1> QED BY <1>6, <1>7, <1>8 DEF a, b, s

\* A step that takes unit n out, the first of its kind that is there.
Removes(n) ==
    /\ stream' = stream
    /\ Arrived(n) /\ ~Gone(n)
    /\ \A l \in AllUnits :
          stream[l] \in Kinds => (Gone(l)' <=> Gone(l) \/ l = n)
    /\ \A l : Arrived(l)' <=> Arrived(l)
    /\ \A l \in Sent(stream[n]) : l < n => Gone(l)

LEMMA KeepQueue ==
    ASSUME stream \in Streams, stream' = stream, queue' = queue,
           \A l \in AllUnits : Arrived(l) => Arrived(l)', QueuedInOrder
    PROVE  QueuedInOrder'
  <1>1. \A i \in DOMAIN queue :
            \E n \in Sent(queue[i].type) :
                /\ Arrived(n)' /\ queue[i] = Packet(n)
                /\ \A m \in Sent(queue[i].type) :
                      m < n <=> \E j \in 1..(i - 1) : queue[j] = Packet(m)
    BY SentUnits DEF QueuedInOrder
  <1>2. \A n : Packet(n)' = Packet(n)
    BY SameStream
  <1> QED BY <1>1, <1>2 DEF QueuedInOrder, Sent

LEMMA KeepHeard ==
    ASSUME stream \in Streams, stream' = stream, Heard' = Heard,
           \A l \in AllUnits : Arrived(l) => Arrived(l)', HeartbeatsInOrder
    PROVE  HeartbeatsInOrder'
  <1>1. \A i \in DOMAIN Heard :
            \E n \in Sent("beat") :
                /\ Arrived(n)' /\ IsBeat(Heard[i], n)
                /\ \A m \in Sent("beat") :
                      m < n <=> \E j \in 1..(i - 1) : IsBeat(Heard[j], m)
    BY SentUnits DEF HeartbeatsInOrder
  <1>2. \A u : Sent(u)' = Sent(u)
    BY SameStream
  <1>3. \A t, n : IsBeat(t, n)' = IsBeat(t, n)
    BY SameStream
  <1>4. \A t, n : Unit(n)' = Unit(n) /\ Bytes' = Bytes
    BY SameStream
  <1>5. \A i, n : IsBeat(Heard[i], n)' <=> IsBeat(Heard[i], n)
    BY <1>4 DEF IsBeat
  <1>6. \A i \in DOMAIN Heard' :
            \E n \in Sent("beat") :
                /\ Arrived(n)' /\ IsBeat(Heard[i], n)'
                /\ \A m \in Sent("beat") :
                      m < n <=> \E j \in 1..(i - 1) : IsBeat(Heard[j], m)'
    <2> TAKE i \in DOMAIN Heard'
    <2>1. PICK n \in Sent("beat") :
              /\ Arrived(n)' /\ IsBeat(Heard[i], n)
              /\ \A m \in Sent("beat") :
                    m < n <=> \E j \in 1..(i - 1) : IsBeat(Heard[j], m)
      BY <1>1
    <2>2. IsBeat(Heard[i], n)'
      BY <1>5, <2>1
    <2>3. ASSUME NEW m \in Sent("beat")
          PROVE  m < n <=> \E j \in 1..(i - 1) : IsBeat(Heard[j], m)'
      <3>1. \A j : IsBeat(Heard[j], m)' <=> IsBeat(Heard[j], m)
        BY <1>5
      <3> QED BY <2>1, <3>1
    <2> QED BY <2>1, <2>2, <2>3
  <1>7. Sent("beat")' = Sent("beat")
    BY <1>2
  <1> QED BY <1>6, <1>7 DEF HeartbeatsInOrder

LEMMA KeepTaken ==
    ASSUME stream \in Streams, stream' = stream, queue' = queue, Heard' = Heard,
           \A l \in AllUnits : Gone(l)' <=> Gone(l), TakenUnits
    PROVE  TakenUnits'
  <1>1. \A n : Packet(n)' = Packet(n)
    BY SameStream
  <1>2. \A i, n : IsBeat(Heard[i], n)' <=> IsBeat(Heard[i], n)
    <2>1. \A t, n : Unit(n)' = Unit(n) /\ Bytes' = Bytes
      BY SameStream
    <2> QED BY <2>1 DEF IsBeat
  <1>3. \A n : Extracted(n)' <=> Extracted(n)
    BY <1>1, <1>2 DEF Extracted
  <1>4. AllUnits' = AllUnits
    BY SameStream
  <1> QED BY <1>3, <1>4 DEF TakenUnits

LEMMA QueueNext ==
    ASSUME stream \in Streams, Lists, TakenUnits, QueuedInOrder,
           NEW n \in AllUnits, stream[n] \in {"line", "boot"}, Removes(n),
           queue' = Append(queue, Packet(n)), Heard' = Heard
    PROVE  QueuedInOrder' /\ TakenUnits'
  <1> DEFINE L == Len(queue)
             P == Packet(n)
  <1>0. /\ stream' = stream /\ L \in Nat /\ DOMAIN queue = 1..L
        /\ DOMAIN queue' = 1..(L + 1)
        /\ \A i \in 1..L : queue'[i] = queue[i]
        /\ queue'[L + 1] = P
    <2>1. queue \in Seq([type : {"line", "boot"}, text : Seq(Byte)])
      BY DEF Lists
    <2> HIDE DEF P
    <2>2. queue' = Append(queue, P)
      BY DEF P
    <2>3. /\ L \in Nat /\ DOMAIN queue = 1..L
          /\ DOMAIN Append(queue, P) = 1..(L + 1)
          /\ \A i \in 1..L : Append(queue, P)[i] = queue[i]
          /\ Append(queue, P)[L + 1] = P
      BY <2>1
    <2> QED BY <2>2, <2>3 DEF Removes
  <1>1. /\ \A l : Packet(l)' = Packet(l)
        /\ AllUnits' = AllUnits
    BY <1>0, SameStream
  <1>2. P.type = stream[n]
    BY DEF Packet
  <1>3. \A l \in AllUnits : Packet(l) = P => l = n
    BY PacketOnce
  <1>4. \A l \in AllUnits : stream[l] \in {"line", "boot"} =>
            (Gone(l) <=> \E i \in 1..L : queue[i] = Packet(l))
    <2> TAKE l \in AllUnits
    <2> HAVE stream[l] \in {"line", "boot"}
    <2>1. Gone(l) <=> Extracted(l)
      BY DEF TakenUnits, Kinds
    <2> QED BY <1>0, <2>1 DEF Extracted
  <1>5. \A l \in Sent(stream[n]) : Gone(l) => l < n
    <2> SUFFICES ASSUME NEW l \in Sent(stream[n]), Gone(l) PROVE l < n
      OBVIOUS
    <2>1. l \in AllUnits /\ stream[l] = stream[n] /\ l \in Nat /\ n \in Nat
          /\ n \in Sent(stream[n])
      BY SentUnits
    <2>2. l # n
      BY DEF Removes
    <2>3. PICK i \in 1..L : queue[i] = Packet(l)
      BY <1>4, <2>1
    <2>4. queue[i].type = stream[n]
      BY <2>1, <2>3 DEF Packet
    <2>5. PICK o \in Sent(stream[n]) :
              /\ queue[i] = Packet(o)
              /\ \A m \in Sent(stream[n]) :
                    m < o <=> \E j \in 1..(i - 1) : queue[j] = Packet(m)
      BY <1>0, <2>4 DEF QueuedInOrder
    <2>6. o = l
      BY <2>1, <2>3, <2>5, PacketOnce, SentUnits
    <2>7. ~(n < l)
      <3> SUFFICES ASSUME n < l PROVE FALSE
        OBVIOUS
      <3>1. PICK j \in 1..(i - 1) : queue[j] = Packet(n)
        BY <2>1, <2>5, <2>6
      <3>2. j \in 1..L
        BY <1>0, <2>3
      <3>3. Gone(n)
        BY <1>4, <3>1, <3>2
      <3> QED BY <3>3 DEF Removes
    <2> QED BY <2>1, <2>2, <2>7
  <1> HIDE DEF P, L
  <1>6. ASSUME NEW i \in DOMAIN queue'
        PROVE  \E l \in Sent(queue'[i].type) :
                  /\ Arrived(l)' /\ queue'[i] = Packet(l)
                  /\ \A m \in Sent(queue'[i].type) :
                        m < l <=> \E j \in 1..(i - 1) : queue'[j] = Packet(m)
    <2>1. CASE i \in 1..L
      <3>1. PICK l \in Sent(queue[i].type) :
                /\ Arrived(l) /\ queue[i] = Packet(l)
                /\ \A m \in Sent(queue[i].type) :
                      m < l <=> \E j \in 1..(i - 1) : queue[j] = Packet(m)
        BY <1>0, <2>1 DEF QueuedInOrder
      <3>2. \A j \in 1..(i - 1) : queue'[j] = queue[j]
        BY <1>0, <2>1
      <3>3. queue'[i] = queue[i] /\ Arrived(l)'
        BY <1>0, <2>1, <3>1 DEF Removes
      <3> QED BY <3>1, <3>2, <3>3
    <2>2. CASE i = L + 1
      <3>1. queue'[i] = P /\ n \in Sent(stream[n]) /\ Arrived(n)'
        BY <1>0, <2>2, SentUnits DEF Removes
      <3>2. \A m \in Sent(stream[n]) :
                m < n <=> \E j \in 1..(i - 1) : queue'[j] = Packet(m)
        <4> TAKE m \in Sent(stream[n])
        <4>1. m \in AllUnits /\ stream[m] = stream[n]
          BY SentUnits
        <4>2. m < n <=> Gone(m)
          BY <1>5 DEF Removes
        <4>3. i - 1 = L
          BY <1>0, <2>2
        <4> QED BY <1>0, <1>4, <4>1, <4>2, <4>3
      <3> QED BY <1>2, <3>1, <3>2 DEF P
    <2> QED BY <1>0, <2>1, <2>2
  <1>7. QueuedInOrder'
    BY <1>0, <1>1, <1>6 DEF QueuedInOrder, Sent
  <1>8. ASSUME NEW l \in AllUnits, stream[l] \in Kinds
        PROVE  Gone(l)' <=> Extracted(l)'
    <2>1. Gone(l)' <=> Gone(l) \/ l = n
      BY <1>8 DEF Removes
    <2>2. CASE stream[l] = "beat"
      <3>1. \A i, m : IsBeat(Heard[i], m)' <=> IsBeat(Heard[i], m)
        <4>1. \A m : Unit(m)' = Unit(m) /\ Bytes' = Bytes
          BY <1>0, SameStream
        <4> QED BY <1>0, <4>1 DEF IsBeat
      <3>2. Extracted(l)' <=> Extracted(l)
        BY <1>0, <2>2, <3>1 DEF Extracted
      <3> QED BY <1>8, <2>1, <2>2, <3>2 DEF TakenUnits
    <2>3. CASE stream[l] # "beat"
      <3>1. Extracted(l)' <=> \E i \in 1..(L + 1) : queue'[i] = Packet(l)
        BY <1>0, <1>1, <2>3 DEF Extracted
      <3>2. Gone(l) <=> \E i \in 1..L : queue[i] = Packet(l)
        BY <1>4, <1>8, <2>3 DEF Kinds
      <3>3. (\E i \in 1..(L + 1) : queue'[i] = Packet(l))
               <=> (\E i \in 1..L : queue[i] = Packet(l)) \/ P = Packet(l)
        <4>1. \A i \in 1..(L + 1) : i \in 1..L \/ i = L + 1
          BY <1>0
        <4>2. L + 1 \in 1..(L + 1) /\ \A i \in 1..L : i \in 1..(L + 1)
          BY <1>0
        <4> QED BY <1>0, <4>1, <4>2
      <3>4. P = Packet(l) <=> l = n
        BY <1>3 DEF P
      <3> QED BY <2>1, <3>1, <3>2, <3>3, <3>4
    <2> QED BY <2>2, <2>3
  <1>9. TakenUnits'
    BY <1>0, <1>1, <1>8 DEF TakenUnits
  <1> QED BY <1>7, <1>9

LEMMA HeardNext ==
    ASSUME stream \in Streams, Lists, TakenUnits, HeartbeatsInOrder,
           NEW n \in AllUnits, stream[n] = "beat", Removes(n),
           NEW t, IsBeat(t, n), Heard' = Append(Heard, t), queue' = queue
    PROVE  HeartbeatsInOrder' /\ TakenUnits'
  <1> DEFINE L == Len(Heard)
  <1>0. /\ stream' = stream /\ L \in Nat /\ DOMAIN Heard = 1..L
        /\ DOMAIN Heard' = 1..(L + 1)
        /\ \A i \in 1..L : Heard'[i] = Heard[i]
        /\ Heard'[L + 1] = t
    <2>1. Heard \in Seq(Seq(Byte))
      BY DEF Lists
    <2>2. /\ L \in Nat /\ DOMAIN Heard = 1..L
          /\ DOMAIN Append(Heard, t) = 1..(L + 1)
          /\ \A i \in 1..L : Append(Heard, t)[i] = Heard[i]
          /\ Append(Heard, t)[L + 1] = t
      BY <2>1
    <2> QED BY <2>2 DEF Removes
  <1>1. /\ \A l : Packet(l)' = Packet(l)
        /\ AllUnits' = AllUnits /\ \A u : Sent(u)' = Sent(u)
    BY <1>0, SameStream
  <1>2. n \in Sent("beat")
    BY SentUnits
  <1>3. \A l \in Sent("beat") : IsBeat(t, l) => l = n
    BY <1>2, BeatOnce
  <1>4. \A l \in Sent("beat") :
            Gone(l) <=> \E i \in 1..L : IsBeat(Heard[i], l)
    <2> TAKE l \in Sent("beat")
    <2>1. l \in AllUnits /\ stream[l] = "beat"
      BY SentUnits
    <2>2. Gone(l) <=> Extracted(l)
      BY <2>1 DEF TakenUnits, Kinds
    <2> QED BY <1>0, <2>1, <2>2 DEF Extracted
  <1>5. \A l \in Sent("beat") : Gone(l) => l < n
    <2> SUFFICES ASSUME NEW l \in Sent("beat"), Gone(l) PROVE l < n
      OBVIOUS
    <2>1. l \in Nat /\ n \in Nat
      BY SentUnits
    <2>2. l # n
      BY DEF Removes
    <2>3. PICK i \in 1..L : IsBeat(Heard[i], l)
      BY <1>4
    <2>4. PICK o \in Sent("beat") :
              /\ IsBeat(Heard[i], o)
              /\ \A m \in Sent("beat") :
                    m < o <=> \E j \in 1..(i - 1) : IsBeat(Heard[j], m)
      BY <1>0 DEF HeartbeatsInOrder
    <2>5. o = l
      BY <2>3, <2>4, BeatOnce
    <2>6. ~(n < l)
      <3> SUFFICES ASSUME n < l PROVE FALSE
        OBVIOUS
      <3>1. PICK j \in 1..(i - 1) : IsBeat(Heard[j], n)
        BY <1>2, <2>4, <2>5
      <3>2. j \in 1..L
        BY <1>0
      <3>3. Gone(n)
        BY <1>2, <1>4, <3>1, <3>2
      <3> QED BY <3>3 DEF Removes
    <2> QED BY <2>1, <2>2, <2>6
  <1> HIDE DEF L
  <1>6. \A i, m : IsBeat(Heard[i], m)' <=> IsBeat(Heard'[i], m)
    <2>1. \A m : Unit(m)' = Unit(m) /\ Bytes' = Bytes
      BY <1>0, SameStream
    <2> QED BY <1>0, <2>1 DEF IsBeat
  <1>7. ASSUME NEW i \in DOMAIN Heard'
        PROVE  \E l \in Sent("beat") :
                  /\ Arrived(l)' /\ IsBeat(Heard'[i], l)
                  /\ \A m \in Sent("beat") :
                        m < l <=> \E j \in 1..(i - 1) : IsBeat(Heard'[j], m)
    <2>1. CASE i \in 1..L
      <3>1. PICK l \in Sent("beat") :
                /\ Arrived(l) /\ IsBeat(Heard[i], l)
                /\ \A m \in Sent("beat") :
                      m < l <=> \E j \in 1..(i - 1) : IsBeat(Heard[j], m)
        BY <1>0, <2>1 DEF HeartbeatsInOrder
      <3>2. \A j \in 1..(i - 1) : Heard'[j] = Heard[j]
        BY <1>0, <2>1
      <3>3. Heard'[i] = Heard[i] /\ Arrived(l)'
        BY <1>0, <2>1, <3>1 DEF Removes
      <3> QED BY <3>1, <3>2, <3>3
    <2>2. CASE i = L + 1
      <3>1. Heard'[i] = t /\ Arrived(n)'
        BY <1>0, <2>2 DEF Removes
      <3>2. \A m \in Sent("beat") :
                m < n <=> \E j \in 1..(i - 1) : IsBeat(Heard'[j], m)
        <4> TAKE m \in Sent("beat")
        <4>1. m < n <=> Gone(m)
          BY <1>5 DEF Removes
        <4>2. i - 1 = L
          BY <1>0, <2>2
        <4> QED BY <1>0, <1>4, <4>1, <4>2
      <3> QED BY <1>2, <3>1, <3>2
    <2> QED BY <1>0, <2>1, <2>2
  <1>8. HeartbeatsInOrder'
    <2>1. \A i \in DOMAIN Heard' :
              \E l \in Sent("beat") :
                  /\ Arrived(l)' /\ IsBeat(Heard[i], l)'
                  /\ \A m \in Sent("beat") :
                        m < l <=> \E j \in 1..(i - 1) : IsBeat(Heard[j], m)'
      <3> TAKE i \in DOMAIN Heard'
      <3>1. PICK l \in Sent("beat") :
                /\ Arrived(l)' /\ IsBeat(Heard'[i], l)
                /\ \A m \in Sent("beat") :
                      m < l <=> \E j \in 1..(i - 1) : IsBeat(Heard'[j], m)
        BY <1>7
      <3>2. IsBeat(Heard[i], l)'
        BY <1>6, <3>1
      <3>3. ASSUME NEW m \in Sent("beat")
            PROVE  m < l <=> \E j \in 1..(i - 1) : IsBeat(Heard[j], m)'
        <4>1. \A j : IsBeat(Heard[j], m)' <=> IsBeat(Heard'[j], m)
          BY <1>6
        <4> QED BY <3>1, <4>1
      <3> QED BY <3>1, <3>2, <3>3
    <2>2. Sent("beat")' = Sent("beat")
      BY <1>1
    <2> QED BY <2>1, <2>2 DEF HeartbeatsInOrder
  <1>9. ASSUME NEW l \in AllUnits, stream[l] \in Kinds
        PROVE  Gone(l)' <=> Extracted(l)'
    <2>1. Gone(l)' <=> Gone(l) \/ l = n
      BY <1>9 DEF Removes
    <2>2. CASE stream[l] # "beat"
      <3>1. Extracted(l)' <=> Extracted(l)
        BY <1>0, <1>1, <2>2 DEF Extracted
      <3> QED BY <1>9, <2>1, <2>2, <3>1 DEF TakenUnits
    <2>3. CASE stream[l] = "beat"
      <3>0. l \in Sent("beat")
        BY <2>3, SentUnits
      <3>1. Extracted(l)' <=> \E i \in 1..(L + 1) : IsBeat(Heard'[i], l)
        BY <1>0, <1>6, <2>3 DEF Extracted
      <3>2. (\E i \in 1..(L + 1) : IsBeat(Heard'[i], l))
               <=> (\E i \in 1..L : IsBeat(Heard[i], l)) \/ IsBeat(t, l)
        <4>1. \A i \in 1..(L + 1) : i \in 1..L \/ i = L + 1
          BY <1>0
        <4>2. L + 1 \in 1..(L + 1) /\ \A i \in 1..L : i \in 1..(L + 1)
          BY <1>0
        <4> QED BY <1>0, <4>1, <4>2
      <3>3. IsBeat(t, l) <=> l = n
        BY <1>3, <3>0
      <3> QED BY <1>4, <2>1, <3>0, <3>1, <3>2, <3>3
    <2> QED BY <2>2, <2>3
  <1>10. TakenUnits'
    BY <1>0, <1>1, <1>9 DEF TakenUnits
  <1> QED BY <1>8, <1>10

-----------------------------------------------------------------------------
(* The invariant: Init and the steps *)

LEMMA InvInit == Init => Inv
  <1> SUFFICES ASSUME Init PROVE Inv
    OBVIOUS
  <1>0. /\ stream \in Streams /\ pos = 0 /\ buffer = <<>> /\ queue = <<>>
        /\ beats = <<>> /\ unheard = <<>> /\ DOMAIN buffer = {}
        /\ DOMAIN queue = {}
    BY DEF Init
  <1>1. Heard = <<>> /\ DOMAIN Heard = {} /\ Heard \in Seq(Seq(Byte))
    BY <1>0 DEF Heard
  <1>2. \A n \in AllUnits : ~Arrived(n) /\ ~Gone(n)
    BY <1>0, Places DEF Arrived, Gone
  <1>3. Small
    <2>1. 0 \in 0..(MaxExtract - 1)
      BY LimitsAssumption
    <2> QED BY <2>1 DEF Init, Small
  <1>4. BufferInv
    <2>1. Sorted
      BY <1>0 DEF Sorted
    <2>2. Whole
      <3>1. \A n \in AllUnits : \A k \in 1..Size(n) : ~(At(n, k) <= pos)
        BY <1>0, Places
      <3> QED BY <3>1 DEF Whole
    <2>3. LastAt(Ends) \in Nat
      BY <1>0, BytesAre
    <2> QED BY <1>0, <2>1, <2>2, <2>3 DEF BufferInv
  <1>5. Lists
    BY <1>0, <1>1 DEF Lists
  <1>6. \A n \in AllUnits : ~Extracted(n)
    BY <1>0, <1>1 DEF Extracted
  <1>7. TakenUnits
    BY <1>2, <1>6 DEF TakenUnits
  <1>8. TakenDigits
    BY <1>0, <1>1 DEF TakenDigits, DigitsTaken
  <1>9. QueuedInOrder /\ HeartbeatsInOrder
    BY <1>0, <1>1 DEF QueuedInOrder, HeartbeatsInOrder
  <1>10. Unset
    BY <1>0 DEF Unset
  <1>11. Loops
    BY <1>0, <1>2, SentUnits DEF Loops, Emptied
  <1> QED BY <1>3, <1>4, <1>5, <1>7, <1>8, <1>9, <1>10, <1>11 DEF Inv, Core

\* A step that leaves the bytes and the packets alone.
LEMMA CoreSame ==
    ASSUME Core, UNCHANGED <<stream, pos, buffer, queue, beats, unheard>>
    PROVE  /\ Core' /\ Heard' = Heard
           /\ \A u : Emptied(u)' <=> Emptied(u)
  <1>0. /\ stream' = stream /\ pos' = pos /\ buffer' = buffer
        /\ queue' = queue /\ Heard' = Heard /\ stream \in Streams
        /\ beats' = beats /\ unheard' = unheard
    BY DEF Core, BufferInv, Heard
  <1>1. /\ Bytes' = Bytes /\ Byte' = Byte /\ AllUnits' = AllUnits
        /\ LastAt(Ends)' = LastAt(Ends)
        /\ \A l : LastAt(l)' = LastAt(l) /\ Size(l)' = Size(l)
        /\ \A l, k : At(l, k)' = At(l, k)
        /\ \A u : Sent(u)' = Sent(u)
    BY <1>0, SameStream
  <1>2. \A l : (Arrived(l)' <=> Arrived(l)) /\ (Gone(l)' <=> Gone(l))
    BY <1>0, <1>1 DEF Gone, Arrived, Kept
  <1>3. \A l, k : Kept(At(l, k))' <=> Kept(At(l, k))
    BY <1>0, <1>1 DEF Kept
  <1>4. Sorted' /\ Whole'
    <2>1. Sorted'
      BY <1>0, <1>1 DEF Core, BufferInv, Sorted
    <2>2. Whole'
      BY <1>0, <1>1, <1>2, <1>3 DEF Core, BufferInv, Whole
    <2> QED BY <2>1, <2>2
  <1>5. BufferInv'
    BY <1>0, <1>1, <1>4 DEF Core, BufferInv
  <1>6. Lists'
    BY <1>0, <1>1 DEF Core, Lists
  <1>7. DigitsTaken' <=> DigitsTaken
    BY <1>0, <1>1 DEF DigitsTaken, Kept
  <1>8. TakenDigits'
    BY <1>0, <1>7 DEF Core, TakenDigits
  <1>9. TakenUnits'
    BY <1>0, <1>2, KeepTaken DEF Core
  <1>10. QueuedInOrder' /\ HeartbeatsInOrder'
    BY <1>0, <1>2, KeepQueue, KeepHeard DEF Core
  <1>11. \A u : Emptied(u)' <=> Emptied(u)
    BY <1>1, <1>2 DEF Emptied
  <1> QED BY <1>0, <1>5, <1>6, <1>8, <1>9, <1>10, <1>11 DEF Core

LEMMA ReceiveStep ==
    ASSUME Inv, Receive PROVE Inv'
  <1>1. PICK n \in 1..MaxChunk :
            /\ pos + n <= Len(Bytes) /\ pos' = pos + n
            /\ buffer' = buffer \o SubSeq(Bytes, pos + 1, pos + n)
    BY DEF Receive
  <1>2. /\ stream' = stream /\ queue' = queue /\ Heard' = Heard
        /\ beats' = beats /\ unheard' = unheard /\ callback' = callback
        /\ phase' = "line" /\ count' = 0 /\ capped' = {} /\ opened' = opened
    BY DEF Receive, Heard
  <1>3. BufferInv /\ stream \in Streams /\ n \in Nat
    BY LimitsAssumption DEF Inv, Core, BufferInv
  <1>4. /\ BufferInv'
        /\ \A l \in AllUnits : (Gone(l)' <=> Gone(l))
                                /\ (Arrived(l) => Arrived(l)')
        /\ DigitsTaken' <=> DigitsTaken
    BY <1>1, <1>2, <1>3, ReceiveKeeps
  <1>5. Lists'
    <2>1. Byte' = Byte
      BY <1>2, SameStream
    <2> QED BY <1>2, <2>1 DEF Inv, Core, Lists
  <1>6. TakenUnits'
    BY <1>2, <1>3, <1>4, KeepTaken DEF Inv, Core
  <1>7. QueuedInOrder' /\ HeartbeatsInOrder'
    BY <1>2, <1>3, <1>4, KeepQueue, KeepHeard DEF Inv, Core
  <1>8. TakenDigits'
    BY <1>2, <1>4 DEF Inv, Core, TakenDigits
  <1>9. Small'
    BY <1>2, LimitsAssumption DEF Inv, Small, Kinds
  <1>10. Unset' /\ Loops'
    BY <1>2 DEF Inv, Unset, Loops
  <1> QED BY <1>4, <1>5, <1>6, <1>7, <1>8, <1>9, <1>10 DEF Inv, Core

\* Where the loops are after one more packet.
LEMMA ExtractControl ==
    ASSUME Small, phase \in Kinds, NEW m, Extract(m)
    PROVE  /\ Small'
           /\ \/ phase' = phase /\ capped' = capped
              \/ phase' = After(phase) /\ capped' = capped \union {phase}
           /\ callback' = callback /\ stream' = stream /\ pos' = pos
           /\ buffer' = Cut(m)
  <1>1. /\ callback' = callback /\ stream' = stream /\ pos' = pos
        /\ buffer' = Cut(m) /\ opened' = opened
    BY DEF Extract
  <1>2. MaxExtract \in Nat \ {0} /\ count \in Nat /\ count <= MaxExtract - 1
    BY LimitsAssumption DEF Small
  <1>3. After(phase) \in Kinds \union {"wait"}
    BY DEF After, Kinds
  <1>4. CASE Limit(count + 1)
    <2>1. /\ phase' = After(phase) /\ count' = 0
          /\ capped' = capped \union {phase}
      BY <1>4 DEF Extract
    <2> QED BY <1>1, <1>2, <1>3, <2>1 DEF Small
  <1>5. CASE ~Limit(count + 1)
    <2>1. count' = count + 1 /\ phase' = phase /\ capped' = capped
      BY <1>5 DEF Extract
    <2>2. count + 1 \in 0..(MaxExtract - 1)
      BY <1>2, <1>5 DEF Limit
    <2> QED BY <1>1, <2>1, <2>2 DEF Small
  <1> QED BY <1>4, <1>5

LEMMA LoopsNext ==
    ASSUME Loops, phase \in Kinds,
           \A u \in Kinds : Emptied(u) => Emptied(u)',
           \/ phase' = phase /\ capped' = capped
           \/ phase' = After(phase) /\ capped' = capped \union {phase}
           \/ /\ phase' = After(phase) /\ capped' = capped
              /\ \A u \in Kinds : u = phase => Emptied(u)'
    PROVE  Loops'
  <1>1. "line" \in Kinds /\ "beat" \in Kinds /\ "boot" \in Kinds
    BY DEF Kinds
  <1>2. CASE phase' = phase /\ capped' = capped
    BY <1>1, <1>2 DEF Loops
  <1>3. CASE phase = "line" /\ phase' # phase
    <2>1. phase' = "beat" /\ ("line" \notin capped' => Emptied("line")')
      BY <1>1, <1>3 DEF After
    <2> QED BY <2>1 DEF Loops
  <1>4. CASE phase = "beat" /\ phase' # phase
    <2>1. /\ phase' = "boot" /\ ("beat" \notin capped' => Emptied("beat")')
          /\ "line" \notin capped' => "line" \notin capped
      BY <1>1, <1>4 DEF After
    <2> QED BY <1>1, <1>4, <2>1 DEF Loops
  <1>5. CASE phase = "boot" /\ phase' # phase
    <2>1. /\ phase' = "wait" /\ ("boot" \notin capped' => Emptied("boot")')
          /\ "line" \notin capped' => "line" \notin capped
          /\ "beat" \notin capped' => "beat" \notin capped
      BY <1>1, <1>5 DEF After
    <2> QED BY <1>1, <1>5, <2>1 DEF Loops
  <1>6. phase' = phase => capped' = capped
    BY DEF After, Kinds
  <1> QED BY <1>2, <1>3, <1>4, <1>5, <1>6 DEF Kinds

LEMMA NoMatchStep ==
    ASSUME Inv, NoMatch PROVE Inv'
  <1>1. /\ Matches(phase) = {} /\ phase' = After(phase) /\ count' = 0
        /\ UNCHANGED <<stream, pos, buffer, queue, beats, unheard>>
        /\ capped' = capped /\ callback' = callback /\ opened' = opened
        /\ phase \in Kinds
    BY DEF NoMatch, Inv, Small
  <1>2. /\ Core' /\ \A u : Emptied(u)' <=> Emptied(u)
    BY <1>1, CoreSame DEF Inv
  <1>3. \A u \in Kinds : u = phase => Emptied(u)'
    BY <1>1, <1>2, NoneFound DEF Inv, Core, Emptied
  <1>4. Loops'
    BY <1>1, <1>2, <1>3, LoopsNext DEF Inv
  <1>5. Small'
    <2>1. After(phase) \in Kinds \union {"wait"}
      BY <1>1 DEF After, Kinds
    <2>2. 0 \in 0..(MaxExtract - 1)
      BY LimitsAssumption
    <2> QED BY <1>1, <2>1, <2>2 DEF Inv, Small
  <1>6. Unset'
    BY <1>1 DEF Inv, Unset
  <1> QED BY <1>2, <1>4, <1>5, <1>6 DEF Inv

\* The steps of other threads, and the stuttering one.
LEMMA OtherStep ==
    ASSUME Inv, SetCallback \/ OpenHeartbeat \/ UNCHANGED vars PROVE Inv'
  <1>1. /\ UNCHANGED <<stream, pos, buffer, queue, beats, unheard>>
        /\ phase' = phase /\ count' = count /\ capped' = capped
    BY DEF SetCallback, OpenHeartbeat, vars
  <1>2. Core' /\ \A u : Emptied(u)' <=> Emptied(u)
    BY <1>1, CoreSame DEF Inv
  <1>3. /\ callback' \in BOOLEAN /\ opened' \in BOOLEAN
        /\ ~callback' => ~callback
    <2>1. CASE SetCallback
      BY <2>1 DEF SetCallback, Inv, Small
    <2>2. CASE OpenHeartbeat
      BY <2>2 DEF OpenHeartbeat, IsTimeReply, Inv, Small
    <2>3. CASE UNCHANGED vars
      BY <2>3 DEF vars, Inv, Small
    <2> QED BY <2>1, <2>2, <2>3
  <1>4. Small'
    BY <1>1, <1>3 DEF Inv, Small
  <1>5. Unset'
    BY <1>1, <1>3 DEF Inv, Unset
  <1>6. Loops'
    BY <1>1, <1>2 DEF Inv, Loops
  <1> QED BY <1>2, <1>4, <1>5, <1>6 DEF Inv

\* What every extraction does, to the buffer and the loops.
LEMMA ExtractKeeps ==
    ASSUME Inv, phase \in Kinds, Matches(phase) # {},
           NEW m, m = Found(Matches(phase)), Extract(m)
    PROVE  \E n \in Sent(phase) :
              /\ Spanned(m, n) /\ n \in AllUnits /\ Removes(n)
              /\ BufferInv' /\ Small' /\ Loops'
              /\ callback' = callback
              /\ DigitsTaken' <=> DigitsTaken \/ m[1] = m[2] - Size(n)
              /\ m[1] = m[2] - Size(n) => ~DigitsTaken
              /\ \/ m[1] = m[2] - Size(n)
                 \/ /\ m[1] = m[2] - (Size(n) - 1)
                    /\ m[1] # m[2] - Size(n)
              /\ m[1] = m[2] - Size(n) =>
                    stream[1] = "torn_beat" /\ stream[n] = "beat"
  <1>1. BufferInv /\ stream \in Streams /\ Small
    BY DEF Inv, Core, BufferInv
  <1>2. PICK n \in Sent(phase) : Spanned(m, n)
    BY <1>1, FoundSpan
  <1>3. n \in AllUnits /\ stream[n] = phase
    BY <1>1, <1>2, SentUnits
  <1>4. /\ Small'
        /\ \/ phase' = phase /\ capped' = capped
           \/ phase' = After(phase) /\ capped' = capped \union {phase}
        /\ callback' = callback /\ stream' = stream /\ pos' = pos
        /\ buffer' = Cut(m)
    BY <1>1, ExtractControl
  <1>5. /\ BufferInv'
        /\ \A l \in AllUnits :
              stream[l] \in Kinds => (Gone(l)' <=> Gone(l) \/ l = n)
        /\ \A l : Arrived(l)' <=> Arrived(l)
        /\ Arrived(n) /\ ~Gone(n)
        /\ DigitsTaken' <=> DigitsTaken \/ m[1] = m[2] - Size(n)
        /\ m[1] = m[2] - Size(n) =>
              ~DigitsTaken /\ stream[1] = "torn_beat" /\ 1 \in AllUnits
              /\ At(1, 2) = 2
    BY <1>1, <1>2, <1>3, <1>4, CutKeeps
  <1>6. Removes(n)
    BY <1>2, <1>4, <1>5 DEF Removes, Spanned
  <1>7. ASSUME NEW u \in Kinds, Emptied(u) PROVE Emptied(u)'
    <2>1. Sent(u)' = Sent(u)
      BY <1>4, SameStream
    <2>2. \A l \in Sent(u) : l \in AllUnits /\ stream[l] \in Kinds
      BY <1>1, SentUnits
    <2> QED BY <1>5, <1>7, <2>1, <2>2 DEF Emptied
  <1>8. Loops'
    BY <1>4, <1>7, LoopsNext DEF Inv
  <1>9. /\ \/ m[1] = m[2] - Size(n)
           \/ m[1] = m[2] - (Size(n) - 1) /\ m[1] # m[2] - Size(n)
        /\ m[1] = m[2] - Size(n) => stream[n] = "beat"
    <2>1. Size(n) \in Nat /\ m[2] \in Nat
      BY <1>1, <1>2, <1>3, Sizes, Increasing DEF Spanned, Spans
    <2> QED BY <1>2, <2>1 DEF Spanned
  <1> QED BY <1>2, <1>3, <1>4, <1>5, <1>6, <1>8, <1>9

LEMMA ExtractToQueueStep ==
    ASSUME Inv, ExtractToQueue PROVE Inv'
  <1> DEFINE m == Found(Matches(phase))
  <1>1. /\ phase \in {"line", "boot"} /\ phase \in Kinds
        /\ Matches(phase) # {} /\ Extract(m)
        /\ queue' = Append(queue, [type |-> phase, text |-> Text(m)])
        /\ beats' = beats /\ unheard' = unheard
    BY DEF ExtractToQueue, Kinds
  <1> HIDE DEF m
  <1>2. PICK n \in Sent(phase) :
            /\ Spanned(m, n) /\ n \in AllUnits /\ Removes(n)
            /\ BufferInv' /\ Small' /\ Loops'
            /\ callback' = callback
            /\ DigitsTaken' <=> DigitsTaken \/ m[1] = m[2] - Size(n)
            /\ \/ m[1] = m[2] - Size(n)
               \/ m[1] = m[2] - (Size(n) - 1) /\ m[1] # m[2] - Size(n)
            /\ m[1] = m[2] - Size(n) => stream[n] = "beat"
    BY <1>1, ExtractKeeps DEF m
  <1>3. /\ BufferInv /\ stream \in Streams /\ stream[n] = phase
        /\ stream' = stream /\ Heard' = Heard
    BY <1>1, <1>2, SentUnits DEF Inv, Core, BufferInv, Heard, Removes
  <1>4. m[1] = m[2] - (Size(n) - 1) /\ (DigitsTaken' <=> DigitsTaken)
    BY <1>1, <1>2, <1>3
  <1>5. Text(m) = Unit(n) /\ Text(m) \in Seq(Byte)
    BY <1>2, <1>3, <1>4, MatchText
  <1>6. queue' = Append(queue, Packet(n))
    BY <1>1, <1>3, <1>5 DEF Packet
  <1>7. QueuedInOrder' /\ TakenUnits'
    BY <1>1, <1>2, <1>3, <1>6, QueueNext DEF Inv, Core
  <1>8. HeartbeatsInOrder'
    BY <1>2, <1>3, KeepHeard DEF Inv, Core, Removes
  <1>9. TakenDigits'
    BY <1>3, <1>4 DEF Inv, Core, TakenDigits
  <1>10. Lists'
    <2>1. Byte' = Byte
      BY <1>3, SameStream
    <2>2. [type |-> phase, text |-> Text(m)]
            \in [type : {"line", "boot"}, text : Seq(Byte)]
      BY <1>1, <1>5
    <2>3. queue \in Seq([type : {"line", "boot"}, text : Seq(Byte)])
      BY DEF Inv, Core, Lists
    <2>4. queue' \in Seq([type : {"line", "boot"}, text : Seq(Byte)])
      BY <1>1, <2>2, <2>3
    <2> QED BY <1>1, <1>3, <2>1, <2>4 DEF Inv, Core, Lists
  <1>11. Unset'
    BY <1>1, <1>2 DEF Inv, Unset
  <1> QED BY <1>2, <1>7, <1>8, <1>9, <1>10, <1>11 DEF Inv, Core

LEMMA AppendLast ==
    ASSUME NEW S, NEW s \in Seq(S), NEW t \in Seq(S), NEW x \in S
    PROVE  /\ s \o Append(t, x) = Append(s \o t, x)
           /\ Append(s, x) \o <<>> = Append(s \o <<>>, x)
  OBVIOUS

LEMMA ExtractBeatStep ==
    ASSUME Inv, ExtractBeat PROVE Inv'
  <1> DEFINE m == Found(Matches(phase))
             t == Text(m)
  <1>1. /\ phase = "beat" /\ phase \in Kinds
        /\ Matches(phase) # {} /\ Extract(m) /\ queue' = queue
        /\ IF callback THEN beats' = Append(beats, t) /\ unheard' = unheard
           ELSE unheard' = Append(unheard, t) /\ beats' = beats
    BY MatchesAre DEF ExtractBeat, Kinds
  <1> HIDE DEF m
  <1>2. PICK n \in Sent(phase) :
            /\ Spanned(m, n) /\ n \in AllUnits /\ Removes(n)
            /\ BufferInv' /\ Small' /\ Loops'
            /\ callback' = callback
            /\ DigitsTaken' <=> DigitsTaken \/ m[1] = m[2] - Size(n)
            /\ m[1] = m[2] - Size(n) => ~DigitsTaken
            /\ \/ m[1] = m[2] - Size(n)
               \/ m[1] = m[2] - (Size(n) - 1) /\ m[1] # m[2] - Size(n)
            /\ m[1] = m[2] - Size(n) => stream[1] = "torn_beat"
    BY <1>1, ExtractKeeps DEF m
  <1>3. /\ BufferInv /\ stream \in Streams /\ stream[n] = "beat"
        /\ stream' = stream /\ n \in Sent("beat") /\ Lists
    BY <1>1, <1>2, SentUnits DEF Inv, Core, BufferInv, Removes
  <1>4. /\ t \in Seq(Byte)
        /\ m[1] = m[2] - (Size(n) - 1) => t = Unit(n)
        /\ m[1] = m[2] - Size(n) => t = <<Bytes[2]>> \o Unit(n)
    BY <1>2, <1>3, MatchText
  <1> HIDE DEF t
  <1>5. IsBeat(t, n)
    BY <1>2, <1>4 DEF IsBeat
  <1>6. /\ Heard' = Append(Heard, t)
        /\ beats' \in Seq(Seq(Byte)) /\ unheard' \in Seq(Seq(Byte))
    <2>1. beats \in Seq(Seq(Byte)) /\ unheard \in Seq(Seq(Byte))
      BY <1>3 DEF Lists
    <2>2. CASE callback
      <3>1. beats' = Append(beats, t) /\ unheard' = unheard
        BY <1>1, <2>2
      <3>2. unheard \o Append(beats, t) = Append(unheard \o beats, t)
        BY <1>4, <2>1, AppendLast
      <3>3. Append(beats, t) \in Seq(Seq(Byte))
        BY <1>4, <2>1
      <3> QED BY <2>1, <3>1, <3>2, <3>3 DEF Heard
    <2>3. CASE ~callback
      <3>1. beats' = beats /\ unheard' = Append(unheard, t) /\ beats = <<>>
        BY <1>1, <2>3 DEF Inv, Unset
      <3>2. Append(unheard, t) \o <<>> = Append(unheard \o <<>>, t)
        BY <1>4, <2>1, AppendLast
      <3>3. Append(unheard, t) \in Seq(Seq(Byte))
        BY <1>4, <2>1
      <3> QED BY <2>1, <3>1, <3>2, <3>3 DEF Heard
    <2> QED BY <2>2, <2>3
  <1>7. HeartbeatsInOrder' /\ TakenUnits'
    BY <1>1, <1>2, <1>3, <1>5, <1>6, HeardNext DEF Inv, Core
  <1>8. QueuedInOrder'
    BY <1>1, <1>2, <1>3, KeepQueue DEF Inv, Core, Removes
  <1>9. Lists'
    <2>1. Byte' = Byte
      BY <1>3, SameStream
    <2>2. Heard' \in Seq(Seq(Byte))
      BY <1>3, <1>4, <1>6 DEF Lists
    <2> QED BY <1>1, <1>3, <1>6, <2>1, <2>2 DEF Lists
  <1>10. TakenDigits'
    <2> DEFINE L == Len(Heard)
    <2>1. /\ DOMAIN Heard = 1..L /\ L \in Nat
          /\ DOMAIN Heard' = 1..(L + 1)
          /\ \A i \in 1..L : Heard'[i] = Heard[i]
          /\ Heard'[L + 1] = t
      <3>1. Heard \in Seq(Seq(Byte))
        BY <1>3 DEF Lists
      <3> QED BY <1>4, <1>6, <3>1
    <2> HIDE DEF L
    <2>2. \A i \in 1..(L + 1) : i \in 1..L \/ i = L + 1
      BY <2>1
    <2>3. L + 1 \in 1..(L + 1) /\ \A i \in 1..L : i \in 1..(L + 1)
      BY <2>1
    <2>4. TakenDigits
      BY DEF Inv, Core
    <2>5. Len(Unit(n)) = 4 /\ Unit(n) \in Seq(Byte)
      BY <1>2, <1>3, UnitIs, Sizes
    <2>6. CASE m[1] = m[2] - Size(n)
      <3>1. WithDigits(t)
        <4>1. t = <<Bytes[2]>> \o Unit(n) /\ t # Unit(n)
          <5>1. t = <<Bytes[2]>> \o Unit(n)
            BY <1>4, <2>6
          <5>2. Len(<<Bytes[2]>> \o Unit(n)) = 5
            <6> DEFINE b == Bytes[2]
                       v == Unit(n)
            <6>1. b \in Byte /\ v \in Seq(Byte) /\ Len(v) = 4
              BY <1>2, <1>3, <2>5, <2>6, DigitsPlace
            <6> HIDE DEF b, v
            <6>2. Len(<<b>> \o v) = 5
              <7>1. <<b>> \in Seq(Byte) /\ Len(<<b>>) = 1
                BY <6>1
              <7>2. Len(<<b>> \o v) = Len(<<b>>) + Len(v)
                BY <6>1, <7>1, JoinFacts
              <7> QED BY <6>1, <7>1, <7>2
            <6> QED BY <6>2 DEF b, v
          <5> QED BY <2>5, <5>1, <5>2
        <4> QED BY <1>3, <1>5, <4>1, BeatText
      <3>2. DigitsTaken' /\ ~DigitsTaken
        BY <1>2, <2>6
      <3>3. \A i \in 1..L : ~WithDigits(Heard[i])
        BY <2>1, <2>4, <3>2 DEF TakenDigits
      <3>4. \A i \in 1..(L + 1) : WithDigits(Heard'[i]) <=> i = L + 1
        BY <2>1, <2>2, <3>1, <3>3
      <3> QED BY <2>1, <2>3, <3>2, <3>4 DEF TakenDigits
    <2>7. CASE m[1] # m[2] - Size(n)
      <3>1. ~WithDigits(t)
        <4>1. t = Unit(n)
          BY <1>2, <1>4, <2>7
        <4>2. Len(t) = 4
          BY <2>5, <4>1
        <4>3. Len(t) # 5
          BY <4>2
        <4> QED BY <4>3 DEF WithDigits
      <3>2. DigitsTaken' <=> DigitsTaken
        BY <1>2, <2>7
      <3>3. \A i \in 1..(L + 1) :
                WithDigits(Heard'[i]) <=> i \in 1..L /\ WithDigits(Heard[i])
        <4> TAKE i \in 1..(L + 1)
        <4>1. CASE i \in 1..L
          BY <2>1, <4>1
        <4>2. CASE i = L + 1
          <5>1. i \notin 1..L
            BY <2>1, <4>2
          <5> QED BY <2>1, <3>1, <4>2, <5>1
        <4> QED BY <2>2, <4>1, <4>2
      <3> QED BY <2>1, <2>3, <2>4, <3>2, <3>3 DEF TakenDigits
    <2> QED BY <2>6, <2>7
  <1>11. Unset'
    BY <1>1, <1>2 DEF Inv, Unset
  <1> QED BY <1>2, <1>7, <1>8, <1>9, <1>10, <1>11 DEF Inv, Core

LEMMA InvNext == Inv /\ [Next]_vars => Inv'
  <1> SUFFICES ASSUME Inv, [Next]_vars PROVE Inv'
    OBVIOUS
  <1>1. CASE Receive
    BY <1>1, ReceiveStep
  <1>2. CASE ExtractToQueue
    BY <1>2, ExtractToQueueStep
  <1>3. CASE ExtractBeat
    BY <1>3, ExtractBeatStep
  <1>4. CASE NoMatch
    BY <1>4, NoMatchStep
  <1>5. CASE SetCallback \/ OpenHeartbeat \/ UNCHANGED vars
    BY <1>5, OtherStep
  <1> QED BY <1>1, <1>2, <1>3, <1>4, <1>5 DEF Next

\* The invariant of every run.
LEMMA Invariance == Spec => []Inv
  BY InvInit, InvNext, PTL DEF Spec

-----------------------------------------------------------------------------
(* Where the bytes are *)

\* Which slot of Parts has which byte: the four kinds.
InBuffer(i, a, p) == i = 1 /\ a \in DOMAIN buffer /\ buffer[a].at = p

InQueue(i, a, p) ==
    \E n \in AllUnits :
        /\ stream[n] \in {"line", "boot"} /\ i - 1 \in DOMAIN queue
        /\ queue[i - 1] = Packet(n) /\ Gone(n)
        /\ a \in 1..Size(n) /\ p = At(n, a)

InBeat(i, a, p) ==
    LET h == i - (1 + Len(queue))
    IN  \E n \in Sent("beat") : \E k \in 1..4 :
           /\ h \in DOMAIN Heard /\ IsBeat(Heard[h], n) /\ Gone(n)
           /\ a = IF WithDigits(Heard[h]) THEN k + 1 ELSE k
           /\ p = At(n, k)

InDigits(i, a, p) ==
    LET h == i - (1 + Len(queue))
    IN  h \in DOMAIN Heard /\ WithDigits(Heard[h]) /\ a = 1 /\ p = 2

LEMMA PartsAre ==
    ASSUME Inv
    PROVE  LET Q == Len(queue)
               H == Len(Heard)
           IN  /\ Q \in Nat /\ H \in Nat
               /\ DOMAIN queue = 1..Q /\ DOMAIN Heard = 1..H
               /\ DOMAIN Parts = 1..((1 + Q) + H)
               /\ Parts[1] = buffer
               /\ \A i \in 1..Q : Parts[1 + i] = queue[i].text
               /\ \A i \in 1..H : Parts[(1 + Q) + i] = Heard[i]
  <1> DEFINE Q == Len(queue)
             H == Len(Heard)
             T == Seq(Byte)
             x == <<buffer>>
             y == [i \in DOMAIN queue |-> queue[i].text]
             z == Heard
  <1>1. /\ buffer \in T /\ z \in Seq(T)
        /\ queue \in Seq([type : {"line", "boot"}, text : T])
    BY DEF Inv, Core, BufferInv, Lists
  <1>2. Q \in Nat /\ H \in Nat /\ DOMAIN queue = 1..Q /\ DOMAIN Heard = 1..H
    BY <1>1
  <1>3. x \in Seq(T) /\ Len(x) = 1 /\ x[1] = buffer
    BY <1>1
  <1>4. y \in Seq(T) /\ Len(y) = Q /\ \A i \in 1..Q : y[i] = queue[i].text
    <2> DEFINE R == [type : {"line", "boot"}, text : T]
    <2>1. \A i \in 1..Q : queue[i] \in R
      <3>1. queue \in Seq(R)
        BY <1>1
      <3> HIDE DEF R
      <3> QED BY <3>1
    <2>2. \A i \in 1..Q : queue[i].text \in T
      BY <2>1
    <2>3. y = [i \in 1..Q |-> queue[i].text]
      BY <1>2
    <2> HIDE DEF T, y, Q
    <2>4. y \in [1..Q -> T] /\ \A i \in 1..Q : y[i] = queue[i].text
      BY <2>2, <2>3
    <2>5. y \in Seq(T) /\ Len(y) = Q
      BY <1>2, <2>4
    <2> QED BY <2>4, <2>5
  <1>5. Parts = (x \o y) \o z /\ Len(z) = H
    BY DEF Parts
  <1> HIDE DEF x, y, z, Q, H, T
  <1>6. /\ x \o y \in Seq(T) /\ Len(x \o y) = Len(x) + Len(y)
        /\ \A i \in 1..Len(x) : (x \o y)[i] = x[i]
        /\ \A i \in 1..Len(y) : (x \o y)[Len(x) + i] = y[i]
    <2>1. x \in Seq(T) /\ y \in Seq(T)
      BY <1>3, <1>4
    <2> QED BY <2>1, JoinFacts
  <1> DEFINE v == x \o y
  <1>7. /\ v \in Seq(T) /\ Len(v) = 1 + Q
        /\ v[1] = buffer /\ \A i \in 1..Q : v[1 + i] = queue[i].text
    BY <1>3, <1>4, <1>6
  <1>8. Parts = v \o z
    BY <1>5
  <1> HIDE DEF v
  <1>9. /\ v \o z \in Seq(T) /\ Len(v \o z) = Len(v) + Len(z)
        /\ \A i \in 1..Len(v) : (v \o z)[i] = v[i]
        /\ \A i \in 1..Len(z) : (v \o z)[Len(v) + i] = z[i]
    <2>1. v \in Seq(T) /\ z \in Seq(T)
      BY <1>1, <1>7
    <2> QED BY <2>1, JoinFacts
  <1>10. /\ Parts \in Seq(T) /\ Len(Parts) = (1 + Q) + H
         /\ \A i \in 1..(1 + Q) : Parts[i] = v[i]
         /\ \A i \in 1..H : Parts[(1 + Q) + i] = z[i]
    BY <1>5, <1>7, <1>8, <1>9
  <1>11. DOMAIN Parts = 1..((1 + Q) + H)
    BY <1>10
  <1>12. 1 \in 1..(1 + Q) /\ \A i \in 1..Q : 1 + i \in 1..(1 + Q)
    BY <1>2
  <1> QED BY <1>2, <1>7, <1>10, <1>11, <1>12 DEF Q, H, z

\* Each slot is of one of the kinds.
LEMMA SlotKind ==
    ASSUME Inv, NEW i \in DOMAIN Parts, NEW a \in DOMAIN Parts[i]
    PROVE  LET p == Parts[i][a].at
           IN  /\ p \in 1..pos
               /\ \/ InBuffer(i, a, p) \/ InQueue(i, a, p)
                  \/ InBeat(i, a, p) \/ InDigits(i, a, p)
  <1> DEFINE Q == Len(queue)
             H == Len(Heard)
             p == Parts[i][a].at
  <1>0. /\ stream \in Streams /\ BufferInv /\ pos \in Nat
    BY Increasing DEF Inv, Core, BufferInv
  <1>1. /\ Q \in Nat /\ H \in Nat
        /\ DOMAIN queue = 1..Q /\ DOMAIN Heard = 1..H
        /\ i \in 1..((1 + Q) + H)
        /\ Parts[1] = buffer
        /\ \A j \in 1..Q : Parts[1 + j] = queue[j].text
        /\ \A j \in 1..H : Parts[(1 + Q) + j] = Heard[j]
    BY PartsAre
  <1>2. \A n \in AllUnits : \A k \in 1..Size(n) :
            Arrived(n) => At(n, k) \in 1..pos
    <2> TAKE n \in AllUnits
    <2> TAKE k \in 1..Size(n)
    <2>1. /\ At(n, k) \in 1..LastAt(Ends) /\ At(n, k) <= LastAt(n)
          /\ LastAt(n) \in Nat
      BY <1>0, Places
    <2> QED BY <1>0, <2>1 DEF Arrived
  <1>3. CASE i = 1
    <2>1. a \in DOMAIN buffer /\ p = buffer[a].at
      BY <1>1, <1>3
    <2> QED BY <1>0, <1>3, <2>1 DEF InBuffer, BufferInv, Sorted
  <1>4. CASE i - 1 \in 1..Q
    <2>1. 1 + (i - 1) = i
      BY <1>1
    <2>2. Parts[i] = queue[i - 1].text
      BY <1>1, <1>4, <2>1
    <2>3. PICK n \in Sent(queue[i - 1].type) :
              Arrived(n) /\ queue[i - 1] = Packet(n)
      BY <1>1, <1>4 DEF Inv, Core, QueuedInOrder
    <2>4. /\ n \in AllUnits /\ stream[n] = queue[i - 1].type
          /\ queue[i - 1].text = Unit(n)
      BY <1>0, <2>3, SentUnits DEF Packet
    <2>5. stream[n] \in {"line", "boot"}
      <3> DEFINE R == [type : {"line", "boot"}, text : Seq(Byte)]
      <3>1. queue \in Seq(R)
        BY DEF Inv, Core, Lists
      <3>2. \A j \in 1..Len(queue) : queue[j] \in R
        <4> HIDE DEF R
        <4> QED BY <3>1
      <3>3. queue[i - 1] \in R
        BY <1>4, <3>2
      <3> QED BY <2>4, <3>3
    <2>6. a \in 1..Size(n) /\ p = At(n, a)
      BY <1>0, <2>2, <2>4, UnitIs
    <2>7. Gone(n)
      <3>1. Extracted(n)
        BY <1>1, <1>4, <2>3, <2>5 DEF Extracted
      <3> QED BY <2>4, <2>5, <3>1 DEF Inv, Core, TakenUnits, Kinds
    <2> QED BY <1>1, <1>2, <1>4, <2>3, <2>4, <2>5, <2>6, <2>7 DEF InQueue
  <1>5. CASE i - (1 + Q) \in 1..H
    <2> DEFINE h == i - (1 + Q)
    <2>1. (1 + Q) + h = i /\ h \in 1..H /\ h \in DOMAIN Heard
      BY <1>1, <1>5
    <2>2. Parts[i] = Heard[h]
      BY <1>1, <1>5, <2>1
    <2> HIDE DEF h
    <2>3. PICK n \in Sent("beat") : Arrived(n) /\ IsBeat(Heard[h], n)
      BY <2>1 DEF Inv, Core, HeartbeatsInOrder
    <2>4. n \in AllUnits /\ stream[n] = "beat" /\ Size(n) = 4
      BY <1>0, SentUnits, Sizes
    <2>5. Gone(n)
      <3>1. Extracted(n)
        BY <2>1, <2>3, <2>4 DEF Extracted
      <3> QED BY <2>4, <3>1 DEF Inv, Core, TakenUnits, Kinds
    <2>6. \A k \in 1..4 : Unit(n)[k].at = At(n, k)
      BY <1>0, <2>4, UnitIs
    <2>7. CASE ~WithDigits(Heard[h])
      <3>1. /\ Heard[h] \in Seq(Byte) /\ Len(Heard[h]) = 4
            /\ \A k \in 1..4 : Heard[h][k] = Unit(n)[k]
        BY <1>0, <2>3, <2>7, BeatText
      <3>2. a \in 1..4
        BY <2>2, <3>1
      <3>3. p = At(n, a)
        BY <2>2, <2>6, <3>1, <3>2
      <3>4. InBeat(i, a, p)
        BY <2>1, <2>3, <2>5, <2>7, <3>2, <3>3 DEF InBeat, h
      <3> QED BY <1>2, <2>3, <2>4, <3>2, <3>3, <3>4
    <2>8. CASE WithDigits(Heard[h])
      <3>1. /\ Heard[h] \in Seq(Byte) /\ Len(Heard[h]) = 5
            /\ Heard[h][1].at = 2
            /\ \A k \in 1..4 : Heard[h][k + 1] = Unit(n)[k]
        BY <1>0, <2>3, <2>8, BeatText
      <3>2. a \in 1..5
        BY <2>2, <3>1
      <3>3. CASE a = 1
        <4>1. p = 2
          BY <2>2, <3>1, <3>3
        <4>2. 2 <= pos
          BY <2>1, <2>8 DEF Inv, Core, TakenDigits, DigitsTaken
        <4>3. InDigits(i, a, p)
          BY <2>1, <2>8, <3>3, <4>1 DEF InDigits, h
        <4>4. p \in 1..pos
          BY <1>0, <4>1, <4>2
        <4> QED BY <4>3, <4>4
      <3>4. CASE a # 1
        <4>1. a - 1 \in 1..4 /\ a = (a - 1) + 1
          BY <3>2, <3>4
        <4>2. p = At(n, a - 1)
          BY <2>2, <2>6, <3>1, <4>1
        <4>3. InBeat(i, a, p)
          BY <2>1, <2>3, <2>5, <2>8, <4>1, <4>2 DEF InBeat, h
        <4> QED BY <1>2, <2>3, <2>4, <4>1, <4>2, <4>3
      <3> QED BY <3>3, <3>4
    <2> QED BY <2>7, <2>8
  <1> QED BY <1>1, <1>3, <1>4, <1>5

LEMMA QueuedOnce ==
    ASSUME Inv, NEW n \in AllUnits,
           NEW i \in DOMAIN queue, NEW j \in DOMAIN queue,
           queue[i] = Packet(n), queue[j] = Packet(n)
    PROVE  i = j
  <1>0. stream \in Streams /\ n \in Nat
    BY SentUnits DEF Inv, Core, BufferInv
  <1>1. \A h \in DOMAIN queue : queue[h] = Packet(n) =>
            ~ \E g \in 1..(h - 1) : queue[g] = Packet(n)
    <2> SUFFICES ASSUME NEW h \in DOMAIN queue, queue[h] = Packet(n)
                 PROVE  ~ \E g \in 1..(h - 1) : queue[g] = Packet(n)
      OBVIOUS
    <2>1. PICK o \in Sent(queue[h].type) :
              /\ queue[h] = Packet(o)
              /\ \A m \in Sent(queue[h].type) :
                    m < o <=> \E g \in 1..(h - 1) : queue[g] = Packet(m)
      BY DEF Inv, Core, QueuedInOrder
    <2>2. o = n
      BY <1>0, <2>1, PacketOnce, SentUnits
    <2>3. n \in Sent(queue[h].type)
      BY <2>1, <2>2
    <2> QED BY <1>0, <2>1, <2>2, <2>3
  <1>2. i \in Nat \ {0} /\ j \in Nat \ {0}
    BY PartsAre
  <1>3. i < j => i \in 1..(j - 1)
    BY <1>2
  <1>4. j < i => j \in 1..(i - 1)
    BY <1>2
  <1> QED BY <1>1, <1>2, <1>3, <1>4

LEMMA HeardOnce ==
    ASSUME Inv, NEW n \in Sent("beat"),
           NEW i \in DOMAIN Heard, NEW j \in DOMAIN Heard,
           IsBeat(Heard[i], n), IsBeat(Heard[j], n)
    PROVE  i = j
  <1>0. stream \in Streams /\ n \in Nat
    BY SentUnits DEF Inv, Core, BufferInv
  <1>1. \A h \in DOMAIN Heard : IsBeat(Heard[h], n) =>
            ~ \E g \in 1..(h - 1) : IsBeat(Heard[g], n)
    <2> SUFFICES ASSUME NEW h \in DOMAIN Heard, IsBeat(Heard[h], n)
                 PROVE  ~ \E g \in 1..(h - 1) : IsBeat(Heard[g], n)
      OBVIOUS
    <2>1. PICK o \in Sent("beat") :
              /\ IsBeat(Heard[h], o)
              /\ \A m \in Sent("beat") :
                    m < o <=> \E g \in 1..(h - 1) : IsBeat(Heard[g], m)
      BY DEF Inv, Core, HeartbeatsInOrder
    <2>2. o = n
      BY <1>0, <2>1, BeatOnce
    <2> QED BY <1>0, <2>1, <2>2
  <1>2. i \in Nat \ {0} /\ j \in Nat \ {0}
    BY PartsAre
  <1>3. i < j => i \in 1..(j - 1)
    BY <1>2
  <1>4. j < i => j \in 1..(i - 1)
    BY <1>2
  <1> QED BY <1>1, <1>2, <1>3, <1>4

\* A byte of a unit that was taken out is not in the buffer.
LEMMA GoneBytes ==
    ASSUME Inv, NEW n \in AllUnits, Gone(n), stream[n] \in Kinds,
           NEW k \in 1..Size(n)
    PROVE  ~Kept(At(n, k))
  <1>1. stream \in Streams
    BY DEF Inv, Core, BufferInv
  <1>2. Size(n) \in 1..Size(n) /\ At(n, Size(n)) = LastAt(n)
        /\ stream[n] # "torn_beat"
    BY <1>1, Sizes, Places DEF Kinds
  <1>3. At(n, Size(n)) <= pos /\ ~Kept(At(n, Size(n)))
    BY <1>2 DEF Gone, Arrived
  <1> QED BY <1>2, <1>3 DEF Inv, Core, BufferInv, Whole

\* No byte is in two slots.
LEMMA SlotOnce ==
    ASSUME Inv, NEW i \in DOMAIN Parts, NEW j \in DOMAIN Parts,
           NEW a \in DOMAIN Parts[i], NEW b \in DOMAIN Parts[j],
           Parts[i][a].at = Parts[j][b].at
    PROVE  i = j /\ a = b
  <1> DEFINE p == Parts[i][a].at
             Somewhere(x, y) == \/ InBuffer(x, y, p) \/ InQueue(x, y, p)
                                \/ InBeat(x, y, p) \/ InDigits(x, y, p)
  <1>0. /\ stream \in Streams /\ BufferInv /\ TakenDigits
        /\ i \in Int /\ j \in Int /\ Len(queue) \in Nat
    BY PartsAre DEF Inv, Core, BufferInv
  <1>1. Somewhere(i, a) /\ Somewhere(j, b)
    BY SlotKind
  <1> HIDE DEF p
  \* What each kind says of the byte.
  <1>2. \A x, y : InBuffer(x, y, p) => Kept(p)
    BY DEF InBuffer, Kept
  <1>3. \A x, y : InQueue(x, y, p) =>
            ~Kept(p) /\ \E n \in AllUnits : \E k \in 1..Size(n) :
                           p = At(n, k) /\ stream[n] \in {"line", "boot"}
    BY GoneBytes DEF InQueue, Kinds
  <1>4. \A x, y : InBeat(x, y, p) =>
            ~Kept(p) /\ \E n \in AllUnits : \E k \in 1..Size(n) :
                           p = At(n, k) /\ stream[n] = "beat"
    <2> TAKE x, y
    <2> HAVE InBeat(x, y, p)
    <2>1. PICK n \in Sent("beat") : \E k \in 1..4 : Gone(n) /\ p = At(n, k)
      BY DEF InBeat
    <2>2. n \in AllUnits /\ stream[n] = "beat" /\ Size(n) = 4
      BY <1>0, SentUnits, Sizes
    <2> QED BY <2>1, <2>2, GoneBytes DEF Kinds
  <1>5. \A x, y : InDigits(x, y, p) =>
            ~Kept(p) /\ \E n \in AllUnits : \E k \in 1..Size(n) :
                           p = At(n, k) /\ stream[n] = "torn_beat"
    <2> TAKE x, y
    <2> HAVE InDigits(x, y, p)
    <2>1. DigitsTaken /\ p = 2
      BY <1>0 DEF InDigits, TakenDigits
    <2>2. 1 \in AllUnits /\ stream[1] = "torn_beat" /\ ~Kept(2)
      BY <2>1 DEF DigitsTaken
    <2>3. Size(1) = 2 /\ At(1, 2) = 2
      BY <1>0, <2>2, DigitsPlace
    <2>4. 2 \in 1..Size(1)
      BY <2>3
    <2> QED BY <2>1, <2>2, <2>3, <2>4
  <1>6. \A m, n \in AllUnits : \A k \in 1..Size(m) : \A l \in 1..Size(n) :
            At(m, k) = At(n, l) => m = n /\ k = l
    BY <1>0, PlaceOnce
  \* Two slots of one kind.
  <1>7. ASSUME InBuffer(i, a, p), InBuffer(j, b, p) PROVE i = j /\ a = b
    BY <1>0, <1>7, Increasing DEF InBuffer
  <1>8. ASSUME InQueue(i, a, p), InQueue(j, b, p) PROVE i = j /\ a = b
    <2>1. PICK m \in AllUnits : /\ i - 1 \in DOMAIN queue
                                /\ queue[i - 1] = Packet(m)
                                /\ a \in 1..Size(m) /\ p = At(m, a)
      BY <1>8 DEF InQueue
    <2>2. PICK n \in AllUnits : /\ j - 1 \in DOMAIN queue
                                /\ queue[j - 1] = Packet(n)
                                /\ b \in 1..Size(n) /\ p = At(n, b)
      BY <1>8 DEF InQueue
    <2>3. m = n /\ a = b
      <3>1. At(m, a) = At(n, b)
        BY <2>1, <2>2
      <3> QED BY <1>0, <2>1, <2>2, <3>1, PlaceOnce
    <2>4. i - 1 = j - 1
      BY <2>1, <2>2, <2>3, QueuedOnce
    <2> QED BY <1>0, <2>3, <2>4
  <1>9. ASSUME InBeat(i, a, p), InBeat(j, b, p) PROVE i = j /\ a = b
    <2> DEFINE g == i - (1 + Len(queue))
               h == j - (1 + Len(queue))
    <2>1. PICK m \in Sent("beat") : \E k \in 1..4 :
              /\ g \in DOMAIN Heard /\ IsBeat(Heard[g], m)
              /\ a = IF WithDigits(Heard[g]) THEN k + 1 ELSE k
              /\ p = At(m, k)
      BY <1>9 DEF InBeat
    <2>2. PICK n \in Sent("beat") : \E k \in 1..4 :
              /\ h \in DOMAIN Heard /\ IsBeat(Heard[h], n)
              /\ b = IF WithDigits(Heard[h]) THEN k + 1 ELSE k
              /\ p = At(n, k)
      BY <1>9 DEF InBeat
    <2>3. PICK k \in 1..4 :
              /\ g \in DOMAIN Heard /\ IsBeat(Heard[g], m)
              /\ a = IF WithDigits(Heard[g]) THEN k + 1 ELSE k
              /\ p = At(m, k)
      BY <2>1
    <2>4. PICK l \in 1..4 :
              /\ h \in DOMAIN Heard /\ IsBeat(Heard[h], n)
              /\ b = IF WithDigits(Heard[h]) THEN l + 1 ELSE l
              /\ p = At(n, l)
      BY <2>2
    <2>5. m \in AllUnits /\ n \in AllUnits /\ Size(m) = 4 /\ Size(n) = 4
      BY <1>0, SentUnits, Sizes
    <2>6. m = n /\ k = l
      <3>1. At(m, k) = At(n, l)
        BY <2>3, <2>4
      <3>2. k \in 1..Size(m) /\ l \in 1..Size(n)
        BY <2>5
      <3> QED BY <1>0, <2>5, <3>1, <3>2, PlaceOnce
    <2>7. g = h
      <3> HIDE DEF g, h
      <3> QED BY <2>3, <2>4, <2>6, HeardOnce
    <2>8. i = j
      BY <1>0, <2>7
    <2> QED BY <2>3, <2>4, <2>6, <2>7, <2>8
  <1>10. ASSUME InDigits(i, a, p), InDigits(j, b, p) PROVE i = j /\ a = b
    <2>1. i - (1 + Len(queue)) = j - (1 + Len(queue)) /\ a = 1 /\ b = 1
      BY <1>0, <1>10 DEF InDigits, TakenDigits
    <2> QED BY <1>0, <2>1
  <1> HIDE DEF Somewhere
  <1>11. \/ InBuffer(i, a, p) /\ InBuffer(j, b, p)
         \/ InQueue(i, a, p) /\ InQueue(j, b, p)
         \/ InBeat(i, a, p) /\ InBeat(j, b, p)
         \/ InDigits(i, a, p) /\ InDigits(j, b, p)
    <2> DEFINE Of(us) == \E n \in AllUnits : \E k \in 1..Size(n) :
                            p = At(n, k) /\ stream[n] \in us
    <2>1. ~(Of({"line", "boot"}) /\ Of({"beat"}))
      BY <1>6
    <2>2. ~(Of({"line", "boot"}) /\ Of({"torn_beat"}))
      BY <1>6
    <2>3. ~(Of({"beat"}) /\ Of({"torn_beat"}))
      BY <1>6
    <2>4. /\ \A x, y : InQueue(x, y, p) => ~Kept(p) /\ Of({"line", "boot"})
          /\ \A x, y : InBeat(x, y, p) => ~Kept(p) /\ Of({"beat"})
          /\ \A x, y : InDigits(x, y, p) => ~Kept(p) /\ Of({"torn_beat"})
      BY <1>3, <1>4, <1>5
    <2> HIDE DEF Of
    <2> QED BY <1>1, <1>2, <2>1, <2>2, <2>3, <2>4 DEF Somewhere
  <1> QED BY <1>7, <1>8, <1>9, <1>10, <1>11

\* Every byte that arrived is in a slot.
LEMMA SlotExists ==
    ASSUME Inv, NEW p \in 1..pos
    PROVE  \E i \in DOMAIN Parts : \E a \in DOMAIN Parts[i] :
              Parts[i][a].at = p
  <1> DEFINE Q == Len(queue)
             H == Len(Heard)
  <1>0. /\ stream \in Streams /\ BufferInv /\ pos \in Nat
        /\ p \in 1..LastAt(Ends) /\ p <= pos
    <2>1. stream \in Streams /\ BufferInv /\ pos \in 0..LastAt(Ends)
      BY DEF Inv, Core, BufferInv
    <2>2. LastAt(Ends) \in Nat
      BY <2>1, BytesAre
    <2> QED BY <2>1, <2>2
  <1>1. /\ Q \in Nat /\ H \in Nat
        /\ DOMAIN queue = 1..Q /\ DOMAIN Heard = 1..H
        /\ DOMAIN Parts = 1..((1 + Q) + H)
        /\ Parts[1] = buffer
        /\ \A j \in 1..Q : Parts[1 + j] = queue[j].text
        /\ \A j \in 1..H : Parts[(1 + Q) + j] = Heard[j]
    BY PartsAre
  <1>2. /\ 1 \in DOMAIN Parts
        /\ \A j \in 1..Q : 1 + j \in DOMAIN Parts
        /\ \A j \in 1..H : (1 + Q) + j \in DOMAIN Parts
    BY <1>1
  <1> HIDE DEF Q, H
  <1>3. PICK n \in AllUnits : \E k \in 1..Size(n) : p = At(n, k)
    BY <1>0, EveryPlace DEF Ends, AllUnits
  <1>4. PICK k \in 1..Size(n) : p = At(n, k)
    BY <1>3
  <1>5. CASE Kept(p)
    <2>1. PICK a \in DOMAIN buffer : buffer[a].at = p
      BY <1>5 DEF Kept
    <2> QED BY <1>1, <1>2, <2>1
  <1>6. CASE ~Kept(p) /\ stream[n] = "torn_beat" /\ k # 1
    <2>1. n = 1
      BY <1>0, <1>6, SentUnits DEF Torn
    <2>2. Size(1) = 2 /\ At(1, 2) = 2 /\ 1 \in AllUnits /\ stream[1] = "torn_beat"
      BY <1>0, <1>6, <2>1, DigitsPlace
    <2>3. k = 2 /\ p = 2
      BY <1>4, <1>6, <2>1, <2>2
    <2>4. DigitsTaken
      BY <1>0, <1>6, <2>2, <2>3 DEF DigitsTaken
    <2>5. PICK h \in 1..H : WithDigits(Heard[h])
      BY <1>1, <2>4 DEF Inv, Core, TakenDigits
    <2>6. PICK m \in Sent("beat") : IsBeat(Heard[h], m)
      BY <1>1 DEF Inv, Core, HeartbeatsInOrder
    <2>7. /\ Heard[h] \in Seq(Byte) /\ Len(Heard[h]) = 5 /\ Heard[h][1].at = 2
      BY <1>0, <2>5, <2>6, BeatText
    <2>8. 1 \in DOMAIN Heard[h]
      BY <2>7
    <2>9. (1 + Q) + h \in DOMAIN Parts /\ Parts[(1 + Q) + h] = Heard[h]
      BY <1>1, <1>2
    <2>10. 1 \in DOMAIN Parts[(1 + Q) + h] /\ Parts[(1 + Q) + h][1].at = p
      BY <2>3, <2>7, <2>8, <2>9
    <2> QED BY <2>9, <2>10
  <1>7. CASE ~Kept(p) /\ ~(stream[n] = "torn_beat" /\ k # 1)
    <2>1. stream[n] \notin Torn /\ Arrived(n) /\ ~Kept(LastAt(n))
      <3>1. /\ stream[n] \notin Torn /\ Arrived(n)
            /\ \A h \in 1..Size(n) : ~Kept(At(n, h))
        BY <1>0, <1>4, <1>7 DEF BufferInv, Whole
      <3>2. Size(n) \in 1..Size(n) /\ At(n, Size(n)) = LastAt(n)
        BY <1>0, Sizes, Places
      <3> QED BY <3>1, <3>2
    <2>2. stream[n] \in Kinds /\ Extracted(n)
      <3>1. stream[n] \in Kinds
        BY <1>0, <2>1, SentUnits
      <3> QED BY <2>1, <3>1 DEF Gone, Inv, Core, TakenUnits
    <2>3. /\ Unit(n) \in Seq(Byte) /\ DOMAIN Unit(n) = 1..Size(n)
          /\ Unit(n)[k].at = p
      BY <1>0, <1>4, UnitIs
    <2>4. CASE stream[n] # "beat"
      <3>1. PICK i \in 1..Q : queue[i] = Packet(n)
        BY <1>1, <2>2, <2>4 DEF Extracted
      <3>2. Parts[1 + i] = Unit(n)
        BY <1>1, <3>1 DEF Packet
      <3> QED BY <1>2, <2>3, <3>2
    <2>5. CASE stream[n] = "beat"
      <3>1. PICK h \in 1..H : IsBeat(Heard[h], n)
        BY <1>1, <2>2, <2>5 DEF Extracted
      <3>2. n \in Sent("beat") /\ Size(n) = 4
        BY <1>0, <2>5, SentUnits, Sizes
      <3>3. \/ \A l \in 1..4 : l \in DOMAIN Heard[h] /\ Heard[h][l] = Unit(n)[l]
            \/ \A l \in 1..4 : /\ l + 1 \in DOMAIN Heard[h]
                               /\ Heard[h][l + 1] = Unit(n)[l]
        <4>1. /\ Heard[h] \in Seq(Byte)
              /\ \/ /\ Len(Heard[h]) = 4
                    /\ \A l \in 1..4 : Heard[h][l] = Unit(n)[l]
                 \/ /\ Len(Heard[h]) = 5
                    /\ \A l \in 1..4 : Heard[h][l + 1] = Unit(n)[l]
          BY <1>0, <3>1, <3>2, BeatText
        <4> QED BY <4>1
      <3>4. \E a \in DOMAIN Heard[h] : Heard[h][a].at = p
        BY <1>4, <2>3, <3>2, <3>3
      <3> QED BY <1>1, <1>2, <3>4
    <2> QED BY <2>4, <2>5
  <1> QED BY <1>5, <1>6, <1>7

LEMMA Conserved == Inv => BytesConserved
  <1> SUFFICES ASSUME Inv PROVE BytesConserved
    OBVIOUS
  <1> DEFINE at == [s \in Slots |-> Parts[s[1]][s[2]].at]
  <1>1. \A s \in Slots : /\ s[1] \in DOMAIN Parts /\ s[2] \in DOMAIN Parts[s[1]]
                         /\ s = <<s[1], s[2]>>
    BY DEF Slots
  <1>2. \A i \in DOMAIN Parts : \A a \in DOMAIN Parts[i] :
            /\ <<i, a>> \in Slots
            /\ <<i, a>>[1] = i /\ <<i, a>>[2] = a
    BY DEF Slots
  <1>3. IsInjective(at)
    <2> SUFFICES ASSUME NEW s \in Slots, NEW t \in Slots, at[s] = at[t]
                 PROVE  s = t
      BY DEF IsInjective
    <2>1. Parts[s[1]][s[2]].at = Parts[t[1]][t[2]].at
      OBVIOUS
    <2>2. s[1] = t[1] /\ s[2] = t[2]
      BY <1>1, <2>1, SlotOnce
    <2> QED BY <1>1, <2>2
  <1>4. Range(at) = 1..pos
    <2>1. ASSUME NEW s \in Slots PROVE at[s] \in 1..pos
      BY <1>1, SlotKind
    <2>2. ASSUME NEW p \in 1..pos PROVE \E s \in Slots : at[s] = p
      <3>1. PICK i \in DOMAIN Parts : \E a \in DOMAIN Parts[i] :
                Parts[i][a].at = p
        BY SlotExists
      <3>2. PICK a \in DOMAIN Parts[i] : Parts[i][a].at = p
        BY <3>1
      <3>3. <<i, a>> \in Slots /\ <<i, a>>[1] = i /\ <<i, a>>[2] = a
        BY <1>2
      <3>4. at[<<i, a>>] = Parts[i][a].at
        BY <3>3
      <3> QED BY <3>2, <3>3, <3>4
    <2>3. DOMAIN at = Slots
      OBVIOUS
    <2> HIDE DEF at
    <2> QED BY <2>1, <2>2, <2>3 DEF Range
  <1>5. \A i, j \in DOMAIN buffer : i < j => buffer[i].at < buffer[j].at
    BY DEF Inv, Core, BufferInv, Sorted
  <1> QED BY <1>3, <1>4, <1>5 DEF BytesConserved

-----------------------------------------------------------------------------
(* The theorems *)

\* The variables have the values the code can give them: a byte in the buffer
\* or in a packet is one that was sent, and a loop counts below its limit.
THEOREM TypeCorrect == Spec => []TypeOK
  <1>1. Inv => TypeOK
    <2> SUFFICES ASSUME Inv PROVE TypeOK
      OBVIOUS
    <2>1. stream \in Streams /\ pos \in 0..LastAt(Ends) /\ buffer \in Seq(Byte)
      BY DEF Inv, Core, BufferInv
    <2>2. pos \in 0..Len(Bytes)
      BY <2>1, BytesAre
    <2> QED BY <2>1, <2>2 DEF Inv, Core, Lists, Small, Kinds, Byte, Names, TypeOK
  <1> QED BY <1>1, Invariance, PTL

\* Whatever the stream, the reads and the limit, the queue has the lines and
\* the reboot answers whole, once and in the order they were sent.
THEOREM QueuedInOrderHolds == Spec => []QueuedInOrder
  <1>1. Inv => QueuedInOrder
    BY DEF Inv, Core
  <1> QED BY <1>1, Invariance, PTL

\* The heartbeats are heard whole, once and in order, but for the digits that
\* the first one after a torn one brings.
THEOREM HeartbeatsInOrderHolds == Spec => []HeartbeatsInOrder
  <1>1. Inv => HeartbeatsInOrder
    BY DEF Inv, Core
  <1> QED BY <1>1, Invariance, PTL

\* Each byte that arrived is in the buffer or in one packet.
THEOREM BytesConservedHolds == Spec => []BytesConserved
  BY Conserved, Invariance, PTL

\* The receiver waits with a whole packet in the buffer only when the loop of
\* its kind stopped at the limit.
THEOREM NothingLeftBehindHolds == Spec => []NothingLeftBehind
  <1>1. Inv => NothingLeftBehind
    <2> SUFFICES ASSUME Inv, phase = "wait", NEW u \in Kinds \ capped,
                        NEW n \in Sent(u), Arrived(n)
                 PROVE  Extracted(n)
      BY DEF NothingLeftBehind, Kinds
    <2>1. Emptied(u)
      BY DEF Inv, Loops, Kinds
    <2>2. n \in AllUnits /\ stream[n] \in Kinds
      BY SentUnits DEF Inv, Core, BufferInv
    <2> QED BY <2>1, <2>2 DEF Emptied, Inv, Core, TakenUnits
  <1> QED BY <1>1, Invariance, PTL

=============================================================================
