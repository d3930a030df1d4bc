--------------------------- MODULE SchedulerProofs ---------------------------
(***************************************************************************)
(* Proofs about Scheduler, for any scheduled tasks, triggers and bounds.   *)
(***************************************************************************)
EXTENDS Scheduler, TLAPS, FiniteSetTheorems, SequenceTheorems, WellFoundedInduction

-----------------------------------------------------------------------------
(***************************************************************************)
(* Induction over an interval, and what Keep computes.                     *)
(***************************************************************************)

LEMMA LeastOfNats ==
  ASSUME NEW T \in SUBSET Nat, T # {}
  PROVE  \E n \in T : \A m \in T : n <= m
<1> DEFINE R == OpToRel(<, Nat)
<1>1. IsWellFoundedOn(R, Nat)
  BY NatLessThanWellFounded
<1>2. R = {ss \in Nat \X Nat : ss[1] < ss[2]}
  BY DEF OpToRel
<1> HIDE DEF R
<1>3. PICK n \in T : \A m \in T : <<m, n>> \notin R
  BY <1>1, WFMin
<1>4. ASSUME NEW m \in T PROVE n <= m
  <2>1. <<m, n>> \in Nat \X Nat /\ <<m, n>>[1] = m /\ <<m, n>>[2] = n
    OBVIOUS
  <2>2. ~(m < n)
    BY <1>2, <1>3, <2>1
  <2>3. QED
    BY <2>2
<1>5. QED
  BY <1>4

LEMMA UpTo ==
  ASSUME NEW n \in Nat, NEW T, 0 \in T, \A i \in 0 .. n - 1 : i \in T => i + 1 \in T
  PROVE  \A i \in 0 .. n : i \in T
<1>1. SUFFICES ASSUME (0 .. n) \ T # {} PROVE FALSE
  OBVIOUS
<1> DEFINE U == (0 .. n) \ T
<1>u. U \in SUBSET Nat /\ U # {}
  BY <1>1
<1> HIDE DEF U
<1>2a. PICK m \in U : \A k \in U : m <= k
  BY <1>u, LeastOfNats
<1>2. m \in (0 .. n) \ T /\ \A k \in (0 .. n) \ T : m <= k
  BY <1>2a DEF U
<1>3. m # 0 /\ m - 1 \in 0 .. n - 1 /\ m - 1 \in 0 .. n /\ ~(m <= m - 1) /\ m - 1 + 1 = m
  BY <1>2
<1>4. m - 1 \in T
  BY <1>2, <1>3
<1>5. QED
  BY <1>2, <1>3, <1>4

\* The recursive function of Keep, on the first n members.
KeptNext(f, list, S, i) ==
    IF i = 0 THEN <<>>
    ELSE IF list[i] \in S THEN Append(f[i - 1], list[i]) ELSE f[i - 1]

IsKept(f, list, S, n) == f = [i \in 0 .. n |-> KeptNext(f, list, S, i)]

LEMMA KeptExists ==
  ASSUME NEW list, NEW S, NEW n \in Nat
  PROVE  \E f : IsKept(f, list, S, n)
<1> DEFINE T == {m \in Nat : \E f : IsKept(f, list, S, m)}
<1>1. 0 \in T
  <2>1. IsKept([i \in 0 .. 0 |-> <<>>], list, S, 0)
    BY DEF IsKept, KeptNext
  <2>2. QED
    BY <2>1
<1>2. ASSUME NEW m \in 0 .. n - 1, m \in T PROVE m + 1 \in T
  <2>1. PICK f : IsKept(f, list, S, m)
    BY <1>2
  <2>2. PICK g : g = [i \in 0 .. m + 1 |-> IF i = m + 1 THEN KeptNext(f, list, S, m + 1) ELSE f[i]]
    OBVIOUS
  <2>3. \A i \in 0 .. m : g[i] = f[i] /\ f[i] = KeptNext(f, list, S, i)
    BY <2>1, <2>2 DEF IsKept
  <2>4. ASSUME NEW i \in 0 .. m + 1 PROVE g[i] = KeptNext(g, list, S, i)
    <3>1. CASE i = m + 1
      <4>1. g[i] = KeptNext(f, list, S, i) /\ i # 0 /\ i - 1 \in 0 .. m
        BY <2>2, <3>1
      <4>2. g[i - 1] = f[i - 1]
        BY <2>3, <4>1
      <4>3. QED
        BY <4>1, <4>2 DEF KeptNext
    <3>2. CASE i # m + 1
      <4>1. i \in 0 .. m /\ (i # 0 => i - 1 \in 0 .. m)
        BY <3>2
      <4>2. g[i] = KeptNext(f, list, S, i) /\ (i # 0 => g[i - 1] = f[i - 1])
        BY <2>3, <4>1
      <4>3. QED
        BY <4>2 DEF KeptNext
    <3>3. QED
      BY <3>1, <3>2
  <2>5. g = [i \in 0 .. m + 1 |-> KeptNext(g, list, S, i)]
    BY <2>2, <2>4
  <2>6. m + 1 \in Nat /\ IsKept(g, list, S, m + 1)
    BY <2>5 DEF IsKept
  <2>7. QED
    BY <2>6
<1> HIDE DEF T
<1>3. \A i \in 0 .. n : i \in T
  BY <1>1, <1>2, UpTo
<1>4. n \in T
  BY <1>3
<1>5. QED
  BY <1>4 DEF T

LEMMA KeepIsKept ==
  ASSUME NEW list, NEW S, Len(list) \in Nat
  PROVE  \E f : IsKept(f, list, S, Len(list)) /\ Keep(list, S) = f[Len(list)]
<1>1. \E f : IsKept(f, list, S, Len(list))
  BY KeptExists
<1>2. \E f : f = [i \in 0 .. Len(list) |->
                     IF i = 0 THEN <<>>
                     ELSE IF list[i] \in S THEN Append(f[i - 1], list[i]) ELSE f[i - 1]]
  BY <1>1 DEF IsKept, KeptNext
<1>3. QED
  BY <1>2, Zenon DEF Keep, IsKept, KeptNext

LEMMA KeepMembers ==
  ASSUME NEW L, NEW list \in Seq(L), NEW S
  PROVE  /\ Keep(list, S) \in Seq(L \cap S)
         /\ \A x \in L : Contains(Keep(list, S), x) <=> x \in S /\ Contains(list, x)
<1>1. PICK n : n = Len(list) /\ n \in Nat
  BY LenProperties
<1>2. PICK f : IsKept(f, list, S, n) /\ Keep(list, S) = f[n]
  BY <1>1, KeepIsKept
<1>3. \A i \in 0 .. n : f[i] = KeptNext(f, list, S, i)
  BY <1>2 DEF IsKept
<1>4. \A i \in 1 .. n : list[i] \in L
  BY <1>1, ElementOfSeq
<1> DEFINE Good(m) == /\ f[m] \in Seq(L \cap S)
                      /\ \A x \in L : (\E i \in 1 .. Len(f[m]) : f[m][i] = x)
                                      <=> x \in S /\ \E i \in 1 .. m : list[i] = x
           T == {m \in 0 .. n : Good(m)}
<1>5. 0 \in T
  <2>1. f[0] = <<>> /\ 0 \in 0 .. n
    BY <1>1, <1>3 DEF KeptNext
  <2>2. Len(<<>>) = 0 /\ <<>> \in Seq(L \cap S)
    OBVIOUS
  <2>3. \A i : i \notin 1 .. 0
    OBVIOUS
  <2>4. Good(0)
    BY <2>1, <2>2, <2>3
  <2>5. QED
    BY <2>1, <2>4
<1>6. ASSUME NEW m \in 0 .. n - 1, m \in T PROVE m + 1 \in T
  <2>1. PICK k, s, t, x : k = m + 1 /\ s = f[m] /\ t = f[m + 1] /\ x = list[m + 1]
    OBVIOUS
  <2>2. /\ k \in 0 .. n /\ k # 0 /\ k - 1 = m /\ x \in L /\ s \in Seq(L \cap S)
        /\ \A y \in L : (\E i \in 1 .. Len(s) : s[i] = y)
                        <=> y \in S /\ \E i \in 1 .. m : list[i] = y
    BY <1>1, <1>4, <1>6, <2>1
  <2>3. t = IF x \in S THEN Append(s, x) ELSE s
    BY <1>3, <2>1, <2>2 DEF KeptNext
  <2>4. \A i \in 1 .. k : i \in 1 .. m \/ i = k
    BY <2>1, <2>2
  <2>5. \A i \in 1 .. m : i \in 1 .. k
    BY <2>1, <2>2
  <2>6. k \in 1 .. k /\ list[k] = x
    BY <2>1, <2>2
  <2>7. CASE x \in S
    <3>1. /\ t \in Seq(L \cap S) /\ Len(t) = Len(s) + 1 /\ Len(s) \in Nat
          /\ \A i \in 1 .. Len(s) : t[i] = s[i]
          /\ t[Len(s) + 1] = x
      BY <2>2, <2>3, <2>7, AppendProperties, LenProperties
    <3>2. ASSUME NEW y \in L
          PROVE  (\E i \in 1 .. Len(t) : t[i] = y) <=> (y = x \/ \E i \in 1 .. Len(s) : s[i] = y)
      BY <3>1
    <3>3. \A y \in L : (\E i \in 1 .. k : list[i] = y) <=> (y = x \/ \E i \in 1 .. m : list[i] = y)
      BY <2>4, <2>5, <2>6
    <3>4. \A y \in L : (\E i \in 1 .. Len(t) : t[i] = y) <=> y \in S /\ \E i \in 1 .. k : list[i] = y
      BY <2>2, <2>7, <3>2, <3>3
    <3>5. QED
      BY <2>1, <2>2, <3>1, <3>4
  <2>8. CASE x \notin S
    <3>1. \A y \in L : y \in S => ((\E i \in 1 .. k : list[i] = y) <=> \E i \in 1 .. m : list[i] = y)
      BY <2>4, <2>5, <2>6, <2>8
    <3>2. \A y \in L : (\E i \in 1 .. Len(t) : t[i] = y) <=> y \in S /\ \E i \in 1 .. k : list[i] = y
      BY <2>2, <2>3, <2>8, <3>1
    <3>3. t \in Seq(L \cap S)
      BY <2>2, <2>3, <2>8
    <3>4. Good(k)
      BY <2>1, <3>2, <3>3
    <3>5. QED
      BY <2>1, <2>2, <3>4
  <2>9. QED
    BY <2>7, <2>8
<1> HIDE DEF T
<1>7. \A i \in 0 .. n : i \in T
  BY <1>1, <1>5, <1>6, UpTo
<1>8. n \in T
  BY <1>1, <1>7
<1>9. /\ Keep(list, S) \in Seq(L \cap S)
      /\ \A x \in L : (\E i \in 1 .. Len(Keep(list, S)) : Keep(list, S)[i] = x)
                      <=> x \in S /\ \E i \in 1 .. Len(list) : list[i] = x
  BY <1>1, <1>2, <1>8 DEF T
<1>10. QED
  BY <1>9 DEF Contains

-----------------------------------------------------------------------------
(***************************************************************************)
(* Lemmas about the lists of results, and the tasks' counters.             *)
(***************************************************************************)

OkIn(q) == {i \in DOMAIN q : q[i].ok}

LEMMA OkFinite ==
  ASSUME NEW q \in Seq(Results)
  PROVE  /\ IsFiniteSet(OkIn(q)) /\ Cardinality(OkIn(q)) \in Nat
         /\ OkIn(q) \subseteq 1 .. Len(q)
<1>1. Len(q) \in Nat /\ DOMAIN q = 1 .. Len(q)
  BY LenProperties
<1>2. OkIn(q) \in SUBSET (1 .. Len(q))
  BY <1>1 DEF OkIn
<1>3. IsFiniteSet(1 .. Len(q))
  BY <1>1, FS_Interval
<1>4. QED
  BY <1>2, <1>3, FS_Subset, FS_CardinalityType

LEMMA OkEmpty == Cardinality(OkIn(<<>>)) = 0
<1>1. OkIn(<<>>) = {}
  BY DEF OkIn
<1>2. QED
  BY <1>1, FS_EmptySet

\* A further result adds one success, if it is one.
LEMMA OkAppend ==
  ASSUME NEW q \in Seq(Results), NEW r \in Results
  PROVE  Cardinality(OkIn(Append(q, r))) = Cardinality(OkIn(q)) + (IF r.ok THEN 1 ELSE 0)
<1>1. /\ Len(q) \in Nat /\ Len(q) + 1 \notin 1 .. Len(q)
      /\ DOMAIN q = 1 .. Len(q) /\ DOMAIN Append(q, r) = 1 .. Len(q) + 1
  BY LenProperties, AppendProperties
<1>2. /\ \A i \in 1 .. Len(q) : Append(q, r)[i] = q[i] /\ i \in 1 .. Len(q) + 1
      /\ Append(q, r)[Len(q) + 1] = r /\ Len(q) + 1 \in 1 .. Len(q) + 1
      /\ \A i \in 1 .. Len(q) + 1 : i \in 1 .. Len(q) \/ i = Len(q) + 1
  BY <1>1, AppendProperties
<1>3. OkIn(Append(q, r)) = IF r.ok THEN OkIn(q) \cup {Len(q) + 1} ELSE OkIn(q)
  BY <1>1, <1>2 DEF OkIn
<1>4. IsFiniteSet(OkIn(q)) /\ Cardinality(OkIn(q)) \in Nat /\ Len(q) + 1 \notin OkIn(q)
  BY <1>1, OkFinite
<1>5. CASE r.ok
  BY <1>3, <1>4, <1>5, FS_AddElement
<1>6. CASE ~r.ok
  BY <1>3, <1>4, <1>6
<1>7. QED
  BY <1>5, <1>6

\* The beginning of a list has no more successes than the list.
LEMMA OkPrefix ==
  ASSUME NEW p \in Seq(Results), NEW q \in Seq(Results)
  PROVE  Cardinality(OkIn(p)) <= Cardinality(OkIn(p \o q))
<1>1. /\ p \o q \in Seq(Results) /\ Len(p) \in Nat /\ Len(q) \in Nat
      /\ Len(p \o q) = Len(p) + Len(q)
      /\ DOMAIN p = 1 .. Len(p) /\ DOMAIN (p \o q) = 1 .. Len(p \o q)
  BY ConcatProperties, LenProperties
<1>2. \A i \in 1 .. Len(p) : i \in 1 .. Len(p \o q) /\ (p \o q)[i] = p[i]
  BY <1>1, ConcatProperties
<1>3. OkIn(p) \in SUBSET OkIn(p \o q)
  BY <1>1, <1>2 DEF OkIn
<1>4. IsFiniteSet(OkIn(p \o q))
  BY <1>1, OkFinite
<1>5. QED
  BY <1>3, <1>4, FS_Subset

\* What a follower takes from its buffer it has seen.
LEMMA MoveHead ==
  ASSUME NEW p \in Seq(Results), NEW q \in Seq(Results), q # <<>>
  PROVE  Append(p, Head(q)) \o Tail(q) = p \o q
<1>1. Head(q) \in Results /\ Tail(q) \in Seq(Results) /\ Len(q) \in Nat \ {0}
      /\ Len(Tail(q)) = Len(q) - 1 /\ \A i \in 1 .. Len(q) - 1 : Tail(q)[i] = q[i + 1]
  BY HeadTailProperties, EmptySeq
<1>2. Head(q) = q[1]
  OBVIOUS
<1>3. /\ Append(p, Head(q)) \in Seq(Results) /\ Len(Append(p, Head(q))) = Len(p) + 1
      /\ \A i \in 1 .. Len(p) : Append(p, Head(q))[i] = p[i]
      /\ Append(p, Head(q))[Len(p) + 1] = Head(q) /\ Len(p) \in Nat
  BY <1>1, AppendProperties, LenProperties
<1>4. PICK a, b : a = Append(p, Head(q)) /\ b = Tail(q)
  OBVIOUS
<1>5. /\ a \o b \in Seq(Results) /\ Len(a \o b) = Len(p) + Len(q)
      /\ \A i \in 1 .. Len(p) + Len(q) :
             (a \o b)[i] = IF i <= Len(p) + 1 THEN a[i] ELSE b[i - (Len(p) + 1)]
  <2>1. /\ a \o b \in Seq(Results) /\ Len(a \o b) = Len(a) + Len(b)
        /\ \A i \in 1 .. Len(a) + Len(b) :
               (a \o b)[i] = IF i <= Len(a) THEN a[i] ELSE b[i - Len(a)]
    BY <1>1, <1>3, <1>4, ConcatProperties
  <2>2. Len(a) = Len(p) + 1 /\ Len(b) = Len(q) - 1 /\ Len(a) + Len(b) = Len(p) + Len(q)
    BY <1>1, <1>3, <1>4
  <2>3. QED
    BY <2>1, <2>2
<1>6. /\ p \o q \in Seq(Results) /\ Len(p \o q) = Len(p) + Len(q)
      /\ \A i \in 1 .. Len(p) + Len(q) :
             (p \o q)[i] = IF i <= Len(p) THEN p[i] ELSE q[i - Len(p)]
  BY ConcatProperties
<1>7. ASSUME NEW i \in 1 .. Len(p) + Len(q) PROVE (a \o b)[i] = (p \o q)[i]
  <2>1. CASE i <= Len(p)
    <3>1. i \in 1 .. Len(p) /\ i <= Len(p) + 1
      BY <1>3, <2>1
    <3>2. QED
      BY <1>3, <1>4, <1>5, <1>6, <2>1, <3>1
  <2>2. CASE i = Len(p) + 1
    <3>1. i <= Len(p) + 1 /\ ~(i <= Len(p)) /\ i - Len(p) = 1
      BY <1>3, <2>2
    <3>2. QED
      BY <1>2, <1>3, <1>4, <1>5, <1>6, <2>2, <3>1
  <2>3. CASE i > Len(p) + 1
    <3>1. /\ ~(i <= Len(p) + 1) /\ ~(i <= Len(p))
          /\ i - (Len(p) + 1) \in 1 .. Len(q) - 1 /\ i - (Len(p) + 1) + 1 = i - Len(p)
      BY <1>1, <1>3, <2>3
    <3>2. b[i - (Len(p) + 1)] = q[i - Len(p)]
      BY <1>1, <1>4, <3>1
    <3>3. QED
      BY <1>5, <1>6, <3>1, <3>2
  <2>4. i <= Len(p) \/ i = Len(p) + 1 \/ i > Len(p) + 1
    BY <1>3
  <2>5. QED
    BY <2>1, <2>2, <2>3, <2>4
<1>8. QED
  BY <1>4, <1>5, <1>6, <1>7, SeqEqual

\* What is published goes to the end of what a follower has seen or will see.
LEMMA AppendLast ==
  ASSUME NEW p \in Seq(Results), NEW q \in Seq(Results), NEW r \in Results
  PROVE  p \o Append(q, r) = Append(p \o q, r)
<1>1. /\ p \o q \in Seq(Results) /\ Len(p \o q) = Len(p) + Len(q)
      /\ Len(p) \in Nat /\ Len(q) \in Nat
      /\ \A i \in 1 .. Len(p) + Len(q) :
             (p \o q)[i] = IF i <= Len(p) THEN p[i] ELSE q[i - Len(p)]
  BY ConcatProperties, LenProperties
<1>2. PICK a, b, c : a = Append(q, r) /\ b = Append(p \o q, r) /\ c = p \o Append(q, r)
  OBVIOUS
<1>3. /\ a \in Seq(Results) /\ Len(a) = Len(q) + 1
      /\ \A i \in 1 .. Len(q) : a[i] = q[i]
      /\ a[Len(q) + 1] = r
  BY <1>1, <1>2, AppendProperties
<1>4. /\ b \in Seq(Results) /\ Len(b) = Len(p) + Len(q) + 1
      /\ \A i \in 1 .. Len(p) + Len(q) : b[i] = (p \o q)[i]
      /\ b[Len(p) + Len(q) + 1] = r
  BY <1>1, <1>2, AppendProperties
<1>5. /\ c \in Seq(Results) /\ Len(c) = Len(p) + Len(q) + 1
      /\ \A i \in 1 .. Len(p) + Len(q) + 1 :
             c[i] = IF i <= Len(p) THEN p[i] ELSE a[i - Len(p)]
  <2>1. /\ c \in Seq(Results) /\ Len(c) = Len(p) + Len(a)
        /\ \A i \in 1 .. Len(p) + Len(a) : c[i] = IF i <= Len(p) THEN p[i] ELSE a[i - Len(p)]
    BY <1>2, <1>3, ConcatProperties
  <2>2. Len(p) + Len(a) = Len(p) + Len(q) + 1
    BY <1>1, <1>3
  <2>3. QED
    BY <2>1, <2>2
<1>6. ASSUME NEW i \in 1 .. Len(p) + Len(q) + 1 PROVE c[i] = b[i]
  <2>1. CASE i <= Len(p)
    <3>1. i \in 1 .. Len(p) + Len(q)
      BY <1>1, <2>1
    <3>2. QED
      BY <1>1, <1>4, <1>5, <2>1, <3>1
  <2>2. CASE ~(i <= Len(p)) /\ i <= Len(p) + Len(q)
    <3>1. i \in 1 .. Len(p) + Len(q) /\ i - Len(p) \in 1 .. Len(q)
      BY <1>1, <2>2
    <3>2. QED
      BY <1>1, <1>3, <1>4, <1>5, <2>2, <3>1
  <2>3. CASE i = Len(p) + Len(q) + 1
    <3>1. ~(i <= Len(p)) /\ i - Len(p) = Len(q) + 1
      BY <1>1, <2>3
    <3>2. QED
      BY <1>3, <1>4, <1>5, <2>3, <3>1
  <2>4. QED
    BY <1>1, <2>1, <2>2, <2>3, SMTT(30)
<1>7. QED
  BY <1>2, <1>4, <1>5, <1>6, SeqEqual

LEMMA SchedFinite ==
  /\ IsFiniteSet(Sched) /\ Cardinality(Sched) <= Len(Scheds)
  /\ Len(Scheds) \in Nat /\ \A s \in Sched : \E i \in 1 .. Len(Scheds) : Scheds[i] = s
<1>1. Len(Scheds) \in Nat /\ DOMAIN Scheds = 1 .. Len(Scheds)
      /\ Scheds \in [1 .. Len(Scheds) -> Sched]
  BY SchedulerAssumption, LenProperties
<1>2. \A s \in Sched : \E i \in 1 .. Len(Scheds) : Scheds[i] = s
  BY <1>1 DEF Sched, Range
<1>3. Scheds \in Surjection(1 .. Len(Scheds), Sched)
  BY <1>1, <1>2 DEF Surjection
<1>4. IsFiniteSet(1 .. Len(Scheds)) /\ Cardinality(1 .. Len(Scheds)) = Len(Scheds)
  <2>1. IsFiniteSet(1 .. Len(Scheds)) /\ Cardinality(1 .. Len(Scheds)) =
            IF 1 > Len(Scheds) THEN 0 ELSE Len(Scheds) - 1 + 1
    BY <1>1, FS_Interval
  <2>2. QED
    BY <1>1, <2>1
<1>5. IsFiniteSet(Sched) /\ Cardinality(Sched) <= Cardinality(1 .. Len(Scheds))
  BY <1>3, <1>4, FS_Surjection
<1>6. QED
  BY <1>1, <1>2, <1>4, <1>5

-----------------------------------------------------------------------------
(***************************************************************************)
(* The invariant.                                                          *)
(***************************************************************************)

\* The types, with the functions' domains.
Typed ==
    /\ TypeOK
    /\ inbox \in [Followers -> Seq(Results)]
    /\ seen \in [Followers -> Seq(Results)]
    /\ results \in [Tasks -> Seq(Results)]
    /\ subscribers \in [Tasks -> Seq(Followers)]

\* The scheduler starts all of its tasks in one turn.
Phase ==
    \/ /\ \A s \in Sched : pc[s] = "new" /\ yielded[s] = 0
       /\ open = Sched /\ quit = {} /\ finished = {}
       /\ \A s \in Followers : inbox[s] = <<>> /\ seen[s] = <<>>
       /\ \A t \in Tasks : results[t] = <<>>
    \/ \A s \in Sched : pc[s] # "new"

\* Who has entered a task and has not left it.
Active(t) == {s \in Sched : TaskOf[s] = t /\ pc[s] \notin {"new", "stopped"}}

\* _users counts them; a finished task has none.
UsersCounted ==
    \A t \in Tasks : /\ users[t] = Cardinality(Active(t))
                     /\ t \in finished => Active(t) = {}

FollowersOf(t) == {s \in Followers : Target[s] = t}

Subscribed(t, s) == Contains(subscribers[t], s)

\* Only its followers subscribe to a task, and all are still subscribed if none
\* has left early.
Subscriptions ==
    \A t \in Tasks :
        /\ subscribers[t] \in Seq(FollowersOf(t))
        /\ EarlyLeavers(t) = {} => \A s \in FollowersOf(t) : pc[s] # "new" => Subscribed(t, s)

\* Whoever has closed its stream is on its way out: early, or at the end of
\* what it follows.
Closed ==
    \A s \in Followers : s \notin open =>
        /\ pc[s] \in {"join", "stopped"}
        /\ s \in quit \/ (inbox[s] = <<>> /\ Target[s] \in finished)

\* take_first has ended the iteration before it has let too many through.
Taken ==
    \A s \in Sched : Take[s] > 0 =>
        /\ yielded[s] <= Take[s]
        /\ pc[s] \in {"new", "next", "pause"} => yielded[s] < Take[s]

\* Every event of `after` is a success that the follower has seen, and that its
\* target has had.
Successes ==
    \A s \in Followers : Source[s] = "after" =>
        /\ yielded[s] + (IF pc[s] = "pause" THEN 1 ELSE 0) <= Cardinality(OkIn(seen[s]))
        /\ Cardinality(OkIn(seen[s] \o inbox[s])) <= Cardinality(OkIn(results[Target[s]]))

IInv == /\ Typed /\ Phase /\ UsersCounted /\ Subscriptions /\ Closed
        /\ Taken /\ Successes /\ EveryResultOnce

-----------------------------------------------------------------------------
(***************************************************************************)
(* What a publication does, and what a start leaves behind.                *)
(***************************************************************************)

\* Only subscribers are visited, and all of them while no stream is closed.
LEMMA VisitedSubscribers ==
  ASSUME NEW q, NEW n \in Nat, n = Len(q)
  PROVE  /\ \A x \in Visited(q) : \E i \in 1 .. n : q[i] = x
         /\ (\A i \in 1 .. n : q[i] \in open) => \A i \in 1 .. n : q[i] \in Visited(q)
<1> DEFINE IsVisited(v) ==
             v = [i \in 1 .. Len(q) |-> i = 1 \/ ~(v[i - 1] /\ q[i - 1] \notin open)]
<1>1. PICK v : /\ v = CHOOSE w : IsVisited(w)
               /\ Visited(q) = {q[i] : i \in {j \in 1 .. Len(q) : v[j]}}
  BY Zenon DEF Visited
<1>2. \A x \in Visited(q) : \E i \in 1 .. n : q[i] = x
  BY <1>1
<1>3. ASSUME \A i \in 1 .. n : q[i] \in open
      PROVE  \A i \in 1 .. n : q[i] \in Visited(q)
  <2>1. \A i \in 1 .. Len(q) : i = 1 \/ ~(q[i - 1] \notin open)
    <3>1. \A i \in 1 .. Len(q) : i = 1 \/ i - 1 \in 1 .. n
      OBVIOUS
    <3>2. QED
      BY <1>3, <3>1
  <2>2. \E w : IsVisited(w)
    <3>1. PICK w : w = [i \in 1 .. Len(q) |-> TRUE]
      OBVIOUS
    <3>2. \A i \in 1 .. Len(q) : (i = 1 \/ ~(w[i - 1] /\ q[i - 1] \notin open)) = TRUE
      BY <2>1, Zenon
    <3>3. IsVisited(w)
      BY <3>1, <3>2, Zenon
    <3>4. QED
      BY <3>3
  <2>3. IsVisited(v)
    BY <1>1, <2>2, Zenon
  <2>4. \A i \in 1 .. n : v[i]
    <3>1. \A i \in 1 .. Len(q) : v[i] = (i = 1 \/ ~(v[i - 1] /\ q[i - 1] \notin open))
      BY <2>3, Zenon
    <3>2. QED
      BY <2>1, <3>1, Zenon
  <2>5. QED
    BY <1>1, <2>4
<1>4. QED
  BY <1>2, <1>3

LEMMA Publication ==
  ASSUME Typed, Subscriptions, NEW t \in Tasks, NEW r \in Results, PublishResult(t, r)
  PROVE  /\ inbox' \in [Followers -> Seq(Results)]
         /\ results' \in [Tasks -> Seq(Results)]
         /\ results'[t] = Append(results[t], r)
         /\ \A u \in Tasks \ {t} : results'[u] = results[u] /\ subscribers'[u] = subscribers[u]
         /\ \A x \in Followers :
               \/ inbox'[x] = inbox[x]
               \/ x \in open /\ Target[x] = t /\ inbox'[x] = Append(inbox[x], r)
         /\ subscribers' \in [Tasks -> Seq(Followers)]
         /\ subscribers'[t] \in Seq(FollowersOf(t))
         /\ (\A x \in FollowersOf(t) : x \in open /\ Subscribed(t, x)) =>
               \A x \in FollowersOf(t) :
                   inbox'[x] = Append(inbox[x], r) /\ Subscribed(t, x)'
<1> DEFINE subs == subscribers[t]
           S == {s \in Followers : s \in open \/ s \notin Visited(subs)}
<1>1. /\ subs \in Seq(FollowersOf(t)) /\ subs \in Seq(Followers) /\ Len(subs) \in Nat
      /\ results[t] \in Seq(Results)
  BY LenProperties DEF Subscriptions, Typed
<1>2. /\ inbox' = [s \in Followers |-> IF s \in Visited(subs) \cap open
                                        THEN Append(inbox[s], r) ELSE inbox[s]]
      /\ subscribers' = [subscribers EXCEPT ![t] = Keep(subs, S)]
      /\ results' = [results EXCEPT ![t] = Append(results[t], r)]
  BY Zenon DEF PublishResult
<1> HIDE DEF S
<1>3. \A s \in Followers : Append(inbox[s], r) \in Seq(Results) /\ inbox[s] \in Seq(Results)
  BY AppendProperties DEF Typed
<1>4. Append(results[t], r) \in Seq(Results)
  BY <1>1, AppendProperties
<1>5. \A x \in Visited(subs) : Target[x] = t
  <2>1. \A x \in Visited(subs) : \E i \in 1 .. Len(subs) : subs[i] = x
    BY <1>1, VisitedSubscribers
  <2>2. \A i \in 1 .. Len(subs) : subs[i] \in FollowersOf(t)
    BY <1>1, ElementOfSeq
  <2>3. QED
    BY <2>1, <2>2 DEF FollowersOf
<1>6. /\ Keep(subs, S) \in Seq(FollowersOf(t) \cap S)
      /\ \A x \in FollowersOf(t) : Contains(Keep(subs, S), x) <=> x \in S /\ Contains(subs, x)
  BY <1>1, KeepMembers
<1>7. Keep(subs, S) \in Seq(FollowersOf(t)) /\ Keep(subs, S) \in Seq(Followers)
  <2>1. FollowersOf(t) \cap S \subseteq FollowersOf(t) /\ FollowersOf(t) \subseteq Followers
    BY DEF FollowersOf
  <2>2. Keep(subs, S) \in Seq(FollowersOf(t))
    BY <1>6, <2>1, SeqMonotonic
  <2>3. QED
    BY <2>1, <2>2, SeqMonotonic
<1>8. /\ inbox' \in [Followers -> Seq(Results)]
      /\ \A x \in Followers :
               \/ inbox'[x] = inbox[x]
               \/ x \in open /\ Target[x] = t /\ inbox'[x] = Append(inbox[x], r)
  BY <1>2, <1>3, <1>5
<1>9. /\ results' \in [Tasks -> Seq(Results)]
      /\ results'[t] = Append(results[t], r)
      /\ \A u \in Tasks \ {t} : results'[u] = results[u]
  BY <1>2, <1>4 DEF Typed
<1>10. /\ subscribers' \in [Tasks -> Seq(Followers)]
       /\ subscribers'[t] = Keep(subs, S)
       /\ \A u \in Tasks \ {t} : subscribers'[u] = subscribers[u]
  BY <1>2, <1>7 DEF Typed
<1>11. ASSUME \A x \in FollowersOf(t) : x \in open /\ Subscribed(t, x)
       PROVE  \A x \in FollowersOf(t) : inbox'[x] = Append(inbox[x], r) /\ Subscribed(t, x)'
  <2>1. \A i \in 1 .. Len(subs) : subs[i] \in open
    BY <1>1, <1>11, ElementOfSeq
  <2>2. \A i \in 1 .. Len(subs) : subs[i] \in Visited(subs)
    BY <1>1, <2>1, VisitedSubscribers
  <2>3. \A x \in FollowersOf(t) : Contains(subs, x)
    BY <1>11 DEF Subscribed
  <2>4. \A x \in FollowersOf(t) : x \in Followers /\ x \in Visited(subs) \cap open /\ x \in S
    BY <1>11, <2>2, <2>3 DEF FollowersOf, S, Contains
  <2>5. \A x \in FollowersOf(t) : Contains(subscribers'[t], x)
    BY <1>6, <1>10, <2>3, <2>4
  <2>6. QED
    BY <1>2, <2>4, <2>5 DEF Subscribed
<1>12. QED
  BY <1>7, <1>8, <1>9, <1>10, <1>11

LEMMA NewResult ==
  ASSUME Typed, NEW t \in Tasks, NEW ok \in BOOLEAN
  PROVE  [n |-> Len(results[t]) + 1, ok |-> ok] \in Results
<1>1. Len(results[t]) \in Nat
  BY LenProperties DEF Typed
<1>2. QED
  BY <1>1 DEF Results

\* Every follower subscribes before the loop takes a turn.
LEMMA StartSubscribes ==
  ASSUME Start
  PROVE  /\ subscribers' \in [Tasks -> Seq(Followers)]
         /\ \A t \in Tasks : /\ subscribers'[t] \in Seq(FollowersOf(t))
                             /\ \A s \in FollowersOf(t) : Subscribed(t, s)'
<1>1. subscribers' = [t \in Tasks |-> Keep(Scheds, FollowersOf(t))]
  BY DEF Start, FollowersOf
<1>2. ASSUME NEW t \in Tasks
      PROVE  /\ Keep(Scheds, FollowersOf(t)) \in Seq(FollowersOf(t))
             /\ Keep(Scheds, FollowersOf(t)) \in Seq(Followers)
             /\ \A s \in FollowersOf(t) : Contains(Keep(Scheds, FollowersOf(t)), s)
  <2>1. /\ Sched \cap FollowersOf(t) \subseteq FollowersOf(t)
        /\ FollowersOf(t) \subseteq Followers /\ FollowersOf(t) \subseteq Sched
    BY DEF FollowersOf, Followers
  <2>2. /\ Keep(Scheds, FollowersOf(t)) \in Seq(Sched \cap FollowersOf(t))
        /\ \A x \in Sched :
               Contains(Keep(Scheds, FollowersOf(t)), x)
               <=> x \in FollowersOf(t) /\ Contains(Scheds, x)
    BY SchedulerAssumption, KeepMembers
  <2>3. Keep(Scheds, FollowersOf(t)) \in Seq(FollowersOf(t))
    BY <2>1, <2>2, SeqMonotonic
  <2>4. Keep(Scheds, FollowersOf(t)) \in Seq(Followers)
    BY <2>1, <2>3, SeqMonotonic
  <2>5. QED
    BY <2>1, <2>2, <2>3, <2>4, SchedFinite DEF Contains
<1>3. QED
  BY <1>1, <1>2 DEF Subscribed

-----------------------------------------------------------------------------
(***************************************************************************)
(* Every step preserves the invariant, one conjunct after the other.       *)
(***************************************************************************)

LEMMA ActiveFinite ==
  ASSUME NEW t \in Tasks
  PROVE  IsFiniteSet(Active(t)) /\ Cardinality(Active(t)) \in 0 .. Len(Scheds)
<1>1. Active(t) \in SUBSET Sched
  BY DEF Active
<1>2. IsFiniteSet(Active(t)) /\ Cardinality(Active(t)) <= Cardinality(Sched)
  BY <1>1, SchedFinite, FS_Subset
<1>3. Cardinality(Active(t)) \in Nat /\ Cardinality(Sched) \in Nat
  BY <1>2, SchedFinite, FS_CardinalityType
<1>4. QED
  BY <1>2, <1>3, SchedFinite

Pcs == [Sched -> {"new", "next", "pause", "handle", "close", "join", "stopped"}]

\* A task goes on, with or without an event that passed take_first.
LEMMA Moved ==
  ASSUME Typed, NEW s \in Sched
  PROVE  /\ \A l \in {"next", "pause", "handle", "close", "join", "stopped"} : Goto(s, l) => pc' \in Pcs
         /\ (UNCHANGED yielded \/ Passed(s)) => yielded' \in [Sched -> Nat]
<1>1. pc \in Pcs /\ yielded \in [Sched -> Nat] /\ yielded[s] + 1 \in Nat
  BY DEF Typed, TypeOK, Pcs
<1>2. (UNCHANGED yielded \/ Passed(s)) => yielded' \in [Sched -> Nat]
  BY <1>1 DEF Passed
<1>3. QED
  BY <1>1, <1>2 DEF Goto, Pcs

\* Whoever leaves a task was one of its users.
LEMMA LeaveActive ==
  ASSUME NEW s \in Sched, Typed, Leave(s)
  PROVE  /\ TaskOf[s] \in Tasks
         /\ Active(TaskOf[s])' = Active(TaskOf[s]) \ {s} /\ s \in Active(TaskOf[s])
         /\ Cardinality(Active(TaskOf[s])') = Cardinality(Active(TaskOf[s])) - 1
         /\ Cardinality(Active(TaskOf[s])) \in 1 .. Len(Scheds)
         /\ \A t \in Tasks \ {TaskOf[s]} : Active(t)' = Active(t)
<1>1. TaskOf[s] \in Tasks
  BY SchedulerAssumption
<1>2. /\ pc[s] = "join" /\ pc \in [Sched -> {"new", "next", "pause", "handle", "close", "join", "stopped"}]
      /\ pc' = [pc EXCEPT ![s] = "stopped"]
  BY DEF Typed, TypeOK, Leave, Goto
<1>3. s \in Active(TaskOf[s])
  BY <1>2 DEF Active
<1>4. Active(TaskOf[s])' = Active(TaskOf[s]) \ {s}
  BY <1>2 DEF Active
<1>5. \A t \in Tasks \ {TaskOf[s]} : Active(t)' = Active(t)
  BY <1>2 DEF Active
<1>6. IsFiniteSet(Active(TaskOf[s])) /\ Cardinality(Active(TaskOf[s])) \in 0 .. Len(Scheds)
  BY <1>1, ActiveFinite
<1>7. Cardinality(Active(TaskOf[s])') = Cardinality(Active(TaskOf[s])) - 1
  BY <1>3, <1>4, <1>6, FS_RemoveElement
<1>8. Cardinality(Active(TaskOf[s])) # 0
  BY <1>3, <1>6, FS_EmptySet
<1>9. QED
  BY <1>1, <1>3, <1>4, <1>5, <1>6, <1>7, <1>8, SchedFinite

\* The first turn of the loop enters every task.
LEMMA StartActive ==
  ASSUME Typed, Start
  PROVE  \A t \in Tasks : /\ users'[t] = Cardinality(Active(t)')
                          /\ Active(t) = {} /\ users'[t] \in 0 .. Len(Scheds)
<1> SUFFICES ASSUME NEW t \in Tasks
             PROVE  /\ users'[t] = Cardinality(Active(t)')
                    /\ Active(t) = {} /\ users'[t] \in 0 .. Len(Scheds)
  OBVIOUS
<1>1. users'[t] = Cardinality({s \in Sched : TaskOf[s] = t})
  BY DEF Start
<1>2. Active(t)' = {s \in Sched : TaskOf[s] = t}
  BY DEF Start, Active
<1>3. Active(t) = {}
  BY DEF Start, Active
<1>4. {s \in Sched : TaskOf[s] = t} \in SUBSET Sched
  OBVIOUS
<1>5. PICK A : A = {s \in Sched : TaskOf[s] = t}
  OBVIOUS
<1>6. IsFiniteSet(A) /\ Cardinality(A) <= Cardinality(Sched)
  BY <1>4, <1>5, SchedFinite, FS_Subset
<1>7. Cardinality(A) \in Nat /\ Cardinality(Sched) \in Nat
  BY <1>6, SchedFinite, FS_CardinalityType
<1>8. QED
  BY <1>1, <1>2, <1>3, <1>5, <1>6, <1>7, SchedFinite

\* The tables of one scheduled task keep their types in every step.
LEMMA TypedStep == Typed /\ UsersCounted /\ Subscriptions /\ [Next]_vars => Typed'
<1> SUFFICES ASSUME Typed, UsersCounted, Subscriptions, [Next]_vars PROVE Typed'
  OBVIOUS
<1> USE DEF Typed, TypeOK, Pcs
<1>1. CASE Start
  <2>1. subscribers' \in [Tasks -> Seq(Followers)]
    BY <1>1, StartSubscribes
  <2>2. users' \in [Tasks -> 0 .. Len(Scheds)]
    <3>1. \A t \in Tasks : users'[t] \in 0 .. Len(Scheds)
      BY <1>1, StartActive
    <3>2. users' = [t \in Tasks |-> users'[t]]
      BY <1>1 DEF Start
    <3>3. QED
      BY <3>1, <3>2
  <2>3. QED
    BY <1>1, <2>1, <2>2 DEF Start
<1>2. CASE Shutdown
  BY <1>2 DEF Shutdown
<1>3. ASSUME NEW s \in Sched, Pause(s) PROVE Typed'
  <2>1. pc' \in Pcs /\ yielded' \in [Sched -> Nat]
    BY <1>3, Moved DEF Pause
  <2>2. QED
    BY <1>3, <2>1 DEF Pause
<1>4. ASSUME NEW s \in Sched, NEW ok \in BOOLEAN, Handle(s, ok) PROVE Typed'
  <2>1. TaskOf[s] \in Tasks
    BY SchedulerAssumption
  <2>2. PICK r \in Results : PublishResult(TaskOf[s], r)
    BY <1>4, <2>1, NewResult DEF Handle
  <2>3. /\ inbox' \in [Followers -> Seq(Results)] /\ results' \in [Tasks -> Seq(Results)]
        /\ subscribers' \in [Tasks -> Seq(Followers)]
    BY <2>1, <2>2, Publication
  <2>4. pc' \in Pcs
    BY <1>4 DEF Handle, Goto, AfterHandler
  <2>5. UNCHANGED <<gen, open, yielded, users, finished, shutdown, seen, quit>>
    BY <1>4 DEF Handle
  <2>6. QED
    BY <2>3, <2>4, <2>5
<1>5. ASSUME NEW s \in Sched, CloseSource(s) PROVE Typed'
  BY <1>5 DEF CloseSource, Goto
<1>6. ASSUME NEW s \in Sched, Leave(s) PROVE Typed'
  <2>a. /\ TaskOf[s] \in Tasks /\ Cardinality(Active(TaskOf[s])) \in 1 .. Len(Scheds)
    BY <1>6, LeaveActive
  <2>1. /\ TaskOf[s] \in Tasks /\ users[TaskOf[s]] \in 1 .. Len(Scheds) /\ Len(Scheds) \in Nat
    BY <2>a, SchedFinite DEF UsersCounted
  <2>2. users' = [users EXCEPT ![TaskOf[s]] = users[TaskOf[s]] - 1]
    BY <1>6 DEF Leave, LeaveTask
  <2>3. users' \in [Tasks -> 0 .. Len(Scheds)]
    BY <2>1, <2>2
  <2>4. finished' \subseteq Tasks
    BY <1>6, <2>1 DEF Leave, LeaveTask
  <2>5. QED
    BY <1>6, <2>3, <2>4 DEF Leave, Goto
<1>7. ASSUME NEW s \in Timers, Generate(s) PROVE Typed'
  <2>1. s \in Sched /\ Deliver(s)
    BY <1>7 DEF Generate, Timers
  <2>2. pc' \in Pcs /\ yielded' \in [Sched -> Nat]
    BY <2>1, Moved DEF Deliver
  <2>3. gen' \in [Timers -> {"first", "sleep", "done"}]
    BY <1>7 DEF Generate
  <2>4. QED
    BY <1>7, <2>2, <2>3 DEF Generate
<1>8. ASSUME NEW s \in Timers, GenerateBroken(s) \/ GenerateCancelled(s) PROVE Typed'
  BY <1>8 DEF GenerateBroken, GenerateCancelled
<1>9. ASSUME NEW s \in Timers, TimerEnd(s) PROVE Typed'
  BY <1>9 DEF TimerEnd, Goto, Timers
<1>10. ASSUME NEW s \in Followers, Receive(s) PROVE Typed'
  <2>1. /\ inbox[s] \in Seq(Results) /\ inbox[s] # <<>> /\ seen[s] \in Seq(Results)
        /\ s \in Sched
    BY <1>10 DEF Receive, Followers
  <2>2. Tail(inbox[s]) \in Seq(Results) /\ Append(seen[s], Head(inbox[s])) \in Seq(Results)
    BY <2>1, HeadTailProperties, AppendProperties
  <2>3. inbox' \in [Followers -> Seq(Results)] /\ seen' \in [Followers -> Seq(Results)]
    BY <1>10, <2>2 DEF Receive
  <2>4. pc' \in Pcs /\ yielded' \in [Sched -> Nat]
    BY <1>10, <2>1, Moved DEF Receive, Deliver
  <2>5. QED
    BY <1>10, <2>3, <2>4 DEF Receive
<1>11. ASSUME NEW s \in Followers, FollowEnd(s) PROVE Typed'
  BY <1>11 DEF FollowEnd, Goto, Followers
<1>12. CASE UNCHANGED vars
  BY <1>12 DEF vars
<1>13. QED
  BY <1>1, <1>2, <1>3, <1>4, <1>5, <1>6, <1>7, <1>8, <1>9, <1>10, <1>11, <1>12
  DEF Next, RunStep, TimerStep, FollowStep

\* A task that acts has been started, and stays so.
LEMMA PhaseStep == Typed /\ Phase /\ [Next]_vars => Phase'
<1> SUFFICES ASSUME Typed, Phase, [Next]_vars PROVE Phase'
  OBVIOUS
<1> DEFINE Old == \A s \in Sched : pc[s] # "new"
<1>1. CASE Start
  <2>1. \A s \in Sched : pc'[s] # "new"
    BY <1>1 DEF Start
  <2>2. QED
    BY <2>1 DEF Phase
<1>2. CASE UNCHANGED <<pc, open, inbox, yielded, finished, results, seen, quit>>
  BY <1>2, Zenon DEF Phase
<1>3. ASSUME NEW s \in Sched, NEW l \in {"next", "pause", "handle", "close", "join", "stopped"},
             pc[s] # "new", Goto(s, l)
      PROVE  Phase'
  <2>1. Old
    BY <1>3 DEF Phase
  <2>2. \A x \in Sched : pc'[x] # "new"
    BY <1>3, <2>1 DEF Goto, Typed, TypeOK
  <2>3. QED
    BY <2>2 DEF Phase
<1>4. ASSUME NEW s \in Sched, pc[s] # "new", UNCHANGED pc PROVE Phase'
  <2>1. Old
    BY <1>4 DEF Phase
  <2>2. \A x \in Sched : pc'[x] # "new"
    BY <1>4, <2>1
  <2>3. QED
    BY <2>2 DEF Phase
<1>5. CASE Shutdown
  BY <1>2, <1>5 DEF Shutdown
<1>6. ASSUME NEW s \in Sched, Pause(s) PROVE Phase'
  BY <1>3, <1>6 DEF Pause
<1>7. ASSUME NEW s \in Sched, NEW ok \in BOOLEAN, Handle(s, ok) PROVE Phase'
  BY <1>3, <1>7 DEF Handle, AfterHandler
<1>8. ASSUME NEW s \in Sched, CloseSource(s) PROVE Phase'
  BY <1>3, <1>8 DEF CloseSource
<1>9. ASSUME NEW s \in Sched, Leave(s) PROVE Phase'
  BY <1>3, <1>9 DEF Leave
<1>10. ASSUME NEW s \in Timers, Generate(s) PROVE Phase'
  BY <1>3, <1>10 DEF Generate, Deliver, Timers
<1>11. ASSUME NEW s \in Timers, GenerateBroken(s) \/ GenerateCancelled(s) PROVE Phase'
  BY <1>2, <1>11 DEF GenerateBroken, GenerateCancelled
<1>12. ASSUME NEW s \in Timers, TimerEnd(s) PROVE Phase'
  BY <1>3, <1>12 DEF TimerEnd, Timers
<1>13. ASSUME NEW s \in Followers, Receive(s) PROVE Phase'
  <2>1. s \in Sched /\ pc[s] = "next"
    BY <1>13 DEF Receive, Followers
  <2>2. CASE UNCHANGED pc
    BY <1>4, <2>1, <2>2
  <2>3. CASE Deliver(s)
    BY <1>3, <2>1, <2>3 DEF Deliver
  <2>4. QED
    BY <1>13, <2>2, <2>3 DEF Receive
<1>14. ASSUME NEW s \in Followers, FollowEnd(s) PROVE Phase'
  BY <1>3, <1>14 DEF FollowEnd, Followers
<1>15. CASE UNCHANGED vars
  BY <1>2, <1>15 DEF vars
<1>16. QED
  BY <1>1, <1>5, <1>6, <1>7, <1>8, <1>9, <1>10, <1>11, <1>12, <1>13, <1>14, <1>15
  DEF Next, RunStep, TimerStep, FollowStep

\* In a step that neither enters nor leaves a task, its users stay.
LEMMA UsersStep == Typed /\ Phase /\ UsersCounted /\ [Next]_vars => UsersCounted'
<1> SUFFICES ASSUME Typed, Phase, UsersCounted, [Next]_vars PROVE UsersCounted'
  OBVIOUS
<1>1. CASE Start
  <2>1. \A t \in Tasks : users'[t] = Cardinality(Active(t)')
    BY <1>1, StartActive
  <2>2. \A t \in Tasks : t \in finished' => Active(t)' = {}
    <3>1. CASE Sched = {}
      BY <3>1 DEF Active
    <3>2. CASE Sched # {}
      BY <1>1, <3>2 DEF Start, Phase
    <3>3. QED
      BY <3>1, <3>2
  <2>3. QED
    BY <2>1, <2>2 DEF UsersCounted
<1>2. ASSUME UNCHANGED <<pc, users, finished>> PROVE UsersCounted'
  BY <1>2 DEF UsersCounted, Active
<1>3. ASSUME NEW s \in Sched, NEW l \in {"next", "pause", "handle", "close", "join"},
             pc[s] \notin {"new", "stopped"}, Goto(s, l), UNCHANGED <<users, finished>>
      PROVE  UsersCounted'
  <2>1. \A x \in Sched : pc'[x] \notin {"new", "stopped"} <=> pc[x] \notin {"new", "stopped"}
    BY <1>3 DEF Goto, Typed, TypeOK
  <2>2. \A t \in Tasks : Active(t)' = Active(t)
    BY <2>1 DEF Active
  <2>3. QED
    BY <1>3, <2>2 DEF UsersCounted
<1>4. CASE Shutdown
  BY <1>2, <1>4 DEF Shutdown
<1>5. ASSUME NEW s \in Sched, Pause(s) PROVE UsersCounted'
  BY <1>3, <1>5 DEF Pause
<1>6. ASSUME NEW s \in Sched, NEW ok \in BOOLEAN, Handle(s, ok) PROVE UsersCounted'
  BY <1>3, <1>6 DEF Handle, AfterHandler
<1>7. ASSUME NEW s \in Sched, CloseSource(s) PROVE UsersCounted'
  BY <1>3, <1>7 DEF CloseSource
<1>8. ASSUME NEW s \in Sched, Leave(s) PROVE UsersCounted'
  <2>1. PICK t : t = TaskOf[s]
    OBVIOUS
  <2>2. /\ t \in Tasks /\ Active(t)' = Active(t) \ {s}
        /\ Cardinality(Active(t)') = Cardinality(Active(t)) - 1
        /\ Cardinality(Active(t)) \in 1 .. Len(Scheds)
        /\ \A u \in Tasks \ {t} : Active(u)' = Active(u)
    BY <1>8, <2>1, LeaveActive
  <2>3. /\ users' = [users EXCEPT ![t] = users[t] - 1]
        /\ finished' = IF users[t] = 1 THEN finished \cup {t} ELSE finished
        /\ users \in [Tasks -> 0 .. Len(Scheds)]
    BY <1>8, <2>1 DEF Leave, LeaveTask, Typed, TypeOK
  <2>4. users'[t] = Cardinality(Active(t)') /\ \A u \in Tasks \ {t} : users'[u] = Cardinality(Active(u)')
    BY <2>2, <2>3 DEF UsersCounted
  <2>5. users[t] = 1 => Active(t)' = {}
    <3>1. IsFiniteSet(Active(t))
      BY <2>2, ActiveFinite
    <3>2. IsFiniteSet(Active(t) \ {s})
      BY <3>1, FS_RemoveElement
    <3>3. IsFiniteSet(Active(t)')
      BY <2>2, <3>2
    <3>4. users[t] = 1 => Cardinality(Active(t)') = 0
      BY <2>2 DEF UsersCounted
    <3>5. QED
      BY <3>3, <3>4, FS_EmptySet
  <2>6. \A u \in Tasks : u \in finished' => Active(u)' = {}
    BY <2>2, <2>3, <2>5 DEF UsersCounted
  <2>7. QED
    BY <2>4, <2>6 DEF UsersCounted
<1>9. ASSUME NEW s \in Timers, Generate(s) PROVE UsersCounted'
  BY <1>3, <1>9 DEF Generate, Deliver, Timers
<1>10. ASSUME NEW s \in Timers, GenerateBroken(s) \/ GenerateCancelled(s) PROVE UsersCounted'
  BY <1>2, <1>10 DEF GenerateBroken, GenerateCancelled
<1>11. ASSUME NEW s \in Timers, TimerEnd(s) PROVE UsersCounted'
  BY <1>3, <1>11 DEF TimerEnd, Timers
<1>12. ASSUME NEW s \in Followers, Receive(s) PROVE UsersCounted'
  <2>1. s \in Sched /\ pc[s] = "next" /\ UNCHANGED <<users, finished>>
    BY <1>12 DEF Receive, Followers
  <2>2. CASE UNCHANGED pc
    BY <1>2, <2>1, <2>2
  <2>3. CASE Deliver(s)
    BY <1>3, <2>1, <2>3 DEF Deliver
  <2>4. QED
    BY <1>12, <2>2, <2>3 DEF Receive
<1>13. ASSUME NEW s \in Followers, FollowEnd(s) PROVE UsersCounted'
  BY <1>3, <1>13 DEF FollowEnd, Followers
<1>14. CASE UNCHANGED vars
  BY <1>2, <1>14 DEF vars
<1>15. QED
  BY <1>1, <1>4, <1>5, <1>6, <1>7, <1>8, <1>9, <1>10, <1>11, <1>12, <1>13, <1>14
  DEF Next, RunStep, TimerStep, FollowStep

\* A step of take_first: it lets another event through, or ends.
LEMMA TakenStep == Typed /\ Taken /\ [Next]_vars => Taken'
<1> SUFFICES ASSUME Typed, Taken, [Next]_vars PROVE Taken'
  OBVIOUS
<1>t. pc \in Pcs /\ yielded \in [Sched -> Nat] /\ \A s \in Sched : Take[s] \in Nat
  BY SchedulerAssumption DEF Typed, TypeOK, Pcs
<1>1. ASSUME UNCHANGED <<pc, yielded>> PROVE Taken'
  BY <1>1 DEF Taken
<1>2. ASSUME NEW s \in Sched, NEW l \in {"pause", "handle", "close", "join", "stopped"},
             UNCHANGED yielded, Goto(s, l), l = "pause" => pc[s] = "next"
      PROVE  Taken'
  BY <1>t, <1>2 DEF Taken, Goto, Pcs
<1>3. ASSUME NEW s \in Sched, Goto(s, "handle"), Passed(s), pc[s] \in {"next", "pause"}
      PROVE  Taken'
  <2>1. \A x \in Sched \ {s} : pc'[x] = pc[x] /\ yielded'[x] = yielded[x]
    BY <1>t, <1>3 DEF Goto, Passed, Pcs
  <2>2. pc'[s] = "handle" /\ yielded'[s] = yielded[s] + 1
    BY <1>t, <1>3 DEF Goto, Passed, Pcs
  <2>3. Take[s] > 0 => yielded[s] < Take[s]
    BY <1>3 DEF Taken
  <2>4. Take[s] > 0 => yielded'[s] <= Take[s]
    BY <1>t, <2>2, <2>3
  <2>5. QED
    BY <2>1, <2>2, <2>4 DEF Taken
<1>4. ASSUME NEW s \in Sched, Deliver(s), pc[s] = "next" PROVE Taken'
  BY <1>2, <1>3, <1>4 DEF Deliver
<1>5. CASE Start
  BY <1>5 DEF Start, Taken
<1>6. CASE Shutdown
  BY <1>1, <1>6 DEF Shutdown
<1>7. ASSUME NEW s \in Sched, Pause(s) PROVE Taken'
  BY <1>2, <1>3, <1>7 DEF Pause
<1>8. ASSUME NEW s \in Sched, NEW ok \in BOOLEAN, Handle(s, ok) PROVE Taken'
  <2>1. CASE AfterHandler(s) = "close"
    BY <1>2, <1>8, <2>1 DEF Handle
  <2>2. CASE AfterHandler(s) = "next"
    <3>1. Take[s] > 0 => yielded[s] < Take[s]
      BY <1>t, <2>2 DEF AfterHandler
    <3>2. UNCHANGED yielded /\ pc' = [pc EXCEPT ![s] = "next"]
      BY <1>8, <2>2 DEF Handle, Goto
    <3>3. QED
      BY <1>t, <3>1, <3>2 DEF Taken, Pcs
  <2>3. QED
    BY <2>1, <2>2 DEF AfterHandler
<1>9. ASSUME NEW s \in Sched, CloseSource(s) PROVE Taken'
  BY <1>2, <1>9 DEF CloseSource
<1>10. ASSUME NEW s \in Sched, Leave(s) PROVE Taken'
  BY <1>2, <1>10 DEF Leave
<1>11. ASSUME NEW s \in Timers, Generate(s) PROVE Taken'
  BY <1>4, <1>11 DEF Generate, Timers
<1>12. ASSUME NEW s \in Timers, GenerateBroken(s) \/ GenerateCancelled(s) PROVE Taken'
  BY <1>1, <1>12 DEF GenerateBroken, GenerateCancelled
<1>13. ASSUME NEW s \in Timers, TimerEnd(s) PROVE Taken'
  BY <1>2, <1>13 DEF TimerEnd, Timers
<1>14. ASSUME NEW s \in Followers, Receive(s) PROVE Taken'
  BY <1>1, <1>4, <1>14 DEF Receive, Followers
<1>15. ASSUME NEW s \in Followers, FollowEnd(s) PROVE Taken'
  BY <1>2, <1>15 DEF FollowEnd, Followers
<1>16. CASE UNCHANGED vars
  BY <1>1, <1>16 DEF vars
<1>17. QED
  BY <1>5, <1>6, <1>7, <1>8, <1>9, <1>10, <1>11, <1>12, <1>13, <1>14, <1>15, <1>16
  DEF Next, RunStep, TimerStep, FollowStep

\* Nobody publishes into a closed stream, nor opens it again.
LEMMA ClosedStep == Typed /\ Phase /\ Subscriptions /\ Closed /\ [Next]_vars => Closed'
<1> SUFFICES ASSUME Typed, Phase, Subscriptions, Closed, [Next]_vars PROVE Closed'
  OBVIOUS
<1>t. /\ pc \in Pcs /\ Followers \subseteq Sched /\ Timers \cap Followers = {}
      /\ inbox \in [Followers -> Seq(Results)]
  BY DEF Typed, TypeOK, Pcs, Followers
\* Some task, with its stream open, goes on.
<1>1. ASSUME NEW s \in Sched, s \in open \/ s \in Timers, UNCHANGED <<open, quit, finished>>,
             UNCHANGED pc \/ \E l \in {"next", "pause", "handle", "close"} : Goto(s, l),
             \A x \in Followers \ open : inbox'[x] = inbox[x]
      PROVE  Closed'
  <2>1. \A x \in Followers : x \notin open => pc'[x] = pc[x]
    BY <1>t, <1>1 DEF Goto, Pcs
  <2>2. QED
    BY <1>1, <2>1 DEF Closed
\* Some task closes its stream.
<1>2. ASSUME NEW s \in Sched, Goto(s, "join"), open' = open \ {s}, UNCHANGED <<inbox, finished>>,
             quit \subseteq quit',
             s \in Followers => s \in quit' \/ (inbox[s] = <<>> /\ Target[s] \in finished)
      PROVE  Closed'
  <2>1. \A x \in Followers \ {s} : pc'[x] = pc[x]
    BY <1>t, <1>2 DEF Goto, Pcs
  <2>2. pc'[s] = "join"
    BY <1>t, <1>2 DEF Goto, Pcs
  <2>3. QED
    BY <1>2, <2>1, <2>2 DEF Closed
<1>3. ASSUME UNCHANGED <<pc, open, inbox, quit, finished>> PROVE Closed'
  BY <1>3 DEF Closed
<1>4. ASSUME NEW s \in Sched, pc[s] \notin {"join", "stopped"} PROVE s \in open \/ s \in Timers
  BY <1>4 DEF Closed, Followers
<1>5. CASE Start
  <2>1. CASE Sched = {}
    BY <1>t, <2>1 DEF Closed
  <2>2. CASE Sched # {}
    BY <1>t, <1>5, <2>2 DEF Start, Phase, Closed
  <2>3. QED
    BY <2>1, <2>2
<1>6. CASE Shutdown
  BY <1>3, <1>6 DEF Shutdown
<1>7. ASSUME NEW s \in Sched, Pause(s) PROVE Closed'
  BY <1>1, <1>4, <1>7 DEF Pause
<1>8. ASSUME NEW s \in Sched, NEW ok \in BOOLEAN, Handle(s, ok) PROVE Closed'
  <2>1. TaskOf[s] \in Tasks
    BY SchedulerAssumption
  <2>2. PICK r \in Results : PublishResult(TaskOf[s], r)
    BY <1>8, <2>1, NewResult DEF Handle
  <2>3. \A x \in Followers \ open : inbox'[x] = inbox[x]
    BY <2>1, <2>2, Publication
  <2>4. pc[s] = "handle" /\ Goto(s, AfterHandler(s)) /\ UNCHANGED <<open, quit, finished>>
    BY <1>8 DEF Handle
  <2>5. QED
    BY <1>1, <1>4, <2>3, <2>4 DEF AfterHandler
<1>9. ASSUME NEW s \in Sched, CloseSource(s) PROVE Closed'
  BY <1>2, <1>9 DEF CloseSource
<1>10. ASSUME NEW s \in Sched, Leave(s) PROVE Closed'
  <2>1. pc' = [pc EXCEPT ![s] = "stopped"] /\ UNCHANGED <<open, inbox, quit>> /\ finished \subseteq finished'
    BY <1>10 DEF Leave, Goto, LeaveTask
  <2>2. \A x \in Sched : pc'[x] = pc[x] \/ pc'[x] = "stopped"
    BY <1>t, <2>1 DEF Pcs
  <2>3. QED
    BY <1>t, <2>1, <2>2 DEF Closed
<1>11. ASSUME NEW s \in Timers, Generate(s) PROVE Closed'
  BY <1>1, <1>11 DEF Generate, Deliver, Timers
<1>12. ASSUME NEW s \in Timers, GenerateBroken(s) \/ GenerateCancelled(s) PROVE Closed'
  BY <1>3, <1>12 DEF GenerateBroken, GenerateCancelled
<1>13. ASSUME NEW s \in Timers, TimerEnd(s) PROVE Closed'
  BY <1>t, <1>2, <1>13 DEF TimerEnd, Timers
<1>14. ASSUME NEW s \in Followers, Receive(s) PROVE Closed'
  <2>1. /\ s \in Sched /\ s \in open /\ UNCHANGED <<open, quit, finished>>
        /\ UNCHANGED pc \/ Goto(s, "pause") \/ Goto(s, "handle")
    BY <1>t, <1>4, <1>14 DEF Receive, Deliver
  <2>2. \A x \in Followers \ open : inbox'[x] = inbox[x]
    BY <1>t, <1>14, <2>1 DEF Receive
  <2>3. QED
    BY <1>1, <2>1, <2>2
<1>15. ASSUME NEW s \in Followers, FollowEnd(s) PROVE Closed'
  BY <1>t, <1>2, <1>15 DEF FollowEnd, TargetEnded
<1>16. CASE UNCHANGED vars
  BY <1>3, <1>16 DEF vars
<1>17. QED
  BY <1>5, <1>6, <1>7, <1>8, <1>9, <1>10, <1>11, <1>12, <1>13, <1>14, <1>15, <1>16
  DEF Next, RunStep, TimerStep, FollowStep

\* A step that leaves the lists alone: a follower stays where it is, handles the
\* event it has slept on, or goes on without an event.
OffLists ==
    /\ UNCHANGED <<inbox, subscribers, results, seen>>
    /\ quit \subseteq quit'
    /\ \A s \in Followers :
           \/ pc'[s] = pc[s] /\ yielded'[s] = yielded[s]
           \/ pc[s] = "pause" /\ pc'[s] = "handle" /\ yielded'[s] = yielded[s] + 1
           \/ pc[s] # "new" /\ pc'[s] \notin {"new", "pause"} /\ yielded'[s] = yielded[s]

LEMMA ListCases ==
  ASSUME Typed, [Next]_vars
  PROVE  \/ Start \/ OffLists
         \/ \E s \in Sched : \E ok \in BOOLEAN : Handle(s, ok)
         \/ \E s \in Followers : Receive(s)
<1>t. /\ pc \in Pcs /\ yielded \in [Sched -> Nat] /\ Followers \subseteq Sched
      /\ Timers \subseteq Sched /\ Timers \cap Followers = {}
  BY DEF Typed, TypeOK, Pcs, Followers, Timers
<1> USE DEF OffLists
<1>1. ASSUME NEW s \in Sched, Pause(s) PROVE OffLists
  BY <1>t, <1>1 DEF Pause, Goto, Passed, Pcs
<1>2. ASSUME NEW s \in Sched, CloseSource(s) PROVE OffLists
  BY <1>t, <1>2 DEF CloseSource, Goto, Pcs
<1>3. ASSUME NEW s \in Sched, Leave(s) PROVE OffLists
  BY <1>t, <1>3 DEF Leave, Goto, Pcs
<1>4. ASSUME NEW s \in Timers, Generate(s) PROVE OffLists
  <2>1. UNCHANGED <<inbox, subscribers, results, seen>> /\ quit' = quit /\ Deliver(s)
    BY <1>4 DEF Generate
  <2>2. \A x \in Followers : pc'[x] = pc[x] /\ yielded'[x] = yielded[x]
    BY <1>t, <2>1 DEF Deliver, Goto, Passed, Pcs
  <2>3. QED
    BY <2>1, <2>2
<1>5. ASSUME NEW s \in Timers, GenerateBroken(s) \/ GenerateCancelled(s) \/ TimerEnd(s) PROVE OffLists
  BY <1>t, <1>5 DEF GenerateBroken, GenerateCancelled, TimerEnd, Goto, Pcs
<1>6. ASSUME NEW s \in Followers, FollowEnd(s) PROVE OffLists
  BY <1>t, <1>6 DEF FollowEnd, Goto, Pcs
<1>7. ASSUME UNCHANGED vars \/ Shutdown PROVE OffLists
  BY <1>7 DEF vars, Shutdown
<1> USE <1>1, <1>2, <1>3, <1>4, <1>5, <1>6, <1>7
<1> HIDE DEF OffLists
<1>8. (\E s \in Sched : RunStep(s)) => OffLists \/ \E s \in Sched : \E ok \in BOOLEAN : Handle(s, ok)
  BY DEF RunStep
<1>9. (\E s \in Timers : TimerStep(s)) => OffLists
  BY DEF TimerStep
<1>10. (\E s \in Followers : FollowStep(s)) => OffLists \/ \E s \in Followers : Receive(s)
  BY DEF FollowStep
<1>11. QED
  BY <1>8, <1>9, <1>10, Zenon DEF Next

\* While a task publishes, its followers still listen, unless one left early.
LEMMA StillOpen ==
  ASSUME Typed, Phase, UsersCounted, Subscriptions, Closed,
         NEW s \in Sched, pc[s] = "handle", EarlyLeavers(TaskOf[s]) = {}
  PROVE  \A x \in FollowersOf(TaskOf[s]) : x \in open /\ Subscribed(TaskOf[s], x)
<1>1. TaskOf[s] \in Tasks
  BY SchedulerAssumption
<1>2. \A x \in Sched : pc[x] # "new"
  BY DEF Phase
<1>3. s \in Active(TaskOf[s])
  BY DEF Active
<1>4. TaskOf[s] \notin finished
  BY <1>1, <1>3 DEF UsersCounted
<1>5. \A x \in FollowersOf(TaskOf[s]) : x \in open
  BY <1>4 DEF FollowersOf, EarlyLeavers, Closed
<1>6. \A x \in FollowersOf(TaskOf[s]) : pc[x] # "new"
  BY <1>2 DEF FollowersOf, Followers
<1>7. QED
  BY <1>1, <1>5, <1>6 DEF Subscriptions

\* Handle, as the lists see it.
LEMMA HandleLists ==
  ASSUME Typed, Phase, UsersCounted, Subscriptions, Closed,
         NEW s \in Sched, NEW ok \in BOOLEAN, Handle(s, ok)
  PROVE  \E t \in Tasks, r \in Results :
            /\ pc[s] = "handle" /\ quit' = quit /\ seen' = seen /\ yielded' = yielded
            /\ \A x \in Sched : pc[x] # "new"
            /\ \A x \in Sched : pc'[x] = pc[x] \/ pc'[x] \in {"close", "next"}
            /\ inbox' \in [Followers -> Seq(Results)]
            /\ results'[t] = Append(results[t], r)
            /\ \A u \in Tasks \ {t} : results'[u] = results[u] /\ subscribers'[u] = subscribers[u]
            /\ \A x \in Followers :
                  \/ inbox'[x] = inbox[x]
                  \/ Target[x] = t /\ inbox'[x] = Append(inbox[x], r)
            /\ subscribers'[t] \in Seq(FollowersOf(t))
            /\ EarlyLeavers(t) = {} =>
                  \A x \in FollowersOf(t) : inbox'[x] = Append(inbox[x], r) /\ Subscribed(t, x)'
<1>1. TaskOf[s] \in Tasks
  BY SchedulerAssumption
<1>2. PICK t, r : /\ t = TaskOf[s] /\ t \in Tasks
                  /\ r = [n |-> Len(results[TaskOf[s]]) + 1, ok |-> ok]
  BY <1>1
<1>3. r \in Results
  BY <1>2, NewResult
<1>4. PublishResult(t, r) /\ pc[s] = "handle"
  BY <1>2 DEF Handle
<1>5. /\ inbox' \in [Followers -> Seq(Results)]
      /\ results'[t] = Append(results[t], r)
      /\ \A u \in Tasks \ {t} : results'[u] = results[u] /\ subscribers'[u] = subscribers[u]
      /\ \A x \in Followers :
               \/ inbox'[x] = inbox[x]
               \/ x \in open /\ Target[x] = t /\ inbox'[x] = Append(inbox[x], r)
      /\ subscribers'[t] \in Seq(FollowersOf(t))
  BY <1>2, <1>3, <1>4, Publication
<1>6. ASSUME EarlyLeavers(t) = {}
      PROVE  \A x \in FollowersOf(t) : inbox'[x] = Append(inbox[x], r) /\ Subscribed(t, x)'
  <2>1. \A x \in FollowersOf(t) : x \in open /\ Subscribed(t, x)
    BY <1>2, <1>4, <1>6, StillOpen
  <2>2. QED
    BY <1>2, <1>3, <1>4, <2>1, Publication
<1>7. \A x \in Sched : pc[x] # "new"
  BY <1>4 DEF Phase
<1>8. \A x \in Sched : pc'[x] = pc[x] \/ pc'[x] \in {"close", "next"}
  <2>1. pc' = [pc EXCEPT ![s] = AfterHandler(s)] /\ AfterHandler(s) \in {"close", "next"}
    BY DEF Handle, Goto, AfterHandler
  <2>2. pc \in [Sched -> {"new", "next", "pause", "handle", "close", "join", "stopped"}]
    BY DEF Typed, TypeOK
  <2>3. QED
    BY <2>1, <2>2
<1>9. quit' = quit /\ seen' = seen /\ yielded' = yielded
  BY DEF Handle
<1> USE <1>2, <1>3
<1> WITNESS t \in Tasks, r \in Results
<1>10. QED
  BY <1>4, <1>5, <1>6, <1>7, <1>8, <1>9

\* Receive, as the lists see it.
LEMMA ReceiveLists ==
  ASSUME Typed, NEW s \in Followers, Receive(s)
  PROVE  /\ seen'[s] \in Seq(Results) /\ seen'[s] = Append(seen[s], Head(inbox[s]))
         /\ seen'[s] \o inbox'[s] = seen[s] \o inbox[s] /\ Head(inbox[s]) \in Results
         /\ \A x \in Followers \ {s} : seen'[x] = seen[x] /\ inbox'[x] = inbox[x]
         /\ \A x \in Followers : pc[x] = "new" => pc'[x] = "new"
         /\ UNCHANGED <<results, quit, subscribers>>
<1>1. /\ inbox[s] \in Seq(Results) /\ inbox[s] # <<>> /\ seen[s] \in Seq(Results)
      /\ inbox \in [Followers -> Seq(Results)] /\ seen \in [Followers -> Seq(Results)]
      /\ s \in Sched /\ Followers \subseteq Sched
  BY DEF Receive, Followers, Typed
<1>2. /\ seen' = [seen EXCEPT ![s] = Append(seen[s], Head(inbox[s]))]
      /\ inbox' = [inbox EXCEPT ![s] = Tail(inbox[s])]
      /\ UNCHANGED <<results, quit, subscribers>>
  BY DEF Receive
<1>3. Append(seen[s], Head(inbox[s])) \in Seq(Results) /\ Head(inbox[s]) \in Results
  BY <1>1, HeadTailProperties, AppendProperties
<1>4. Append(seen[s], Head(inbox[s])) \o Tail(inbox[s]) = seen[s] \o inbox[s]
  BY <1>1, MoveHead
<1>5. \A x \in Followers : pc[x] = "new" => pc'[x] = "new"
  <2>1. pc[s] = "next" /\ pc \in Pcs /\ (pc' = pc \/ Goto(s, "pause") \/ Goto(s, "handle"))
    BY DEF Receive, Deliver, Typed, TypeOK, Pcs
  <2>2. QED
    BY <1>1, <2>1 DEF Goto, Pcs
<1>6. QED
  BY <1>1, <1>2, <1>3, <1>4, <1>5

\* A list of subscribers changes when its task publishes, and then keeps
\* everybody who listens.
LEMMA SubscriptionsStep ==
  Typed /\ Phase /\ UsersCounted /\ Subscriptions /\ Closed /\ [Next]_vars => Subscriptions'
<1> SUFFICES ASSUME Typed, Phase, UsersCounted, Subscriptions, Closed, [Next]_vars
             PROVE  Subscriptions'
  OBVIOUS
<1>1. CASE Start
  BY <1>1, StartSubscribes DEF Subscriptions, FollowersOf
<1>2. ASSUME UNCHANGED subscribers, quit \subseteq quit',
             \A x \in Followers : pc[x] = "new" => pc'[x] = "new"
      PROVE  Subscriptions'
  <2>1. \A t : EarlyLeavers(t)' = {} => EarlyLeavers(t) = {}
    BY <1>2 DEF EarlyLeavers
  <2>2. \A t : FollowersOf(t) \subseteq Followers
    BY DEF FollowersOf
  <2>3. QED
    BY <1>2, <2>1, <2>2 DEF Subscriptions, Subscribed
<1>3. CASE OffLists
  <2>1. \A x \in Followers : pc[x] = "new" => pc'[x] = "new"
    BY <1>3 DEF OffLists
  <2>2. QED
    BY <1>2, <1>3, <2>1 DEF OffLists
<1>4. ASSUME NEW s \in Sched, NEW ok \in BOOLEAN, Handle(s, ok) PROVE Subscriptions'
  <2>1. PICK t \in Tasks, r \in Results :
            /\ quit' = quit
            /\ \A x \in Sched : pc[x] # "new"
            /\ \A u \in Tasks \ {t} : subscribers'[u] = subscribers[u]
            /\ subscribers'[t] \in Seq(FollowersOf(t))
            /\ EarlyLeavers(t) = {} => \A x \in FollowersOf(t) : Subscribed(t, x)'
    BY <1>4, HandleLists
  <2>2. \A u : EarlyLeavers(u)' = EarlyLeavers(u)
    BY <2>1 DEF EarlyLeavers
  <2>3. \A u : \A x \in FollowersOf(u) : pc[x] # "new"
    BY <2>1 DEF FollowersOf, Followers
  <2>4. ASSUME NEW u \in Tasks
        PROVE  /\ subscribers'[u] \in Seq(FollowersOf(u))
               /\ EarlyLeavers(u)' = {} => \A x \in FollowersOf(u) : Subscribed(u, x)'
    <3>1. CASE u = t
      BY <2>1, <2>2, <3>1
    <3>2. CASE u # t
      BY <2>1, <2>2, <2>3, <3>2 DEF Subscriptions, Subscribed
    <3>3. QED
      BY <3>1, <3>2
  <2>5. QED
    BY <2>4 DEF Subscriptions
<1>5. ASSUME NEW s \in Followers, Receive(s) PROVE Subscriptions'
  <2>1. /\ UNCHANGED subscribers /\ quit' = quit
        /\ \A x \in Followers : pc[x] = "new" => pc'[x] = "new"
    BY <1>5, ReceiveLists
  <2>2. QED
    BY <1>2, <2>1
<1>6. QED
  BY <1>1, <1>3, <1>4, <1>5, ListCases

\* What a follower has seen and will see is what its target has published.
LEMMA OnceStep ==
  /\ Typed /\ Phase /\ UsersCounted /\ Subscriptions /\ Closed /\ EveryResultOnce
  /\ [Next]_vars
  => EveryResultOnce'
<1> SUFFICES ASSUME Typed, Phase, UsersCounted, Subscriptions, Closed, EveryResultOnce, [Next]_vars,
                    NEW x \in Followers, pc'[x] # "new", EarlyLeavers(Target[x])' = {}
             PROVE  seen'[x] \o inbox'[x] = results'[Target[x]]
  BY DEF EveryResultOnce
<1>t. Target[x] \in Tasks /\ x \in Sched /\ x \in FollowersOf(Target[x])
      /\ seen[x] \in Seq(Results) /\ inbox[x] \in Seq(Results)
  BY SchedulerAssumption DEF Followers, FollowersOf, Typed
<1>1. CASE Start
  <2>1. inbox[x] = <<>> /\ seen[x] = <<>> /\ results[Target[x]] = <<>>
    BY <1>t, <1>1 DEF Start, Phase
  <2>2. UNCHANGED <<inbox, seen, results>>
    BY <1>1 DEF Start
  <2>3. <<>> \o <<>> = <<>>
    BY EmptySeq, ConcatEmptySeq
  <2>4. QED
    BY <2>1, <2>2, <2>3
<1>2. CASE OffLists
  <2>1. pc[x] # "new" /\ EarlyLeavers(Target[x]) = {}
    BY <1>2 DEF OffLists, EarlyLeavers
  <2>2. QED
    BY <1>2, <2>1 DEF OffLists, EveryResultOnce
<1>3. ASSUME NEW s \in Sched, NEW ok \in BOOLEAN, Handle(s, ok)
      PROVE  seen'[x] \o inbox'[x] = results'[Target[x]]
  <2>1. PICK t \in Tasks, r \in Results :
            /\ quit' = quit /\ seen' = seen /\ pc[x] # "new"
            /\ results'[t] = Append(results[t], r)
            /\ \A u \in Tasks \ {t} : results'[u] = results[u]
            /\ \/ inbox'[x] = inbox[x]
               \/ Target[x] = t /\ inbox'[x] = Append(inbox[x], r)
            /\ EarlyLeavers(t) = {} =>
                  \A y \in FollowersOf(t) : inbox'[y] = Append(inbox[y], r)
    BY <1>t, <1>3, HandleLists, SMTT(30)
  <2>2. EarlyLeavers(Target[x]) = {}
    BY <2>1 DEF EarlyLeavers
  <2>3. seen[x] \o inbox[x] = results[Target[x]]
    BY <2>1, <2>2 DEF EveryResultOnce
  <2>4. CASE Target[x] = t
    <3>1. inbox'[x] = Append(inbox[x], r)
      BY <1>t, <2>1, <2>2, <2>4
    <3>2. seen[x] \o Append(inbox[x], r) = Append(seen[x] \o inbox[x], r)
      BY <1>t, AppendLast
    <3>3. QED
      BY <2>1, <2>3, <2>4, <3>1, <3>2
  <2>5. CASE Target[x] # t
    BY <1>t, <2>1, <2>3, <2>5
  <2>6. QED
    BY <2>4, <2>5
<1>4. ASSUME NEW s \in Followers, Receive(s)
      PROVE  seen'[x] \o inbox'[x] = results'[Target[x]]
  <2>1. /\ UNCHANGED <<results, quit>> /\ pc[x] # "new"
        /\ seen'[x] \o inbox'[x] = seen[x] \o inbox[x]
    BY <1>4, ReceiveLists
  <2>2. EarlyLeavers(Target[x]) = {}
    BY <2>1 DEF EarlyLeavers
  <2>3. QED
    BY <2>1, <2>2 DEF EveryResultOnce
<1>5. QED
  BY <1>1, <1>2, <1>3, <1>4, ListCases

\* An event of `after` is a success that its follower has taken from its
\* buffer, and that its target had published.
LEMMA SuccessesStep ==
  /\ Typed /\ Phase /\ UsersCounted /\ Subscriptions /\ Closed /\ Successes
  /\ [Next]_vars
  => Successes'
<1> SUFFICES ASSUME Typed, Phase, UsersCounted, Subscriptions, Closed, Successes, [Next]_vars,
                    NEW x \in Followers, Source[x] = "after"
             PROVE  /\ yielded'[x] + (IF pc'[x] = "pause" THEN 1 ELSE 0) <= Cardinality(OkIn(seen'[x]))
                    /\ Cardinality(OkIn(seen'[x] \o inbox'[x])) <= Cardinality(OkIn(results'[Target[x]]))
  BY DEF Successes, OkIn
<1>t. /\ Target[x] \in Tasks /\ x \in Sched /\ yielded[x] \in Nat
      /\ seen[x] \in Seq(Results) /\ inbox[x] \in Seq(Results) /\ results[Target[x]] \in Seq(Results)
      /\ pc \in Pcs /\ yielded \in [Sched -> Nat]
  BY SchedulerAssumption DEF Followers, Typed, TypeOK, Pcs
<1>o. /\ yielded[x] + (IF pc[x] = "pause" THEN 1 ELSE 0) <= Cardinality(OkIn(seen[x]))
      /\ Cardinality(OkIn(seen[x] \o inbox[x])) <= Cardinality(OkIn(results[Target[x]]))
  BY DEF Successes
<1>n. /\ Cardinality(OkIn(seen[x])) \in Nat /\ seen[x] \o inbox[x] \in Seq(Results)
      /\ Cardinality(OkIn(seen[x] \o inbox[x])) \in Nat /\ Cardinality(OkIn(results[Target[x]])) \in Nat
  BY <1>t, ConcatProperties, OkFinite
<1> DEFINE First  == yielded'[x] + (IF pc'[x] = "pause" THEN 1 ELSE 0) <= Cardinality(OkIn(seen'[x]))
           Second == Cardinality(OkIn(seen'[x] \o inbox'[x])) <= Cardinality(OkIn(results'[Target[x]]))
<1>1. CASE Start
  <2>1. /\ UNCHANGED <<inbox, seen, results, yielded>>
        /\ pc'[x] # "pause"
    BY <1>t, <1>1 DEF Start
  <2>2. QED
    BY <1>t, <1>o, <1>n, <2>1
<1>2. CASE OffLists
  <2>1. /\ UNCHANGED <<inbox, seen, results>>
        /\ \/ pc'[x] = pc[x] /\ yielded'[x] = yielded[x]
           \/ pc[x] = "pause" /\ pc'[x] = "handle" /\ yielded'[x] = yielded[x] + 1
           \/ pc'[x] # "pause" /\ yielded'[x] = yielded[x]
    BY <1>2 DEF OffLists
  <2>2. QED
    BY <1>t, <1>o, <1>n, <2>1
<1>3. ASSUME NEW s \in Sched, NEW ok \in BOOLEAN, Handle(s, ok) PROVE First /\ Second
  <2>1. PICK t \in Tasks, r \in Results :
            /\ seen' = seen /\ yielded' = yielded
            /\ pc'[x] = pc[x] \/ pc'[x] \in {"close", "next"}
            /\ results'[t] = Append(results[t], r)
            /\ \A u \in Tasks \ {t} : results'[u] = results[u]
            /\ \/ inbox'[x] = inbox[x]
               \/ Target[x] = t /\ inbox'[x] = Append(inbox[x], r)
    BY <1>t, <1>3, HandleLists
  <2>2. First
    BY <1>t, <1>o, <1>n, <2>1
  <2>3. CASE Target[x] # t
    BY <1>t, <1>o, <2>1, <2>2, <2>3
  <2>4. CASE Target[x] = t
    <3>1. Cardinality(OkIn(results'[Target[x]]))
            = Cardinality(OkIn(results[Target[x]])) + (IF r.ok THEN 1 ELSE 0)
      BY <1>t, <2>1, <2>4, OkAppend
    <3>2. CASE inbox'[x] = inbox[x]
      BY <1>o, <1>n, <2>1, <2>2, <3>1, <3>2
    <3>3. CASE inbox'[x] = Append(inbox[x], r)
      <4>1. seen'[x] \o inbox'[x] = Append(seen[x] \o inbox[x], r)
        BY <1>t, <2>1, <3>3, AppendLast
      <4>2. Cardinality(OkIn(seen'[x] \o inbox'[x]))
              = Cardinality(OkIn(seen[x] \o inbox[x])) + (IF r.ok THEN 1 ELSE 0)
        BY <1>n, <4>1, OkAppend
      <4>3. QED
        BY <1>o, <1>n, <2>2, <3>1, <4>2
    <3>4. QED
      BY <2>1, <3>2, <3>3
  <2>5. QED
    BY <2>3, <2>4
<1>4. ASSUME NEW s \in Followers, Receive(s) PROVE First /\ Second
  <2>1. /\ seen'[x] \o inbox'[x] = seen[x] \o inbox[x] /\ results' = results
        /\ x # s => seen'[x] = seen[x] /\ inbox'[x] = inbox[x]
    BY <1>4, ReceiveLists
  <2>2. Second
    BY <1>o, <2>1
  <2>3. CASE x # s
    <3>1. s \in Sched /\ (UNCHANGED <<pc, yielded>> \/ Deliver(s))
      BY <1>4 DEF Receive, Followers
    <3>2. pc'[x] = pc[x] /\ yielded'[x] = yielded[x]
      BY <1>t, <2>3, <3>1 DEF Deliver, Goto, Passed, Pcs
    <3>3. QED
      BY <1>o, <2>1, <2>2, <2>3, <3>2
  <2>4. CASE x = s
    <3>1. PICK r \in Results : r = Head(inbox[x]) /\ seen'[x] = Append(seen[x], r)
      BY <1>4, <2>4, ReceiveLists
    <3>2. Cardinality(OkIn(seen'[x])) = Cardinality(OkIn(seen[x])) + (IF r.ok THEN 1 ELSE 0)
      BY <1>t, <3>1, OkAppend
    <3>3. pc[x] = "next"
      BY <1>4, <2>4 DEF Receive
    <3>4. CASE ~r.ok
      <4>1. Skips(x, r)
        BY <3>4 DEF Skips
      <4>2. UNCHANGED <<pc, yielded>>
        BY <1>4, <2>4, <3>1, <4>1 DEF Receive
      <4>3. QED
        BY <1>t, <1>o, <1>n, <2>2, <3>2, <3>3, <3>4, <4>2
    <3>5. CASE r.ok
      <4>1. ~Skips(x, r)
        BY <3>5 DEF Skips
      <4>2. Deliver(x)
        BY <1>4, <2>4, <3>1, <4>1 DEF Receive
      <4>3. yielded'[x] + (IF pc'[x] = "pause" THEN 1 ELSE 0) = yielded[x] + 1
        BY <1>t, <4>2 DEF Deliver, Goto, Passed, Pcs
      <4>4. QED
        BY <1>t, <1>o, <1>n, <2>2, <3>2, <3>3, <3>5, <4>3
    <3>6. QED
      BY <3>4, <3>5
  <2>5. QED
    BY <2>3, <2>4
<1>5. QED
  BY <1>1, <1>2, <1>3, <1>4, ListCases

-----------------------------------------------------------------------------
\* Nothing has happened to a new scheduler.
LEMMA IInvInit == Init => IInv
<1> SUFFICES ASSUME Init PROVE IInv
  OBVIOUS
<1>1. <<>> \in Seq(Results) /\ <<>> \in Seq(Followers) /\ \A t : <<>> \in Seq(FollowersOf(t))
  BY EmptySeq
<1>2. Typed
  <2>1. /\ inbox \in [Followers -> Seq(Results)] /\ seen \in [Followers -> Seq(Results)]
        /\ results \in [Tasks -> Seq(Results)] /\ subscribers \in [Tasks -> Seq(Followers)]
    BY <1>1 DEF Init
  <2>2. users \in [Tasks -> 0 .. Len(Scheds)]
    <3>1. 0 \in 0 .. Len(Scheds)
      BY SchedFinite
    <3>2. QED
      BY <3>1 DEF Init
  <2>3. /\ pc \in [Sched -> {"new", "next", "pause", "handle", "close", "join", "stopped"}]
        /\ gen \in [Timers -> {"first", "sleep", "done"}]
        /\ yielded \in [Sched -> Nat]
        /\ quit \subseteq Sched /\ open \subseteq Sched /\ finished \subseteq Tasks
        /\ shutdown \in BOOLEAN
    BY DEF Init
  <2>4. QED
    BY <2>1, <2>2, <2>3 DEF Typed, TypeOK
<1>3. Phase
  BY SchedulerAssumption DEF Init, Phase, Followers
<1>4. UsersCounted
  <2>1. \A t : Active(t) = {}
    BY DEF Init, Active
  <2>2. QED
    BY <2>1, FS_EmptySet DEF Init, UsersCounted
<1>5. Subscriptions
  <2>1. \A t : \A s \in FollowersOf(t) : pc[s] = "new"
    BY DEF Init, FollowersOf, Followers
  <2>2. QED
    BY <1>1, <2>1 DEF Init, Subscriptions
<1>6. Closed /\ Taken /\ EveryResultOnce
  BY SchedulerAssumption DEF Init, Closed, Taken, EveryResultOnce, Followers
<1>7. Successes
  <2>1. \A s \in Followers : /\ seen[s] = <<>> /\ inbox[s] = <<>> /\ results[Target[s]] = <<>>
                             /\ yielded[s] = 0 /\ pc[s] = "new"
    BY SchedulerAssumption DEF Init, Followers
  <2>2. <<>> \o <<>> = <<>>
    BY EmptySeq, ConcatEmptySeq
  <2>3. ASSUME NEW s \in Followers
        PROVE  /\ yielded[s] + (IF pc[s] = "pause" THEN 1 ELSE 0) <= Cardinality(OkIn(seen[s]))
               /\ Cardinality(OkIn(seen[s] \o inbox[s])) <= Cardinality(OkIn(results[Target[s]]))
    <3>1. seen[s] = <<>> /\ seen[s] \o inbox[s] = <<>> /\ results[Target[s]] = <<>>
      BY <2>1, <2>2
    <3>2. /\ Cardinality(OkIn(seen[s])) = 0 /\ Cardinality(OkIn(seen[s] \o inbox[s])) = 0
          /\ Cardinality(OkIn(results[Target[s]])) = 0
      BY <3>1, OkEmpty, Zenon
    <3>3. QED
      BY <2>1, <3>2
  <2>4. QED
    BY <2>3 DEF Successes
<1>8. QED
  BY <1>2, <1>3, <1>4, <1>5, <1>6, <1>7 DEF IInv

LEMMA IInvStep == IInv /\ [Next]_vars => IInv'
  BY TypedStep, PhaseStep, UsersStep, SubscriptionsStep, ClosedStep, TakenStep, SuccessesStep, OnceStep
  DEF IInv

LEMMA Invariant == Spec => []IInv
<1>1. Init => IInv
  BY IInvInit
<1>2. IInv /\ [Next]_vars => IInv'
  BY IInvStep
<1>3. QED
  BY <1>1, <1>2, PTL DEF Spec

\* Task._publish_result: while nobody who follows a task has left early, each
\* of its followers gets every result exactly once, in the order of publication,
\* however many tasks and followers there are and whatever they do.
THEOREM ResultsAreDelivered == Spec => []EveryResultOnce
<1>1. IInv => EveryResultOnce
  BY DEF IInv
<1>2. QED
  BY <1>1, Invariant, PTL

LEMMA InStep == IInv => TasksInStep
<1> SUFFICES ASSUME IInv PROVE TasksInStep
  OBVIOUS
<1>1. TypeOK
  BY DEF IInv, Typed
<1>2. EndsWithItsTarget
  <2>1. ASSUME NEW s \in Followers, s \notin open, Target[s] \in finished, EarlyLeavers(Target[s]) = {}
        PROVE  seen[s] = results[Target[s]]
    <3>1. pc[s] # "new" /\ inbox[s] = <<>>
      BY <2>1 DEF IInv, Closed, EarlyLeavers
    <3>2. seen[s] \o inbox[s] = results[Target[s]] /\ seen[s] \in Seq(Results)
      BY <2>1, <3>1 DEF IInv, EveryResultOnce, Typed
    <3>3. QED
      BY <3>1, <3>2, ConcatEmptySeq
  <2>2. ASSUME NEW s \in Sched, pc[s] \notin {"new", "stopped"} PROVE TaskOf[s] \notin finished
    <3>1. TaskOf[s] \in Tasks /\ s \in Active(TaskOf[s])
      BY <2>2, SchedulerAssumption DEF Active
    <3>2. QED
      BY <3>1 DEF IInv, UsersCounted
  <2>3. QED
    BY <2>1, <2>2 DEF EndsWithItsTarget
<1>3. HandledOnce
  <2>1. \A s \in Sched : Take[s] > 0 => yielded[s] <= Take[s]
    BY DEF IInv, Taken
  <2>2. ASSUME NEW s \in Followers, Source[s] = "after"
        PROVE  yielded[s] <= Cardinality(OkIn(results[Target[s]]))
    <3>1. /\ yielded[s] \in Nat /\ seen[s] \in Seq(Results) /\ inbox[s] \in Seq(Results)
          /\ results[Target[s]] \in Seq(Results)
      BY SchedulerAssumption DEF IInv, Typed, TypeOK, Followers
    <3>2. /\ yielded[s] + (IF pc[s] = "pause" THEN 1 ELSE 0) <= Cardinality(OkIn(seen[s]))
          /\ Cardinality(OkIn(seen[s] \o inbox[s])) <= Cardinality(OkIn(results[Target[s]]))
      BY <2>2 DEF IInv, Successes
    <3>3. Cardinality(OkIn(seen[s])) <= Cardinality(OkIn(seen[s] \o inbox[s]))
      BY <3>1, OkPrefix
    <3>4. /\ Cardinality(OkIn(seen[s])) \in Nat /\ Cardinality(OkIn(seen[s] \o inbox[s])) \in Nat
          /\ Cardinality(OkIn(results[Target[s]])) \in Nat
      BY <3>1, ConcatProperties, OkFinite
    <3>5. QED
      BY <3>1, <3>2, <3>3, <3>4
  <2>3. QED
    BY <2>1, <2>2 DEF HandledOnce, OkIn
<1>4. QED
  BY <1>1, <1>2, <1>3 DEF TasksInStep

\* Scheduler.__call__, Task.__aexit__, take_first and delay: a follower that
\* ends with its target has seen its last result if nobody has left the target
\* early (with early leavers _publish_result may skip it); nobody who uses a
\* task finds it finished, and a handler runs at most once for an event.
THEOREM TasksStayInStep == Spec => []TasksInStep
  BY Invariant, InStep, PTL
=============================================================================
