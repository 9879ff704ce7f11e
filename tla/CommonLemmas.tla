------------------------------ MODULE CommonLemmas -----------------------------
(***************************************************************************)
(* Lemmas about sets of numbers and about sequences that the proofs about  *)
(* several components need.                                                *)
(***************************************************************************)
EXTENDS Naturals, Sequences, FiniteSets, SequencesExt, FiniteSetTheorems, SequenceTheorems,
        WellFoundedInduction, TLAPS

-------------------------------------------------------------------------------
(* A set of positions has a least member.  The initial segments 1..n of    *)
(* the members of S are finite sets, so one of them has no other strictly  *)
(* inside it.                                                              *)
LEMMA LeastMember ==
    ASSUME NEW N \in Nat, NEW S \in SUBSET (1..N), S # {}
    PROVE  \E j \in S : \A i \in S : j <= i
<1> DEFINE Segments == {1..n : n \in S}
<1>1. IsWellFoundedOn(StrictSubsetOrdering(1..N), FiniteSubsetsOf(1..N))
  BY FS_StrictSubsetOrderingWellFounded
<1>2. Segments \subseteq FiniteSubsetsOf(1..N) /\ Segments # {}
  <2>1. ASSUME NEW n \in S
        PROVE  1..n \in FiniteSubsetsOf(1..N)
    <3>1. n \in Int /\ 1 \in Int /\ 1..n \subseteq 1..N
      OBVIOUS
    <3>2. IsFiniteSet(1..n)
      BY <3>1, FS_Interval
    <3> QED
      BY <3>1, <3>2 DEF FiniteSubsetsOf
  <2> QED
    BY <2>1
<1>3. \E x \in Segments : \A y \in Segments : <<y, x>> \notin StrictSubsetOrdering(1..N)
  <2> HIDE DEF Segments
  <2> QED
    BY <1>1, <1>2, WFMin
<1>4. PICK j \in S : \A i \in S : <<1..i, 1..j>> \notin StrictSubsetOrdering(1..N)
  BY <1>3
<1>5. ASSUME NEW i \in S, ~(j <= i)
      PROVE  FALSE
  <2>1. <<1..i, 1..j>> \notin StrictSubsetOrdering(1..N)
    BY <1>4
  <2>2. 1..i \subseteq 1..j /\ 1..i # 1..j
    BY <1>5
  <2> QED
    BY <2>1, <2>2 DEF StrictSubsetOrdering
<1> QED
  BY <1>5

(* And it has a greatest member. *)
LEMMA GreatestMember ==
    ASSUME NEW N \in Nat, NEW S \in SUBSET (1..N), S # {}
    PROVE  \E j \in S : \A i \in S : i <= j
<1> DEFINE Mirror == {N + 1 - j : j \in S}
<1>1. Mirror \in SUBSET (1..N) /\ Mirror # {}
  <2>1. \A j \in S : j \in 1..N /\ N + 1 - j \in 1..N
    OBVIOUS
  <2> QED
    BY <2>1
<1>2. PICK m \in Mirror : \A i \in Mirror : m <= i
  <2> HIDE DEF Mirror
  <2> QED
    BY <1>1, LeastMember
<1>3. PICK j \in S : m = N + 1 - j
  BY <1>2
<1>4. ASSUME NEW i \in S
      PROVE  i <= j
  <2>1. N + 1 - j <= N + 1 - i
    BY <1>2, <1>3
  <2>2. i \in 1..N /\ j \in 1..N
    OBVIOUS
  <2> QED
    BY <2>1, <2>2
<1> QED
  BY <1>4

-------------------------------------------------------------------------------
(* RemoveAt takes the element at p out and moves the later ones up. *)
LEMMA Removed ==
    ASSUME NEW S, NEW s \in Seq(S), NEW p \in DOMAIN s
    PROVE  /\ RemoveAt(s, p) \in Seq(S)
           /\ DOMAIN s = 1..Len(s) /\ Len(s) \in Nat
           /\ DOMAIN RemoveAt(s, p) = 1..(Len(s) - 1)
           /\ \A i \in 1..(Len(s) - 1) : RemoveAt(s, p)[i] = IF i < p THEN s[i] ELSE s[i + 1]
<1> DEFINE before == SubSeq(s, 1, p - 1)
           after == SubSeq(s, p + 1, Len(s))
<1>1. Len(s) \in Nat /\ DOMAIN s = 1..Len(s) /\ p \in 1..Len(s) /\ \A i \in 1..Len(s) : s[i] \in S
  BY LenProperties, ElementOfSeq
<1>2. /\ before \in Seq(S) /\ Len(before) = p - 1
      /\ \A i \in 1..(p - 1) : before[i] = s[i]
  <2>1. 1 \in Int /\ p - 1 \in Int /\ \A i \in 1..(p - 1) : s[i] \in S
    BY <1>1
  <2>2. /\ before \in Seq(S)
        /\ Len(before) = IF 1 <= p - 1 THEN p - 1 - 1 + 1 ELSE 0
        /\ \A i \in 1..(p - 1 - 1 + 1) : before[i] = s[1 + i - 1]
    BY <2>1, SubSeqProperties
  <2>3. p - 1 - 1 + 1 = p - 1 /\ \A i \in 1..(p - 1) : 1 + i - 1 = i
    BY <1>1
  <2> HIDE DEF before
  <2> QED
    BY <1>1, <2>2, <2>3
<1>3. /\ after \in Seq(S) /\ Len(after) = Len(s) - p
      /\ \A i \in 1..(Len(s) - p) : after[i] = s[p + i]
  <2>1. p + 1 \in Int /\ Len(s) \in Int /\ \A i \in (p + 1)..Len(s) : s[i] \in S
    BY <1>1
  <2>2. /\ after \in Seq(S)
        /\ Len(after) = IF p + 1 <= Len(s) THEN Len(s) - (p + 1) + 1 ELSE 0
        /\ \A i \in 1..(Len(s) - (p + 1) + 1) : after[i] = s[p + 1 + i - 1]
    BY <2>1, SubSeqProperties
  <2>3. Len(s) - (p + 1) + 1 = Len(s) - p /\ \A i \in 1..(Len(s) - p) : p + 1 + i - 1 = p + i
    BY <1>1
  <2> HIDE DEF after
  <2> QED
    BY <1>1, <2>2, <2>3
<1>4. /\ RemoveAt(s, p) \in Seq(S) /\ Len(RemoveAt(s, p)) = Len(s) - 1
      /\ \A i \in 1..(Len(s) - 1) :
            RemoveAt(s, p)[i] = IF i <= p - 1 THEN before[i] ELSE after[i - (p - 1)]
  <2> HIDE DEF before, after
  <2>1. Len(before) + Len(after) = Len(s) - 1
    BY <1>1, <1>2, <1>3
  <2>2. /\ before \o after \in Seq(S) /\ Len(before \o after) = Len(before) + Len(after)
        /\ \A i \in 1..(Len(before) + Len(after)) :
              (before \o after)[i] = IF i <= Len(before) THEN before[i] ELSE after[i - Len(before)]
    BY <1>2, <1>3, ConcatProperties
  <2>3. RemoveAt(s, p) = before \o after
    BY DEF RemoveAt, before, after
  <2> QED
    BY <1>2, <2>1, <2>2, <2>3
<1>5. ASSUME NEW i \in 1..(Len(s) - 1)
      PROVE  RemoveAt(s, p)[i] = IF i < p THEN s[i] ELSE s[i + 1]
  <2> HIDE DEF before, after
  <2>1. CASE i < p
    BY <1>1, <1>2, <1>4, <2>1
  <2>2. CASE ~(i < p)
    <3>1. i - (p - 1) \in 1..(Len(s) - p) /\ p + (i - (p - 1)) = i + 1
      BY <1>1, <2>2
    <3>2. RemoveAt(s, p)[i] = after[i - (p - 1)]
      BY <1>1, <1>4, <2>2
    <3> QED
      BY <1>3, <2>2, <3>1, <3>2
  <2> QED
    BY <2>1, <2>2
<1>6. DOMAIN RemoveAt(s, p) = 1..(Len(s) - 1)
  BY <1>4, LenProperties
<1> QED
  BY <1>1, <1>4, <1>5, <1>6

(* The sequence t has the elements of s but the one at p, each once and in *)
(* their order; place says where in s an element of t was.                 *)
KeptPlaces(s, p, t, place) ==
    /\ place \in [DOMAIN t -> DOMAIN s \ {p}]
    /\ \A i \in DOMAIN t : t[i] = s[place[i]]
    /\ \A i, j \in DOMAIN t : (i < j <=> place[i] < place[j]) /\ (place[i] = place[j] => i = j)
    /\ \A j \in DOMAIN s \ {p} : \E i \in DOMAIN t : place[i] = j

(* RemoveAt takes one element out. *)
LEMMA RemovedPlaces ==
    ASSUME NEW S, NEW s \in Seq(S), NEW p \in DOMAIN s
    PROVE  RemoveAt(s, p) \in Seq(S) /\ \E place : KeptPlaces(s, p, RemoveAt(s, p), place)
<1> DEFINE t == RemoveAt(s, p)
           place == [i \in DOMAIN t |-> IF i < p THEN i ELSE i + 1]
<1>1. /\ t \in Seq(S) /\ DOMAIN s = 1..Len(s) /\ Len(s) \in Nat
      /\ DOMAIN t = 1..(Len(s) - 1)
      /\ \A i \in 1..(Len(s) - 1) : t[i] = IF i < p THEN s[i] ELSE s[i + 1]
  BY Removed
<1> HIDE DEF t
<1>2. place \in [DOMAIN t -> DOMAIN s \ {p}] /\ \A i \in DOMAIN t : t[i] = s[place[i]]
  BY <1>1
<1>3. \A i, j \in DOMAIN t : (i < j <=> place[i] < place[j]) /\ (place[i] = place[j] => i = j)
  BY <1>1
<1>4. ASSUME NEW j \in DOMAIN s \ {p}
      PROVE  \E i \in DOMAIN t : place[i] = j
  <2>1. CASE j < p
    BY <1>1, <2>1
  <2>2. CASE ~(j < p)
    <3>1. j - 1 \in DOMAIN t /\ ~(j - 1 < p) /\ (j - 1) + 1 = j
      BY <1>1, <2>2
    <3> QED
      BY <3>1
  <2> QED
    BY <2>1, <2>2
<1> HIDE DEF place
<1>5. KeptPlaces(s, p, t, place)
  BY <1>2, <1>3, <1>4 DEF KeptPlaces
<1> QED
  BY <1>1, <1>5 DEF t

(* Append keeps every element at its place and puts one behind them. *)
LEMMA AppendedPlaces ==
    ASSUME NEW S, NEW s \in Seq(S), NEW e \in S
    PROVE  LET t == Append(s, e) IN
           /\ t \in Seq(S) /\ t # <<>>
           /\ Len(s) \in Nat /\ Len(s) + 1 \notin DOMAIN s
           /\ DOMAIN s = 1..Len(s)
           /\ DOMAIN t = DOMAIN s \cup {Len(s) + 1}
           /\ \A i \in DOMAIN s : t[i] = s[i]
           /\ t[Len(s) + 1] = e
<1> DEFINE t == Append(s, e)
<1>1. /\ t \in Seq(S) /\ t # <<>> /\ Len(t) = Len(s) + 1
      /\ \A i \in 1..Len(s) : t[i] = s[i]
      /\ t[Len(s) + 1] = e
  BY AppendProperties
<1>2. Len(s) \in Nat /\ DOMAIN s = 1..Len(s) /\ DOMAIN t = 1..(Len(s) + 1)
  BY <1>1, LenProperties
<1>3. 1..(Len(s) + 1) = 1..Len(s) \cup {Len(s) + 1} /\ Len(s) + 1 \notin 1..Len(s)
  BY <1>2
<1> HIDE DEF t
<1> QED
  BY <1>1, <1>2, <1>3 DEF t

(* Tail moves every element but the first up by one. *)
LEMMA TailPlaces ==
    ASSUME NEW S, NEW s \in Seq(S), s # <<>>
    PROVE  LET t == Tail(s) IN
           /\ t \in Seq(S)
           /\ Len(s) \in Nat \ {0} /\ DOMAIN s = 1..Len(s) /\ Head(s) = s[1]
           /\ DOMAIN t = 1..(Len(s) - 1)
           /\ \A i \in DOMAIN t : i + 1 \in DOMAIN s /\ t[i] = s[i + 1]
           /\ \A i \in DOMAIN s : i # 1 => i - 1 \in DOMAIN t /\ t[i - 1] = s[i]
<1>1. /\ Tail(s) \in Seq(S) /\ Len(Tail(s)) = Len(s) - 1
      /\ \A i \in 1..Len(Tail(s)) : Tail(s)[i] = s[i + 1]
  BY HeadTailProperties
<1>2. Len(s) \in Nat \ {0} /\ DOMAIN s = 1..Len(s) /\ Head(s) = s[1]
  BY EmptySeq, LenProperties
<1>3. DOMAIN Tail(s) = 1..(Len(s) - 1)
  BY <1>1, LenProperties
<1> QED
  BY <1>1, <1>2, <1>3
================================================================================
