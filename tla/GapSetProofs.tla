---------------------------- MODULE GapSetProofs ----------------------------
(***************************************************************************)
(* GapSet is exact for every session size and every order of arrival.      *)
(*                                                                         *)
(* The inductive invariant is Inv: the intervals are separated, cover      *)
(* exactly what arrived, and the flag says whether that is everything.     *)
(* Separation is what makes the two lookups of observe enough: an interval *)
(* that contains seq, or ends just before it, is the predecessor of        *)
(* lower_bound or lower_bound itself, and at most one interval follows     *)
(* that touches seq.                                                       *)
(***************************************************************************)
EXTENDS GapSet, FiniteSetTheorems, WellFoundedInduction, TLAPS

Inv ==
    /\ TypeOK
    /\ Separated
    /\ IntervalsExact
    /\ allObserved <=> observed = 0 .. size - 1

\* A lower bound that is in the set is what Least chooses.
LEMMA LeastIs ==
    ASSUME NEW S \in SUBSET Int, NEW m \in S, \A y \in S : m <= y
    PROVE  Least(S) = m
<1>1. \E x \in S : \A y \in S : x <= y
  OBVIOUS
<1>2. Least(S) \in S /\ \A y \in S : Least(S) <= y
  BY ONLY <1>1, Zenon DEF Least
<1>3. Least(S) <= m /\ m <= Least(S) /\ Least(S) \in Int /\ m \in Int
  BY <1>2
<1>4. QED
  BY <1>3

\* An upper bound that is in the set is what Greatest chooses.
LEMMA GreatestIs ==
    ASSUME NEW S \in SUBSET Int, NEW m \in S, \A y \in S : m >= y
    PROVE  Greatest(S) = m
<1>1. \E x \in S : \A y \in S : x >= y
  OBVIOUS
<1>2. Greatest(S) \in S /\ \A y \in S : Greatest(S) >= y
  BY ONLY <1>1, Zenon DEF Greatest
<1>3. Greatest(S) >= m /\ m >= Greatest(S) /\ Greatest(S) \in Int /\ m \in Int
  BY <1>2
<1>4. QED
  BY <1>3

\* A nonempty set of numbers that is bounded has a greatest one.
LEMMA BoundedGreatest ==
    ASSUME NEW S \in SUBSET Nat, S # {}, NEW b \in Nat, \A x \in S : x <= b
    PROVE  Greatest(S) \in S /\ \A y \in S : Greatest(S) >= y
<1> DEFINE T == {b - x : x \in S}
           R == OpToRel(<, Nat)
<1>1. T \subseteq Nat /\ T # {}
  <2>1. \A x \in S : x \in Nat /\ b - x \in Nat
    OBVIOUS
  <2>2. QED
    BY ONLY <2>1, S # {}
<1>2. IsWellFoundedOn(R, Nat)
  BY NatLessThanWellFounded
<1>3. \E t \in T : \A u \in T : ~(<<u, t>> \in R)
  <2> HIDE DEF T, R
  <2> QED
    BY <1>1, <1>2, WFMin
<1>4. \A t, u \in Nat : <<u, t>> \in R <=> u < t
  BY DEF OpToRel
<1>5. PICK t \in T : \A u \in T : ~(u < t)
  BY <1>1, <1>3, <1>4
<1>6. PICK m \in S : t = b - m
  OBVIOUS
<1>7. ASSUME NEW y \in S PROVE m >= y
  <2>1. b - y \in T
    OBVIOUS
  <2>2. ~(b - y < t) /\ y \in Nat /\ m \in Nat
    BY <1>5, <2>1
  <2>3. QED
    BY <2>2, <1>6
<1>8. QED
  BY ONLY <1>7, m \in S, Zenon DEF Greatest

\* A nonempty set of numbers has a least one.
LEMMA NatLeast ==
    ASSUME NEW S \in SUBSET Nat, S # {}
    PROVE  \E m \in S : \A y \in S : m <= y
<1> DEFINE R == OpToRel(<, Nat)
<1>1. IsWellFoundedOn(R, Nat)
  BY NatLessThanWellFounded
<1>2. \A t, u \in Nat : <<u, t>> \in R <=> u < t
  BY DEF OpToRel
<1> HIDE DEF R
<1>3. \E t \in S : \A u \in S : ~(<<u, t>> \in R)
  BY <1>1, WFMin
<1>4. PICK t \in S : \A u \in S : ~(<<u, t>> \in R)
  BY <1>3
<1>5. ASSUME NEW u \in S PROVE t <= u
  <2>1. t \in Nat /\ u \in Nat
    OBVIOUS
  <2>2. ~(u < t)
    BY <1>2, <1>4, <2>1, Zenon
  <2>3. QED
    BY <2>1, <2>2
<1>6. QED
  BY <1>5

\* The fields of an interval, and what covering means, in a form for the provers.
LEMMA IntervalFacts ==
    ASSUME Inv
    PROVE  /\ size \in Nat
           /\ \A i \in intervals :
                 /\ i = [start |-> i.start, end |-> i.end]
                 /\ i.start \in Nat
                 /\ i.end \in Nat
                 /\ i.start <= i.end
                 /\ i.end < size
           /\ \A n \in Nat :
                 n \in observed <=> \E i \in intervals : i.start <= n /\ n <= i.end
<1>1. size \in Nat
  BY GapAssumption DEF Inv, TypeOK
<1>2. ASSUME NEW i \in intervals
      PROVE  /\ i = [start |-> i.start, end |-> i.end]
             /\ i.start \in Nat
             /\ i.end \in Nat
             /\ i.start <= i.end
             /\ i.end < size
  BY <1>1 DEF Inv, TypeOK
<1>3. ASSUME NEW n \in Nat
      PROVE  n \in observed <=> \E i \in intervals : i.start <= n /\ n <= i.end
  <2>1. n \in observed <=> \E i \in intervals : n \in i.start .. i.end
    BY DEF Inv, IntervalsExact, Covered
  <2>2. QED
    BY <2>1, <1>2
<1>4. QED
  BY <1>1, <1>2, <1>3

\* Looking at lower_bound and its predecessor finds exactly what arrived.
LEMMA KnownExact ==
    ASSUME Inv, NEW seq \in Nat
    PROVE  Known(seq) <=> seq \in observed
<1>1. Separated
  BY DEF Inv
<1>2. ASSUME NEW i \in intervals, i.start <= seq, seq <= i.end
      PROVE  i \in PrevOf(seq) \cup NextOf(seq)
  <2>1. CASE i.start = seq
    <3>1. i \in From(seq)
      BY <2>1, <1>2, IntervalFacts DEF From
    <3>2. \A j \in From(seq) : i.start <= j.start
      BY <2>1, IntervalFacts DEF From
    <3>3. QED
      BY <3>1, <3>2 DEF NextOf
  <2>2. CASE i.start < seq
    <3>1. i \in Before(seq)
      BY <2>2, IntervalFacts DEF Before, From
    <3>2. ASSUME NEW j \in Before(seq) PROVE j.start <= i.start
      <4>1. j \in intervals /\ j.start <= seq
        BY <3>2, IntervalFacts DEF Before, From
      <4>2. i = j \/ i.end + 1 < j.start \/ j.end + 1 < i.start
        BY <1>1, <4>1 DEF Separated
      <4>3. QED
        BY <4>1, <4>2, <1>2, IntervalFacts
    <3>3. QED
      BY <3>1, <3>2 DEF PrevOf
  <2>3. i.start \in Nat
    BY <1>2, IntervalFacts
  <2>4. QED
    BY ONLY <1>2, <2>1, <2>2, <2>3, seq \in Nat
<1>3. PrevOf(seq) \cup NextOf(seq) \subseteq intervals
  BY DEF PrevOf, NextOf, Before, From
<1>4. QED
  BY <1>2, <1>3, IntervalFacts DEF Known, contains

\* The predecessor is merged exactly when it ends just before seq.
LEMMA PrevExact ==
    ASSUME Inv, NEW seq \in Nat, seq \notin observed
    PROVE  MergedPrev(seq) = {i \in intervals : i.end + 1 = seq}
<1>1. Separated
  BY DEF Inv
<1>2. \A i \in intervals : i.end < seq \/ seq < i.start
  BY IntervalFacts
<1>3. Before(seq) = {i \in intervals : i.end < seq}
  BY <1>2, IntervalFacts DEF Before, From
<1>4. ASSUME NEW i \in PrevOf(seq), canMergeWith(i, Single(seq))
      PROVE  i \in intervals /\ i.end + 1 = seq
  BY <1>3, <1>4, IntervalFacts DEF PrevOf, canMergeWith, Single
<1>5. ASSUME NEW i \in intervals, i.end + 1 = seq
      PROVE  i \in PrevOf(seq) /\ canMergeWith(i, Single(seq))
  <2>1. i \in Before(seq)
    BY <1>3, <1>5, IntervalFacts
  <2>2. ASSUME NEW j \in Before(seq) PROVE j.start <= i.start
    <3>1. j \in intervals /\ j.end < seq
      BY <1>3
    <3>2. i = j \/ i.end + 1 < j.start \/ j.end + 1 < i.start
      BY <1>1, <3>1 DEF Separated
    <3>3. QED
      BY <3>1, <3>2, <1>5, IntervalFacts
  <2>3. QED
    BY <2>1, <2>2, <1>5, IntervalFacts DEF PrevOf, canMergeWith, Single
<1>6. QED
  BY <1>4, <1>5 DEF MergedPrev

\* Two intervals that end, or start, in the same place are the same one.
LEMMA AtMostOne ==
    ASSUME Inv, NEW i \in intervals, NEW j \in intervals,
           i.start = j.start \/ i.end = j.end
    PROVE  i = j
<1>1. i = j \/ i.end + 1 < j.start \/ j.end + 1 < i.start
  BY DEF Inv, Separated
<1>2. QED
  BY <1>1, IntervalFacts

\* Merging with an interval that ends just before, and one that starts just
\* after, one sequence number.
LEMMA MergeIs ==
    ASSUME Inv, NEW seq \in Nat, seq \notin observed,
           NEW S, S \subseteq {i \in intervals : i.end + 1 = seq \/ i.start = seq + 1}
    PROVE  LET new == mergeWith(Single(seq), S)
           IN  /\ new = [start |-> new.start, end |-> new.end]
               /\ \/ new.start = seq /\ \A i \in S : i.end + 1 # seq
                  \/ \E i \in S : i.end + 1 = seq /\ new.start = i.start
               /\ \/ new.end = seq /\ \A i \in S : i.start # seq + 1
                  \/ \E i \in S : i.start = seq + 1 /\ new.end = i.end
<1> DEFINE Starts == {Single(seq).start} \cup {i.start : i \in S}
           Ends == {Single(seq).end} \cup {i.end : i \in S}
<1>1. Single(seq).start = seq /\ Single(seq).end = seq
  BY DEF Single
<1>2. Starts \subseteq Int /\ Ends \subseteq Int
  BY <1>1, IntervalFacts
<1>3. mergeWith(Single(seq), S) = [start |-> Least(Starts), end |-> Greatest(Ends)]
  BY DEF mergeWith
<1>4. \/ Least(Starts) = seq /\ \A i \in S : i.end + 1 # seq
      \/ \E i \in S : i.end + 1 = seq /\ Least(Starts) = i.start
  <2>1. CASE \A i \in S : i.end + 1 # seq
    <3>1. \A y \in Starts : seq <= y
      BY <2>1, <1>1, IntervalFacts
    <3>2. QED
      BY ONLY <2>1, <3>1, <1>1, <1>2, seq \in Starts, LeastIs
  <2>2. ASSUME NEW p \in S, p.end + 1 = seq PROVE Least(Starts) = p.start
    <3>1. \A i \in S : i = p \/ i.start = seq + 1
      BY <2>2, AtMostOne, IntervalFacts
    <3>2. \A y \in Starts : p.start <= y
      BY <2>2, <3>1, <1>1, IntervalFacts
    <3>3. p.start \in Starts
      OBVIOUS
    <3>4. QED
      BY ONLY <3>2, <3>3, <1>2, LeastIs
  <2>3. QED
    BY <2>1, <2>2
<1>5. \/ Greatest(Ends) = seq /\ \A i \in S : i.start # seq + 1
      \/ \E i \in S : i.start = seq + 1 /\ Greatest(Ends) = i.end
  <2>1. CASE \A i \in S : i.start # seq + 1
    <3>1. \A y \in Ends : seq >= y
      BY <2>1, <1>1, IntervalFacts
    <3>2. QED
      BY ONLY <2>1, <3>1, <1>1, <1>2, seq \in Ends, GreatestIs
  <2>2. ASSUME NEW p \in S, p.start = seq + 1 PROVE Greatest(Ends) = p.end
    <3>1. \A i \in S : i = p \/ i.end + 1 = seq
      BY <2>2, AtMostOne, IntervalFacts
    <3>2. \A y \in Ends : p.end >= y
      BY <2>2, <3>1, <1>1, IntervalFacts
    <3>3. p.end \in Ends
      OBVIOUS
    <3>4. QED
      BY ONLY <3>2, <3>3, <1>2, GreatestIs
  <2>3. QED
    BY <2>1, <2>2
<1>6. /\ mergeWith(Single(seq), S).start = Least(Starts)
      /\ mergeWith(Single(seq), S).end = Greatest(Ends)
  BY <1>3
<1> HIDE DEF Starts, Ends
<1>7. QED
  BY ONLY <1>3, <1>4, <1>5, <1>6

\* The loop merges exactly the interval that starts just after seq.
LEMMA NextExact ==
    ASSUME Inv, NEW seq \in Nat, seq \notin observed
    PROVE  MergedNext(seq) = {i \in intervals : i.start = seq + 1}
<1> DEFINE new == mergeWith(Single(seq), MergedPrev(seq))
           Upto(j) == {k \in From(seq) : k.start < j.start}
           Reached(j) == {new.end} \cup {k.end : k \in Upto(j)}
           Started(j) == {new.start} \cup {k.start : k \in Upto(j)}
<1>1. From(seq) = {i \in intervals : seq < i.start}
  BY IntervalFacts DEF From
<1>2. new.end = seq /\ new.start \in Nat /\ new.start <= seq
  <2>1. MergedPrev(seq) \subseteq {i \in intervals : i.end + 1 = seq \/ i.start = seq + 1}
    BY PrevExact
  <2>2. \A i \in MergedPrev(seq) : i \in intervals /\ i.end + 1 = seq
    BY PrevExact
  <2>3. /\ \/ new.start = seq
           \/ \E i \in MergedPrev(seq) : new.start = i.start
        /\ \/ new.end = seq
           \/ \E i \in MergedPrev(seq) : i.start = seq + 1
    BY <2>1, MergeIs
  <2> HIDE DEF new
  <2>4. QED
    BY <2>2, <2>3, IntervalFacts
<1> DEFINE Absorbs(j) == /\ Least(Started(j)) <= j.end + 1
                         /\ j.start <= Greatest(Reached(j)) + 1
<1>3. MergedNext(seq) = {i \in From(seq) : \A j \in From(seq) :
                            j.start <= i.start => Absorbs(j)}
  BY DEF MergedNext, mergeWith, canMergeWith
<1> HIDE DEF new, Absorbs
<1>4. ASSUME NEW i \in MergedNext(seq) PROVE i \in intervals /\ i.start = seq + 1
  <2>1. i \in intervals /\ seq < i.start /\ i.start \in Nat
    BY <1>1, <1>3, IntervalFacts
  <2>2. i.start <= Greatest(Reached(i)) + 1
    <3>1. Absorbs(i)
      BY <1>3, <2>1
    <3>2. QED
      BY <3>1 DEF Absorbs
  <2>3. Reached(i) \in SUBSET Nat /\ \A e \in Reached(i) : e <= seq + size
    BY <1>1, <1>2, IntervalFacts
  <2>4. Greatest(Reached(i)) \in Reached(i)
    <3>1. Reached(i) # {} /\ seq + size \in Nat
      BY IntervalFacts
    <3> HIDE DEF Reached
    <3>2. QED
      BY <2>3, <3>1, BoundedGreatest
  <2>5. \A k \in Upto(i) : k.end + 1 < i.start
    <3>1. \A k \in intervals : i = k \/ i.end + 1 < k.start \/ k.end + 1 < i.start
      BY <2>1 DEF Inv, Separated
    <3>2. QED
      BY <3>1, <2>1, <1>1, IntervalFacts
  <2>6. Greatest(Reached(i)) = seq
    BY <1>1, <1>2, <2>1, <2>2, <2>4, <2>5, IntervalFacts
  <2>7. QED
    BY <2>1, <2>2, <2>6
<1>5. ASSUME NEW i \in intervals, i.start = seq + 1 PROVE i \in MergedNext(seq)
  <2>1. i \in From(seq)
    BY <1>1, <1>5
  <2>2. ASSUME NEW j \in From(seq), j.start <= i.start
        PROVE  Absorbs(j)
    <3>1. Upto(j) = {} /\ j.start = seq + 1 /\ j.end \in Nat /\ j.start <= j.end
      BY <1>1, <1>5, <2>2, IntervalFacts
    <3>2. Started(j) = {new.start} /\ Reached(j) = {seq}
      BY <1>2, <3>1
    <3>3. Least({new.start}) = new.start
      <4>1. {new.start} \in SUBSET Int /\ \A y \in {new.start} : new.start <= y
        BY <1>2
      <4>2. QED
        BY ONLY <4>1, new.start \in {new.start}, LeastIs
    <3>4. Greatest({seq}) = seq
      <4>1. {seq} \in SUBSET Int /\ \A y \in {seq} : seq >= y
        OBVIOUS
      <4>2. QED
        BY ONLY <4>1, seq \in {seq}, GreatestIs
    <3>5. Least(Started(j)) = new.start /\ Greatest(Reached(j)) = seq
      BY ONLY <3>2, <3>3, <3>4
    <3> HIDE DEF Started, Reached
    <3>6. QED
      BY <3>1, <3>5, <1>2 DEF Absorbs
  <2>3. QED
    BY <1>3, <2>1, <2>2
<1>6. QED
  BY <1>4, <1>5

\* The interval that observe inserts: seq with the intervals it touches, apart
\* from all the others.
LEMMA Inserted ==
    ASSUME Inv, NEW seq \in Nat, seq \notin observed, seq < size
    PROVE  LET new == mergeWith(Single(seq), toErase(seq))
           IN  /\ new = [start |-> new.start, end |-> new.end]
               /\ new.start \in Nat /\ new.end \in Nat
               /\ new.start <= seq /\ seq <= new.end /\ new.end < size
               /\ \A i \in toErase(seq) : new.start <= i.start /\ i.end <= new.end
               /\ \A n \in Nat : new.start <= n /\ n <= new.end /\ n # seq
                     => \E i \in toErase(seq) : i.start <= n /\ n <= i.end
               /\ \A i \in intervals \ toErase(seq) :
                     i.end + 1 < new.start \/ new.end + 1 < i.start
<1> DEFINE new == mergeWith(Single(seq), toErase(seq))
<1>1. toErase(seq) = {i \in intervals : i.end + 1 = seq \/ i.start = seq + 1}
  BY PrevExact, NextExact DEF toErase
<1>2. /\ new = [start |-> new.start, end |-> new.end]
      /\ \/ new.start = seq /\ \A i \in toErase(seq) : i.end + 1 # seq
         \/ \E i \in toErase(seq) : i.end + 1 = seq /\ new.start = i.start
      /\ \/ new.end = seq /\ \A i \in toErase(seq) : i.start # seq + 1
         \/ \E i \in toErase(seq) : i.start = seq + 1 /\ new.end = i.end
  BY <1>1, MergeIs
<1> HIDE DEF new
<1>3. /\ new.start \in Nat /\ new.end \in Nat
      /\ new.start <= seq /\ seq <= new.end /\ new.end < size
  BY <1>1, <1>2, IntervalFacts
<1>4. ASSUME NEW i \in toErase(seq) PROVE new.start <= i.start /\ i.end <= new.end
  BY <1>1, <1>2, <1>3, AtMostOne, IntervalFacts
<1>5. ASSUME NEW n \in Nat, new.start <= n, n <= new.end, n # seq
      PROVE  \E i \in toErase(seq) : i.start <= n /\ n <= i.end
  BY <1>1, <1>2, <1>3, <1>5, IntervalFacts
<1>6. ASSUME NEW i \in intervals \ toErase(seq)
      PROVE  i.end + 1 < new.start \/ new.end + 1 < i.start
  <2>1. i \in intervals /\ (i.end + 1 < seq \/ seq + 1 < i.start)
    BY <1>1, IntervalFacts
  <2>2. \A p \in intervals : i = p \/ i.end + 1 < p.start \/ p.end + 1 < i.start
    BY <2>1 DEF Inv, Separated
  <2>3. CASE i.end + 1 < seq
    BY <2>1, <2>2, <2>3, <1>1, <1>2, <1>3, IntervalFacts
  <2>4. CASE seq + 1 < i.start
    BY <2>1, <2>2, <2>4, <1>1, <1>2, <1>3, IntervalFacts
  <2>5. QED
    BY <2>1, <2>3, <2>4
<1>7. QED
  BY <1>2, <1>3, <1>4, <1>5, <1>6 DEF new

\* Separated intervals within the session cover all of it only as one interval.
LEMMA CompleteIs ==
    ASSUME NEW S, NEW n \in Nat,
           \A i \in S : /\ i = [start |-> i.start, end |-> i.end]
                        /\ i.start \in Nat /\ i.end \in Nat
                        /\ i.start <= i.end /\ i.end < n,
           \A i, j \in S : i = j \/ i.end + 1 < j.start \/ j.end + 1 < i.start,
           n > 0
    PROVE  S = {[start |-> 0, end |-> n - 1]}
              <=> \A m \in 0 .. n - 1 : \E i \in S : i.start <= m /\ m <= i.end
<1>1. ASSUME \A m \in 0 .. n - 1 : \E i \in S : i.start <= m /\ m <= i.end
      PROVE  S = {[start |-> 0, end |-> n - 1]}
  <2>1. PICK i \in S : i.start = 0
    <3>1. 0 \in 0 .. n - 1
      OBVIOUS
    <3>2. \E i \in S : i.start <= 0 /\ 0 <= i.end
      BY <1>1, <3>1
    <3>3. QED
      BY <3>2
  <2>2. i.end = n - 1
    <3>1. SUFFICES ASSUME i.end + 1 < n PROVE FALSE
      BY <2>1
    <3>2. PICK j \in S : j.start <= i.end + 1 /\ i.end + 1 <= j.end
      BY <3>1, <1>1
    <3>3. i = j \/ i.end + 1 < j.start \/ j.end + 1 < i.start
      OBVIOUS
    <3>4. QED
      BY <2>1, <3>2, <3>3
  <2>3. \A j \in S : j = i
    <3>1. TAKE j \in S
    <3>2. i = j \/ i.end + 1 < j.start \/ j.end + 1 < i.start
      OBVIOUS
    <3>3. QED
      BY <2>1, <2>2, <3>2
  <2>4. S = {i} /\ i = [start |-> 0, end |-> n - 1]
    BY <2>1, <2>2, <2>3
  <2>5. QED
    BY <2>4
<1>2. ASSUME S = {[start |-> 0, end |-> n - 1]}, NEW m \in 0 .. n - 1
      PROVE  \E i \in S : i.start <= m /\ m <= i.end
  BY <1>2
<1>3. QED
  BY <1>1, <1>2

\* A first observation keeps the invariant.
LEMMA ObserveInv ==
    ASSUME Inv, NEW seq \in Nat, observe(seq)
    PROVE  Inv'
<1> DEFINE new == mergeWith(Single(seq), toErase(seq))
<1>1. seq \notin observed /\ seq < size
  BY KnownExact DEF observe
<1>2. /\ intervals' = (intervals \ toErase(seq)) \cup {new}
      /\ observed' = observed \cup {seq}
      /\ size' = size
      /\ observedCount' = observedCount + 1
      /\ allObserved' = (intervals' = {[start |-> 0, end |-> size - 1]})
  BY DEF observe, Complete
<1>3. /\ new = [start |-> new.start, end |-> new.end]
      /\ new.start \in Nat /\ new.end \in Nat
      /\ new.start <= seq /\ seq <= new.end /\ new.end < size
      /\ \A i \in toErase(seq) : new.start <= i.start /\ i.end <= new.end
      /\ \A n \in Nat : new.start <= n /\ n <= new.end /\ n # seq
            => \E i \in toErase(seq) : i.start <= n /\ n <= i.end
      /\ \A i \in intervals \ toErase(seq) :
            i.end + 1 < new.start \/ new.end + 1 < i.start
  BY <1>1, Inserted
<1>4. toErase(seq) \subseteq intervals
  BY DEF toErase, MergedPrev, MergedNext, PrevOf, Before, From
<1> HIDE DEF new
<1>5. /\ size \in Nat
      /\ \A i \in intervals' : /\ i = [start |-> i.start, end |-> i.end]
                               /\ i.start \in Nat /\ i.end \in Nat
                               /\ i.start <= i.end /\ i.end < size
  BY <1>2, <1>3, IntervalFacts
<1>6. Separated'
  <2>1. ASSUME NEW i \in intervals', NEW j \in intervals'
        PROVE  i = j \/ i.end + 1 < j.start \/ j.end + 1 < i.start
    <3>1. CASE i \in intervals /\ j \in intervals
      BY <3>1 DEF Inv, Separated
    <3>2. CASE i = new \/ j = new
      BY <3>2, <1>2, <1>3
    <3>3. QED
      BY <3>1, <3>2, <1>2
  <2>2. QED
    BY <2>1 DEF Separated
<1>7. ASSUME NEW n \in Nat
      PROVE  n \in observed' <=> \E i \in intervals' : i.start <= n /\ n <= i.end
  <2>1. n \in observed <=> \E i \in intervals : i.start <= n /\ n <= i.end
    BY IntervalFacts
  <2>2. ASSUME NEW i \in intervals, i.start <= n, n <= i.end
        PROVE  \E j \in intervals' : j.start <= n /\ n <= j.end
    <3>1. CASE i \in toErase(seq)
      <4>1. new.start <= n /\ n <= new.end
        BY <1>3, <2>2, <3>1, IntervalFacts
      <4>2. QED
        BY <4>1, <1>2
    <3>2. CASE i \notin toErase(seq)
      BY <2>2, <3>2, <1>2
    <3>3. QED
      BY <3>1, <3>2
  <2>3. ASSUME NEW i \in intervals', i.start <= n, n <= i.end
        PROVE  n = seq \/ \E j \in intervals : j.start <= n /\ n <= j.end
    BY <2>3, <1>2, <1>3, <1>4
  <2>4. \E j \in intervals' : j.start <= seq /\ seq <= j.end
    BY <1>2, <1>3
  <2>5. QED
    BY <2>1, <2>2, <2>3, <2>4, <1>2
<1>8. observed' \subseteq Nat /\ observed' \in SUBSET (0 .. size - 1)
  BY <1>1, <1>2, <1>5 DEF Inv, TypeOK
<1>9. TypeOK'
  <2>1. \A i \in intervals' : i \in [start : 0 .. size - 1, end : 0 .. size - 1]
    BY <1>5
  <2>2. QED
    BY <2>1, <1>2, <1>5, <1>8 DEF Inv, TypeOK
<1>10. IntervalsExact'
  <2>1. \A n : n \in Covered(intervals') => n \in Nat
    BY <1>5 DEF Covered
  <2>2. \A n \in Nat : n \in Covered(intervals')
                        <=> \E i \in intervals' : i.start <= n /\ n <= i.end
    BY <1>5 DEF Covered
  <2>3. \A n : n \in Covered(intervals') <=> n \in observed'
    BY <2>1, <2>2, <1>7, <1>8
  <2>4. Covered(intervals') = observed'
    BY ONLY <2>3
  <2>5. QED
    BY <2>4 DEF IntervalsExact, Covered
<1>11. allObserved' <=> observed' = 0 .. size - 1
  <2>1. size > 0
    BY <1>1, <1>5
  <2>2. \A i, j \in intervals' : i = j \/ i.end + 1 < j.start \/ j.end + 1 < i.start
    BY <1>6 DEF Separated
  <2>3. intervals' = {[start |-> 0, end |-> size - 1]}
           <=> \A m \in 0 .. size - 1 : \E i \in intervals' : i.start <= m /\ m <= i.end
    BY ONLY <1>5, <2>1, <2>2, CompleteIs
  <2>4. (\A m \in 0 .. size - 1 : \E i \in intervals' : i.start <= m /\ m <= i.end)
           <=> 0 .. size - 1 \subseteq observed'
    BY <1>5, <1>7
  <2>5. QED
    BY ONLY <1>2, <1>8, <2>3, <2>4
<1>12. QED
  BY <1>2, <1>6, <1>9, <1>10, <1>11 DEF Inv

\* Inv holds initially and is kept by every step.
LEMMA InvInit == Init => Inv
<1> SUFFICES ASSUME Init PROVE Inv
  OBVIOUS
<1>1. size \in Nat
  BY GapAssumption DEF Init
<1>2. (size = 0) <=> {} = 0 .. size - 1
  BY <1>1
<1>3. QED
  BY <1>2 DEF Init, Inv, TypeOK, Separated, IntervalsExact, Covered

\* Every step keeps the shape of the intervals.
LEMMA InvNext == Inv /\ [Next]_vars => Inv'
<1> SUFFICES ASSUME Inv, [Next]_vars PROVE Inv'
  OBVIOUS
<1>1. ASSUME NEW seq \in Seqs, observe(seq) PROVE Inv'
  BY <1>1, ObserveInv, GapAssumption
<1>2. ASSUME NEW seq \in Seqs, observeAgain(seq) PROVE Inv'
  <2>1. seq \in Nat
    BY GapAssumption
  <2>2. size \in Nat
    BY IntervalFacts
  <2>3. seq \in observed
    BY <1>2, <2>1, <2>2, KnownExact DEF observeAgain, Inv
  <2>4. UNCHANGED vars
    BY <1>2, <2>3 DEF observeAgain, vars
  <2>5. QED
    BY <2>4 DEF Inv, vars, TypeOK, Separated, IntervalsExact, Covered
<1>3. CASE UNCHANGED vars
  BY <1>3 DEF Inv, vars, TypeOK, Separated, IntervalsExact, Covered
<1>4. QED
  BY <1>1, <1>2, <1>3 DEF Next

-----------------------------------------------------------------------------
\* Last is the interval with the highest start.
LEMMA LastIs ==
    ASSUME Inv, NEW S \in SUBSET intervals, S # {}
    PROVE  Last(S) \in S /\ \A j \in S : j.start <= Last(S).start
<1> DEFINE T == {i.start : i \in S}
<1>1. T \in SUBSET Nat /\ T # {} /\ size \in Nat /\ \A x \in T : x <= size
  BY IntervalFacts
<1>2. Greatest(T) \in T /\ \A y \in T : Greatest(T) >= y
  <2> HIDE DEF T
  <2> QED
    BY <1>1, BoundedGreatest
<1>3. PICK i \in S : i.start = Greatest(T)
  BY <1>2
<1>4. \A j \in S : j.start <= i.start
  <2>1. \A j \in S : j.start \in T
    OBVIOUS
  <2>2. \A j \in S : Greatest(T) >= j.start
    BY <1>2, <2>1
  <2> HIDE DEF T
  <2>3. QED
    BY <1>3, <2>2, IntervalFacts
<1>5. QED
  BY ONLY <1>4, i \in S, Zenon DEF Last

\* The number at which the gap before an interval starts: everything from there
\* to the interval is missing, and every earlier interval ends before it.
LEMMA PosIs ==
    ASSUME Inv, NEW i \in intervals
    PROVE  /\ Pos(i) \in Nat
           /\ \A j \in Below(i) : j.end < Pos(i)
           /\ Below(i) = {} => Pos(i) = 0
           /\ Below(i) # {} => \E j \in Below(i) : Pos(i) = j.end + 1
<1>1. CASE Below(i) = {}
  BY <1>1 DEF Pos
<1>2. CASE Below(i) # {}
  <2> DEFINE p == Last(Below(i))
  <2>1. p \in Below(i) /\ \A j \in Below(i) : j.start <= p.start
    BY <1>2, LastIs DEF Below
  <2>2. Pos(i) = p.end + 1
    BY <1>2 DEF Pos
  <2> HIDE DEF p
  <2>3. \A j \in Below(i) : j = p \/ j.end + 1 < p.start \/ p.end + 1 < j.start
    BY <2>1 DEF Inv, Separated, Below
  <2>4. Below(i) \subseteq intervals
    BY DEF Below
  <2>5. QED
    BY <1>2, <2>1, <2>2, <2>3, <2>4, IntervalFacts
<1>3. QED
  BY <1>1, <1>2

\* The gaps between intervals, with something still missing, are exact.
LEMMA RangesInv ==
    ASSUME Inv
    PROVE  RangesExact
<1>1. CASE size = 0 \/ allObserved
  <2>1. ranges = {}
    BY <1>1 DEF ranges
  <2>2. observed = 0 .. size - 1
    <3>1. CASE size = 0
      BY <3>1 DEF Inv, TypeOK
    <3>2. QED
      BY <1>1, <3>1 DEF Inv
  <2>3. QED
    BY <2>1, <2>2 DEF RangesExact, Covered
<1>2. CASE ~(size = 0 \/ allObserved) /\ intervals = {}
  <2>1. ranges = {[start |-> 0, end |-> size - 1]}
    BY <1>2 DEF ranges
  <2>2. observed = {}
    BY <1>2 DEF Inv, IntervalsExact, Covered
  <2>3. size \in Nat /\ size # 0
    BY <1>2, IntervalFacts
  <2>4. QED
    BY <2>1, <2>2, <2>3 DEF RangesExact, Covered
<1>3. CASE ~(size = 0 \/ allObserved) /\ intervals # {}
  <2> DEFINE Gap(i) == [start |-> Pos(i), end |-> i.start - 1]
             last == Last(intervals)
             Rest == [start |-> last.end + 1, end |-> size - 1]
  <2>1. last \in intervals /\ \A j \in intervals : j.start <= last.start
    BY <1>3, LastIs
  <2>2. ranges = {Gap(i) : i \in {j \in intervals : Pos(j) < j.start}}
                   \cup {r \in {Rest} : last.end + 1 < size}
    BY <1>3 DEF ranges
  <2> HIDE DEF last
  <2>3. \A j \in intervals : j = last \/ j.end + 1 < last.start
    BY <2>1, IntervalFacts DEF Inv, Separated
  <2>4. ASSUME NEW i \in intervals, NEW n \in Nat, Pos(i) <= n, n < i.start
        PROVE  n \notin observed
    <3>1. ASSUME NEW j \in intervals, j.start <= n, n <= j.end PROVE FALSE
      <4>1. j \in Below(i)
        BY <2>4, <3>1, IntervalFacts DEF Below
      <4>2. j.end < Pos(i)
        BY <4>1, PosIs
      <4>3. QED
        BY <4>2, <3>1, <2>4, PosIs, IntervalFacts
    <3>2. QED
      BY <3>1, IntervalFacts
  <2>5. ASSUME NEW n \in Nat, last.end < n PROVE n \notin observed
    BY <2>5, <2>1, <2>3, IntervalFacts
  <2>6. ASSUME NEW n \in 0 .. size - 1, n \notin observed
        PROVE  \/ \E i \in intervals : Pos(i) <= n /\ n < i.start
               \/ last.end < n
    <3>1. CASE \A i \in intervals : i.start <= n
      BY <3>1, <2>1, <2>6, IntervalFacts
    <3>2. CASE \E i \in intervals : n < i.start
      <4> DEFINE T == {i.start : i \in {j \in intervals : n < j.start}}
      <4>1. T \in SUBSET Nat /\ T # {}
        BY <3>2, IntervalFacts
      <4>2. PICK m \in T : \A y \in T : m <= y
        <5> HIDE DEF T
        <5> QED
          BY <4>1, NatLeast
      <4>3. PICK i \in intervals : n < i.start /\ i.start = m
        BY <4>2
      <4>4. \A j \in intervals : n < j.start => i.start <= j.start
        BY <4>2, <4>3
      <4>5. \A j \in Below(i) : j \in intervals /\ j.start <= n
        BY <4>4, IntervalFacts DEF Below
      <4>6. \A j \in Below(i) : j.end < n
        BY <4>5, <2>6, IntervalFacts
      <4>7. Pos(i) <= n
        BY <4>5, <4>6, PosIs, IntervalFacts
      <4>8. QED
        BY <4>3, <4>7
    <3>3. QED
      BY <3>1, <3>2, IntervalFacts
  <2>7. Covered(ranges) = (0 .. size - 1) \ observed
    <3> DEFINE Missing(n) == \/ \E i \in intervals : Pos(i) <= n /\ n < i.start
                             \/ last.end < n
    <3>1. ASSUME NEW n \in Covered(ranges) PROVE n \in 0 .. size - 1 /\ Missing(n)
      <4>1. PICK r \in ranges : n \in r.start .. r.end
        BY <3>1 DEF Covered
      <4>2. CASE r = Rest
        BY <4>1, <4>2, <2>1, IntervalFacts
      <4>3. ASSUME NEW i \in intervals, r = Gap(i) PROVE n \in 0 .. size - 1 /\ Missing(n)
        <5>1. r.start = Pos(i) /\ r.end = i.start - 1
          BY <4>3
        <5>2. QED
          BY <5>1, <4>1, PosIs, IntervalFacts
      <4>4. QED
        BY <4>2, <4>3, <2>2
    <3>2. ASSUME NEW n \in 0 .. size - 1, Missing(n) PROVE n \in Covered(ranges)
      <4>1. CASE last.end < n
        <5>1. Rest \in ranges /\ n \in Rest.start .. Rest.end
          BY <4>1, <2>1, <2>2, IntervalFacts
        <5>2. QED
          BY ONLY <5>1 DEF Covered
      <4>2. ASSUME NEW i \in intervals, Pos(i) <= n, n < i.start
            PROVE  n \in Covered(ranges)
        <5>1. Pos(i) < i.start
          BY <4>2, PosIs, IntervalFacts
        <5>2. Gap(i) \in ranges
          BY <5>1, <2>2
        <5>3. n \in Gap(i).start .. Gap(i).end
          BY <4>2, PosIs, IntervalFacts
        <5>4. QED
          BY ONLY <5>2, <5>3 DEF Covered
      <4>3. QED
        BY <3>2, <4>1, <4>2
    <3>3. \A n \in 0 .. size - 1 : Missing(n) <=> n \notin observed
      BY <2>4, <2>5, <2>6
    <3> HIDE DEF Missing
    <3>4. QED
      BY <3>1, <3>2, <3>3
  <2>8. \A r \in ranges : r.start <= r.end
    BY <2>1, <2>2, PosIs, IntervalFacts
  <2>9. ASSUME NEW r \in ranges, NEW q \in ranges
        PROVE  r = q \/ r.end + 1 < q.start \/ q.end + 1 < r.start
    <3>1. ASSUME NEW i \in intervals, NEW j \in intervals, i.start < j.start
          PROVE  Gap(i).end + 1 < Gap(j).start
      <4>1. i.end < Pos(j)
        BY <3>1, PosIs DEF Below
      <4>2. QED
        BY <4>1, PosIs, IntervalFacts
    <3>2. ASSUME NEW i \in intervals PROVE Gap(i).end + 1 < Rest.start
      BY <2>1, IntervalFacts
    <3>3. CASE r # Rest /\ q # Rest
      <4>1. PICK i \in intervals : r = Gap(i)
        BY <2>2, <3>3
      <4>2. PICK j \in intervals : q = Gap(j)
        BY <2>2, <3>3
      <4>3. i = j \/ i.start < j.start \/ j.start < i.start
        BY AtMostOne, IntervalFacts
      <4> HIDE DEF Gap
      <4>4. QED
        BY <3>1, <4>1, <4>2, <4>3
    <3>4. CASE r = Rest \/ q = Rest
      <4>1. \A x \in ranges : x = Rest \/ \E i \in intervals : x = Gap(i)
        BY <2>2
      <4> HIDE DEF Gap, Rest
      <4>2. QED
        BY <3>2, <3>4, <4>1
    <3>5. QED
      BY <3>3, <3>4
  <2>10. QED
    BY <2>7, <2>8, <2>9 DEF RangesExact
<1>4. QED
  BY <1>1, <1>2, <1>3

\* The count of distinct sequence numbers.
Counted == observedCount = Cardinality(observed)

\* Every step keeps the count of the sequence numbers observed.
LEMMA CountedNext == Inv /\ Counted /\ [Next]_vars => Counted'
<1> SUFFICES ASSUME Inv, Counted, [Next]_vars PROVE Counted'
  OBVIOUS
<1>1. IsFiniteSet(observed)
  <2>1. size - 1 \in Int /\ observed \in SUBSET (0 .. size - 1)
    BY IntervalFacts DEF Inv, TypeOK
  <2>2. IsFiniteSet(0 .. size - 1)
    BY <2>1, FS_Interval
  <2>3. QED
    BY <2>1, <2>2, FS_Subset
<1>2. ASSUME NEW seq \in Seqs, observe(seq) PROVE Counted'
  <2>1. seq \in Nat
    BY GapAssumption
  <2>2. seq \notin observed
    BY <1>2, <2>1, KnownExact DEF observe
  <2>3. Cardinality(observed \cup {seq}) = Cardinality(observed) + 1
    BY <1>1, <2>2, FS_AddElement
  <2>4. QED
    BY <1>2, <2>3 DEF observe, Counted
<1>3. ASSUME NEW seq \in Seqs, observeAgain(seq) PROVE Counted'
  <2>1. seq \in Nat /\ size \in Nat
    BY GapAssumption, IntervalFacts
  <2>2. seq \in observed
    BY <1>3, <2>1, KnownExact DEF observeAgain, Inv
  <2>3. observed' = observed /\ observedCount' = observedCount
    BY <1>3, <2>2 DEF observeAgain
  <2>4. QED
    BY <2>3 DEF Counted
<1>4. CASE UNCHANGED vars
  BY <1>4 DEF vars, Counted
<1>5. QED
  BY <1>2, <1>3, <1>4 DEF Next

\* In every reachable state of GapSet the invariant and the count hold.
THEOREM Invariant == Spec => [](Inv /\ Counted)
<1>1. Init => Inv /\ Counted
  BY InvInit, FS_EmptySet DEF Init, Counted
<1>2. Inv /\ Counted /\ [Next]_vars => Inv' /\ Counted'
  BY InvNext, CountedNext
<1>3. QED
  BY <1>1, <1>2, PTL DEF Spec

\* The state of GapSet keeps its types: no interval leaves the session's range.
THEOREM TypeCorrect == Spec => []TypeOK
<1>1. Inv => TypeOK
  BY DEF Inv
<1>2. QED
  BY <1>1, Invariant, PTL

\* The intervals are apart and hold exactly what arrived, for every size and
\* every order and repetition of sequence numbers (observe).
THEOREM IntervalsHold == Spec => [](Separated /\ IntervalsExact)
<1>1. Inv => Separated /\ IntervalsExact
  BY DEF Inv
<1>2. QED
  BY <1>1, Invariant, PTL

\* A session counts as complete exactly when everything arrived (empty).
THEOREM CompleteHolds == Spec => []CompleteExact
<1>1. Inv /\ Counted => CompleteExact
  <2> SUFFICES ASSUME Inv, Counted PROVE CompleteExact
    OBVIOUS
  <2>1. size = 0 => observed = 0 .. size - 1
    BY DEF Inv, TypeOK
  <2>2. QED
    BY <2>1 DEF Inv, Counted, CompleteExact, empty
<1>2. QED
  BY <1>1, Invariant, PTL

\* contains answers for exactly what arrived.
THEOREM ContainsHolds == Spec => []ContainsExact
<1>1. Inv => ContainsExact
  <2> SUFFICES ASSUME Inv, NEW seq \in Seqs
               PROVE  containsSeq(seq) <=> seq \in observed
    BY DEF ContainsExact
  <2>1. seq \in Nat /\ size \in Nat /\ observed \subseteq 0 .. size - 1
    BY GapAssumption, IntervalFacts DEF Inv, TypeOK
  <2>2. Known(seq) <=> seq \in observed
    BY <2>1, KnownExact
  <2>3. QED
    BY <2>1, <2>2 DEF containsSeq, Inv
<1>2. QED
  BY <1>1, Invariant, PTL

\* The ranges asked for again are exactly what is missing (ranges).
THEOREM RangesHold == Spec => []RangesExact
<1>1. Inv => RangesExact
  BY RangesInv
<1>2. QED
  BY <1>1, Invariant, PTL

=============================================================================
