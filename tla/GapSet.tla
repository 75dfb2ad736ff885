------------------------------- MODULE GapSet -------------------------------
(***************************************************************************)
(* The manager's record of which sequence numbers of a session arrived     *)
(* (src/src/wazuh_modules/inventory_sync/src/gapSet.hpp): closed intervals *)
(* in a std::set ordered by start, merged when they touch, with a cached   *)
(* flag for "everything arrived".                                          *)
(*                                                                         *)
(* observed is a history variable: the sequence numbers in range that were *)
(* given to observe.  A number out of range throws before anything changes *)
(* and is no step; m_lastUpdate is modelled where it is read, in the       *)
(* session's liveness check.                                               *)
(***************************************************************************)
EXTENDS Integers, FiniteSets

CONSTANTS
    Sizes,  \* the sizes a session may announce
    Seqs    \* the sequence numbers a Data message may carry

ASSUME GapAssumption == Sizes \subseteq Nat /\ Seqs \subseteq Nat

VARIABLES size, intervals, allObserved, observedCount, observed

vars == <<size, intervals, allObserved, observedCount, observed>>

Interval == [start : Nat, end : Nat]

contains(i, seq) == seq >= i.start /\ seq <= i.end

canMergeWith(i, j) == i.start <= j.end + 1 /\ j.start <= i.end + 1

Least(S) == CHOOSE x \in S : \A y \in S : x <= y

Greatest(S) == CHOOSE x \in S : \A y \in S : x >= y

\* Faulty: the end of the merged interval is taken from the first.
mergeWithShort(i, S) ==
    [start |-> Least({i.start} \cup {j.start : j \in S}), end |-> i.end]

\* Merging an interval with several others, one after the other.
mergeWith(i, S) ==
    [start |-> Least({i.start} \cup {j.start : j \in S}),
     end   |-> Greatest({i.end} \cup {j.end : j \in S})]

-----------------------------------------------------------------------------
(* observe *)

\* The intervals from lower_bound(Interval(seq, seq)) on, and those before it.
From(seq) == {i \in intervals : i.start > seq \/ (i.start = seq /\ i.end >= seq)}

Before(seq) == intervals \ From(seq)

\* std::prev(it) and *it, as sets of at most one interval.
PrevOf(seq) == {i \in Before(seq) : \A j \in Before(seq) : j.start <= i.start}

NextOf(seq) == {i \in From(seq) : \A j \in From(seq) : i.start <= j.start}

Known(seq) == \E i \in PrevOf(seq) \cup NextOf(seq) : contains(i, seq)

Single(seq) == [start |-> seq, end |-> seq]

MergedPrev(seq) == {i \in PrevOf(seq) : canMergeWith(i, Single(seq))}

\* The while loop over the following intervals: i is absorbed iff each one up to
\* i can be merged with what was merged before it.
MergedNext(seq) ==
    LET new == mergeWith(Single(seq), MergedPrev(seq))
        Upto(j) == {k \in From(seq) : k.start < j.start}
    IN  {i \in From(seq) : \A j \in From(seq) :
            j.start <= i.start => canMergeWith(mergeWith(new, Upto(j)), j)}

toErase(seq) == MergedPrev(seq) \cup MergedNext(seq)

\* Faulty: the end is not compared.
CompleteFromZero(S) == \E e \in 0 .. size - 1 : S = {[start |-> 0, end |-> e]}

\* One interval from 0 to m_size - 1.
Complete(S) == S = {[start |-> 0, end |-> size - 1]}

Init ==
    /\ size \in Sizes
    /\ intervals = {}
    /\ allObserved = (size = 0)
    /\ observedCount = 0
    /\ observed = {}

\* Faulty: the range check lets m_size through.
observeAtSize(seq) ==
    /\ seq <= size
    /\ ~allObserved
    /\ ~Known(seq)
    /\ observedCount' = observedCount + 1
    /\ intervals' = (intervals \ toErase(seq))
                      \cup {mergeWith(Single(seq), toErase(seq))}
    /\ allObserved' = Complete(intervals')
    /\ observed' = observed \cup {seq}
    /\ UNCHANGED size

\* A sequence number out of range throws; one already known changes nothing, and
\* neither does any once everything arrived.
observe(seq) ==
    /\ seq < size
    /\ ~allObserved
    /\ ~Known(seq)
    /\ observedCount' = observedCount + 1
    /\ intervals' = (intervals \ toErase(seq))
                      \cup {mergeWith(Single(seq), toErase(seq))}
    /\ allObserved' = Complete(intervals')
    /\ observed' = observed \cup {seq}
    /\ UNCHANGED size

observeAgain(seq) ==
    /\ seq < size
    /\ allObserved \/ Known(seq)
    /\ observed' = observed \cup {seq}
    /\ UNCHANGED <<size, intervals, allObserved, observedCount>>

Next == \E seq \in Seqs : observe(seq) \/ observeAgain(seq)

Spec == Init /\ [][Next]_vars

-----------------------------------------------------------------------------
(* Queries *)

empty == size = 0 \/ allObserved

containsSeq(seq) == seq < size /\ (allObserved \/ Known(seq))

\* ranges(): pos is one past the end of the interval before i, if there is one.
Below(i) == {j \in intervals : j.start < i.start}

Last(S) == CHOOSE i \in S : \A j \in S : j.start <= i.start

\* Faulty: the end of the previous interval counts as missing.
PosAtEnd(i) == IF Below(i) = {} THEN 0 ELSE Last(Below(i)).end

Pos(i) == IF Below(i) = {} THEN 0 ELSE Last(Below(i)).end + 1

\* The vector of pairs is ascending, so it is given as the set of its members.
ranges ==
    IF size = 0 \/ allObserved THEN {}
    ELSE IF intervals = {} THEN {[start |-> 0, end |-> size - 1]}
    ELSE {[start |-> Pos(i), end |-> i.start - 1] :
              i \in {j \in intervals : Pos(j) < j.start}}
         \cup {[start |-> i.end + 1, end |-> size - 1] :
              i \in {j \in {Last(intervals)} : j.end + 1 < size}}

-----------------------------------------------------------------------------
Covered(S) == UNION {i.start .. i.end : i \in S}

TypeOK ==
    /\ size \in Sizes
    /\ intervals \in SUBSET {i \in [start : 0 .. size - 1, end : 0 .. size - 1] :
                                i.start <= i.end}
    /\ allObserved \in BOOLEAN
    /\ observedCount \in Nat
    /\ observed \in SUBSET (0 .. size - 1)

\* No two intervals touch, whatever the order the messages arrived in: the loop of
\* observe merges every interval a new sequence number connects, so lower_bound
\* and its predecessor are the only candidates a lookup has to try.
Separated ==
    \A i, j \in intervals : i = j \/ i.end + 1 < j.start \/ j.end + 1 < i.start

\* The intervals hold exactly what arrived: merging neither loses a sequence
\* number nor claims one that never came (observe and its early returns).
IntervalsExact == Covered(intervals) = observed

\* The session is complete exactly when every sequence number arrived, and the
\* count is of distinct ones (m_allObserved and m_observedCount are maintained
\* incrementally by observe).
CompleteExact ==
    /\ empty <=> observed = 0 .. size - 1
    /\ observedCount = Cardinality(observed)

\* contains answers for what arrived, by looking at two intervals only.
ContainsExact == \A seq \in Seqs : containsSeq(seq) <=> seq \in observed

\* What the manager asks to be sent again is exactly what is missing, each run of
\* missing numbers as one range (ranges, the input of the agent's
\* filterDataByRanges).
RangesExact ==
    /\ Covered(ranges) = (0 .. size - 1) \ observed
    /\ \A r \in ranges : r.start <= r.end
    /\ \A r, q \in ranges : r = q \/ r.end + 1 < q.start \/ q.end + 1 < r.start

=============================================================================
