------------------------- MODULE TunnelServerProofs -------------------------
(***************************************************************************)
(* The order of the filters and the verdicts it gives, the streams of the  *)
(* server, and the table of clients under the server's own removals, for   *)
(* any number of ids, streams, filters and changes.                        *)
(***************************************************************************)
EXTENDS TunnelServer, ClientManagerProofs, SequenceLemmas

-----------------------------------------------------------------------------
(* The sort of the filters *)

\* The filters that stand before the filter i once the cache is sorted, and itself
UpTo(cache, i) == {j \in 1..Len(cache) :
    \/ cache[j].priority > cache[i].priority
    \/ cache[j].priority = cache[i].priority /\ j <= i}

\* a goes before b
Precedes(cache, a, b) ==
    \/ cache[a].priority > cache[b].priority
    \/ cache[a].priority = cache[b].priority /\ a < b

LEMMA PriorityIsNat ==
    ASSUME NEW cache \in Seq(Rule), NEW i \in 1..Len(cache)
    PROVE  cache[i] \in Rule /\ cache[i].priority \in Nat /\ i \in Nat
<1>1. cache[i] \in Rule
  BY ElementOfSeq
<1> QED BY <1>1 DEF Rule

\* Places are between 1 and the number of filters, and follow the order
LEMMA PlaceFollowsOrder ==
    ASSUME NEW cache \in Seq(Rule)
    PROVE  /\ \A i \in 1..Len(cache) : Place(cache, i) \in 1..Len(cache)
           /\ \A a, b \in 1..Len(cache) :
                  Precedes(cache, a, b) => Place(cache, a) < Place(cache, b)
<1>0. Len(cache) \in Nat
  BY LenProperties
<1>1. IsFiniteSet(1..Len(cache)) /\ Cardinality(1..Len(cache)) = Len(cache)
  BY <1>0, FS_Interval
<1>2. \A i \in 1..Len(cache) :
          /\ UpTo(cache, i) \in SUBSET (1..Len(cache))
          /\ IsFiniteSet(UpTo(cache, i))
          /\ Place(cache, i) = Cardinality(UpTo(cache, i))
          /\ Place(cache, i) \in Nat
          /\ Place(cache, i) <= Len(cache)
  <2> SUFFICES ASSUME NEW i \in 1..Len(cache)
               PROVE  /\ UpTo(cache, i) \in SUBSET (1..Len(cache))
                      /\ IsFiniteSet(UpTo(cache, i))
                      /\ Place(cache, i) = Cardinality(UpTo(cache, i))
                      /\ Place(cache, i) \in Nat
                      /\ Place(cache, i) <= Len(cache)
    OBVIOUS
  <2>1. UpTo(cache, i) \in SUBSET (1..Len(cache)) /\ Place(cache, i) = Cardinality(UpTo(cache, i))
    BY DEF UpTo, Place
  <2> QED BY <2>1, <1>1, FS_Subset, FS_CardinalityType
<1>3. ASSUME NEW i \in 1..Len(cache) PROVE Place(cache, i) \in 1..Len(cache)
  <2>1. i \in UpTo(cache, i)
    BY PriorityIsNat DEF UpTo
  <2>2. Place(cache, i) # 0
    BY <2>1, <1>2, FS_EmptySet
  <2> QED BY <2>2, <1>0, <1>2
<1>4. ASSUME NEW a \in 1..Len(cache), NEW b \in 1..Len(cache), Precedes(cache, a, b)
      PROVE  Place(cache, a) < Place(cache, b)
  <2>1. cache[a].priority \in Nat /\ cache[b].priority \in Nat /\ a \in Nat /\ b \in Nat
    BY PriorityIsNat
  <2>2. UpTo(cache, a) \subseteq UpTo(cache, b)
    <3> SUFFICES ASSUME NEW j \in UpTo(cache, a) PROVE j \in UpTo(cache, b)
      OBVIOUS
    <3>1. j \in 1..Len(cache) /\ cache[j].priority \in Nat /\ j \in Nat
      BY PriorityIsNat DEF UpTo
    <3> QED BY <1>4, <2>1, <3>1 DEF UpTo, Precedes
  <2>3. b \in UpTo(cache, b) /\ b \notin UpTo(cache, a)
    BY <1>4, <2>1 DEF UpTo, Precedes
  <2>4. Cardinality(UpTo(cache, a)) <= Cardinality(UpTo(cache, b))
        /\ Cardinality(UpTo(cache, a)) # Cardinality(UpTo(cache, b))
    BY <1>2, <2>2, <2>3, FS_Subset
  <2> QED BY <1>2, <2>4
<1> QED BY <1>3, <1>4

\* One filter to a place, and a filter to each
LEMMA PlacesAreFilled ==
    ASSUME NEW cache \in Seq(Rule)
    PROVE  /\ \A a, b \in 1..Len(cache) : Place(cache, a) = Place(cache, b) => a = b
           /\ \A k \in 1..Len(cache) : \E i \in 1..Len(cache) : Place(cache, i) = k
<1> DEFINE S == 1..Len(cache)
           f == [i \in S |-> Place(cache, i)]
<1>0. Len(cache) \in Nat
  BY LenProperties
<1>1. ASSUME NEW a \in S, NEW b \in S, a # b PROVE Place(cache, a) # Place(cache, b)
  <2>1. cache[a].priority \in Nat /\ cache[b].priority \in Nat /\ a \in Nat /\ b \in Nat
    BY PriorityIsNat
  <2>2. Precedes(cache, a, b) \/ Precedes(cache, b, a)
    BY <1>1, <2>1 DEF Precedes
  <2>3. Place(cache, a) < Place(cache, b) \/ Place(cache, b) < Place(cache, a)
    BY <2>2, PlaceFollowsOrder
  <2>4. Place(cache, a) \in Nat /\ Place(cache, b) \in Nat
    BY PlaceFollowsOrder
  <2> QED BY <2>3, <2>4
<1>2. f \in [S -> S] /\ \A a, b \in S : f[a] = f[b] => a = b
  BY <1>1, PlaceFollowsOrder
<1>3. IsFiniteSet(S) /\ Cardinality(S) = Len(cache)
  BY <1>0, FS_Interval
<1> DEFINE T == {f[i] : i \in S}
<1>4. T \in SUBSET S /\ ExistsBijection(S, T)
  <2> HIDE DEF f, S
  <2>1. f \in [S -> T] /\ DOMAIN f = S /\ T \in SUBSET S
    BY <1>2
  <2>2. f \in Bijection(S, T)
    BY <1>2, <2>1 DEF Bijection, Injection, Surjection, IsInjective
  <2> QED BY <2>1, <2>2 DEF ExistsBijection
<1>5. Cardinality(T) = Cardinality(S)
  BY <1>3, <1>4, FS_Bijection
<1>6. T = S
  <2> HIDE DEF S, T
  <2> QED BY <1>3, <1>4, <1>5, FS_Subset
<1> QED BY <1>1, <1>6

\* _sortCache loses no filter and makes up none: it moves each to one place, the
\* higher priority first, those of the same priority in the order they had
THEOREM SortIsStable ==
    ASSUME NEW cache \in Seq(Rule)
    PROVE  /\ _sortCache(cache) \in Seq(Rule)
           /\ Len(_sortCache(cache)) = Len(cache)
           /\ \E p \in Bijection(1..Len(cache), 1..Len(cache)) :
                 /\ \A k \in 1..Len(cache) : _sortCache(cache)[k] = cache[p[k]]
                 /\ \A k, l \in 1..Len(cache) : k < l => Precedes(cache, p[k], p[l])
<1> DEFINE S == 1..Len(cache)
           p == [k \in S |-> CHOOSE i \in S : Place(cache, i) = k]
<1>0. Len(cache) \in Nat
  BY LenProperties
<1>1. \A k \in S : p[k] \in S /\ Place(cache, p[k]) = k
  BY PlacesAreFilled
<1>2. \A i \in S : Place(cache, i) \in S /\ p[Place(cache, i)] = i
  <2> SUFFICES ASSUME NEW i \in S PROVE Place(cache, i) \in S /\ p[Place(cache, i)] = i
    OBVIOUS
  <2>1. Place(cache, i) \in S
    BY PlaceFollowsOrder
  <2> HIDE DEF p
  <2>2. p[Place(cache, i)] \in S /\ Place(cache, p[Place(cache, i)]) = Place(cache, i)
    BY <2>1, <1>1
  <2> QED BY <2>1, <2>2, PlacesAreFilled
<1>3. p \in Bijection(S, S)
  <2>1. p \in [S -> S]
    BY <1>1
  <2>2. \A k, l \in S : p[k] = p[l] => k = l
    <3> HIDE DEF p
    <3> QED BY <1>1
  <2>3. \A i \in S : \E k \in S : p[k] = i
    BY <1>2
  <2> HIDE DEF p, S
  <2>4. DOMAIN p = S
    BY <2>1
  <2> QED BY <2>1, <2>2, <2>3, <2>4 DEF Bijection, Injection, Surjection, IsInjective
<1>4. \A k \in S : cache[p[k]] \in Rule /\ _sortCache(cache)[k] = cache[p[k]]
  BY <1>1, ElementOfSeq DEF _sortCache
<1>5. _sortCache(cache) = [k \in S |-> cache[p[k]]]
  BY DEF _sortCache
<1>6. _sortCache(cache) \in [S -> Rule]
  BY <1>4, <1>5
<1>7. _sortCache(cache) \in Seq(Rule) /\ Len(_sortCache(cache)) = Len(cache)
  BY <1>0, <1>6, SeqDef
<1>8. ASSUME NEW k \in S, NEW l \in S, k < l PROVE Precedes(cache, p[k], p[l])
  <2> DEFINE a == p[k]
             b == p[l]
  <2>1. a \in S /\ b \in S /\ Place(cache, a) = k /\ Place(cache, b) = l
    BY <1>1
  <2> HIDE DEF a, b, p
  <2>2. cache[a].priority \in Nat /\ cache[b].priority \in Nat /\ a \in Nat /\ b \in Nat
    BY <2>1, PriorityIsNat
  <2>3. a # b /\ ~Precedes(cache, b, a)
    BY <1>8, <2>1, <1>0, PlaceFollowsOrder
  <2> QED BY <2>2, <2>3 DEF Precedes, a, b
<1> HIDE DEF p
<1> QED BY <1>3, <1>4, <1>7, <1>8
-----------------------------------------------------------------------------
(* The inductive invariant *)

\* A filter is never before one of a higher priority
Sorted(cache) ==
    \A i, j \in 1..Len(cache) : i < j => cache[i].priority >= cache[j].priority

\* A re-evaluation is due for a change that was made
FiltersInv ==
    /\ filters \in Seq(Rule) /\ Sorted(filters)
    /\ changes \in 0..MaxChanges
    /\ due <= changes

\* A stream was told nothing of an id it does not watch
ToldIsWatched ==
    \A w \in Watcher, id \in Id : id \notin ids[w] => lastAuthState[w][id] = "none"

StreamsTypeOK ==
    /\ due \in Nat /\ missed \in BOOLEAN
    /\ ids \in [Watcher -> SUBSET Id]
    /\ pendingTunnels \in [Id -> SUBSET Watcher]
    /\ lastAuthState \in [Watcher -> [Id -> Verdicts]]

StreamsInv ==
    /\ StreamsTypeOK
    /\ PendingIsWatched
    /\ ToldIsWatched
    /\ WatchersAreCurrent

SInv == MInv /\ StreamsInv /\ FiltersInv

LEMMA VerdictType == ASSUME NEW id PROVE Verdict(id) \in {"allowed", "denied"}
BY DEF Verdict

\* A verdict only changes with the filters
LEMMA SameVerdict ==
    ASSUME UNCHANGED filters
    PROVE  \A id : Verdict(id)' = Verdict(id)
BY DEF Verdict, isIdAuthorized, Matching

\* What the changes of filters make of a sorted cache
LEMMA SortIsSorted ==
    ASSUME NEW cache \in Seq(Rule)
    PROVE  _sortCache(cache) \in Seq(Rule) /\ Sorted(_sortCache(cache))
<1>1. PICK p \in Bijection(1..Len(cache), 1..Len(cache)) :
          /\ \A k \in 1..Len(cache) : _sortCache(cache)[k] = cache[p[k]]
          /\ \A k, l \in 1..Len(cache) : k < l => Precedes(cache, p[k], p[l])
  BY SortIsStable
<1>2. \A k \in 1..Len(cache) : p[k] \in 1..Len(cache)
  BY DEF Bijection, Injection
<1>3. ASSUME NEW k \in 1..Len(cache), NEW l \in 1..Len(cache), k < l
      PROVE  _sortCache(cache)[k].priority >= _sortCache(cache)[l].priority
  <2>1. cache[p[k]].priority \in Nat /\ cache[p[l]].priority \in Nat
    BY <1>2, PriorityIsNat
  <2> QED BY <1>1, <1>3, <2>1 DEF Precedes
<1> QED BY <1>3, SortIsStable DEF Sorted

LEMMA RemoveKeepsSorted ==
    ASSUME NEW cache \in Seq(Rule), Sorted(cache), NEW i \in 1..Len(cache)
    PROVE  RemoveAt(cache, i) \in Seq(Rule) /\ Sorted(RemoveAt(cache, i))
<1>0. Len(cache) \in Nat
  BY LenProperties
<1>1. /\ RemoveAt(cache, i) \in Seq(Rule)
      /\ Len(RemoveAt(cache, i)) = Len(cache) - 1
      /\ \A j \in 1..(Len(cache) - 1) :
             RemoveAt(cache, i)[j] = IF j < i THEN cache[j] ELSE cache[j + 1]
  BY RemoveAtFacts
<1>2. ASSUME NEW k \in 1..(Len(cache) - 1), NEW l \in 1..(Len(cache) - 1), k < l
      PROVE  RemoveAt(cache, i)[k].priority >= RemoveAt(cache, i)[l].priority
  <2> DEFINE a == IF k < i THEN k ELSE k + 1
             b == IF l < i THEN l ELSE l + 1
  <2>1. a \in 1..Len(cache) /\ b \in 1..Len(cache) /\ a < b
    BY <1>0, <1>2
  <2>2. RemoveAt(cache, i)[k] = cache[a] /\ RemoveAt(cache, i)[l] = cache[b]
    BY <1>1
  <2> QED BY <2>1, <2>2 DEF Sorted
<1> QED BY <1>1, <1>2 DEF Sorted

LEMMA FlipKeepsSorted ==
    ASSUME NEW cache \in Seq(Rule), Sorted(cache), NEW i \in 1..Len(cache)
    PROVE  /\ [cache EXCEPT ![i].authorized = FALSE] \in Seq(Rule)
           /\ Sorted([cache EXCEPT ![i].authorized = FALSE])
<1> DEFINE rule == [cache[i] EXCEPT !.authorized = FALSE]
           flipped == [cache EXCEPT ![i] = rule]
<1>1. cache[i] \in Rule
  BY ElementOfSeq
<1>2. rule \in Rule /\ rule.priority = cache[i].priority
  BY <1>1 DEF Rule
<1>3. flipped = [cache EXCEPT ![i].authorized = FALSE]
  OBVIOUS
<1> HIDE DEF rule
<1>4. /\ flipped \in Seq(Rule) /\ Len(flipped) = Len(cache)
      /\ \A j \in 1..Len(cache) : flipped[j] = IF j = i THEN rule ELSE cache[j]
  BY <1>2, ExceptSeq
<1> HIDE DEF flipped
<1>5. Sorted(flipped)
  BY <1>2, <1>4 DEF Sorted
<1> QED BY <1>3, <1>4, <1>5

LEMMA InitSInv == ServerInit => SInv
<1> SUFFICES ASSUME ServerInit PROVE SInv
  OBVIOUS
<1> USE DEF ServerInit
<1>1. StreamsTypeOK
  BY DEF StreamsTypeOK, Nothing, Verdicts
<1>2. PendingIsWatched /\ ToldIsWatched /\ WatchersAreCurrent
  BY DEF PendingIsWatched, ToldIsWatched, WatchersAreCurrent, EveryoneKnows, Nothing
<1>3. FiltersInv
  BY SortIsSorted, FilterAssumption, FilterBoundsAssumption DEF FiltersInv
<1> QED BY <1>1, <1>2, <1>3, InitMInv DEF SInv, StreamsInv

-----------------------------------------------------------------------------
(* The steps *)

\* A step of the manager: the streams notice nothing
LEMMA StreamsUntouched ==
    ASSUME StreamsInv, UNCHANGED serverVars
    PROVE  StreamsInv'
<1> USE DEF StreamsInv, serverVars
<1>1. StreamsTypeOK' /\ PendingIsWatched' /\ ToldIsWatched'
  BY DEF StreamsTypeOK, PendingIsWatched, ToldIsWatched
<1>2. EveryoneKnows' <=> EveryoneKnows
  BY SameVerdict DEF EveryoneKnows
<1> QED BY <1>1, <1>2 DEF WatchersAreCurrent

\* A change of the filters, in the cache: a re-evaluation is due, or was lost with
\* the request
LEMMA ChangeKeepsStreams ==
    ASSUME StreamsInv, NEW cache, ChangeFilters(cache), Answered
    PROVE  StreamsInv'
<1> USE DEF StreamsInv, ChangeFilters
<1>1. /\ due' \in Nat /\ missed' \in BOOLEAN
      /\ ~(due' = 0 /\ ~missed')
  <2>1. CASE due' = due + 1 /\ UNCHANGED missed
    BY <2>1 DEF StreamsTypeOK
  <2>2. CASE missed' = TRUE /\ UNCHANGED due
    BY <2>2 DEF StreamsTypeOK
  <2> QED BY <2>1, <2>2 DEF Answered
<1>2. StreamsTypeOK' /\ PendingIsWatched' /\ ToldIsWatched'
  BY <1>1 DEF StreamsTypeOK, PendingIsWatched, ToldIsWatched
<1> QED BY <1>1, <1>2 DEF WatchersAreCurrent

\* The order survives every change; one re-evaluation at most is due for it
LEMMA ChangeKeepsFilters ==
    ASSUME FiltersInv, StreamsTypeOK,
           NEW cache \in Seq(Rule), Sorted(cache), ChangeFilters(cache),
           Answered
    PROVE  FiltersInv'
<1>1. filters' = cache /\ changes' = changes + 1 /\ changes < MaxChanges
  BY DEF ChangeFilters
<1>2. due' = due + 1 \/ due' = due
  BY DEF Answered
<1>3. changes \in Nat /\ due \in Nat /\ due <= changes /\ MaxChanges \in Nat
  BY FilterBoundsAssumption DEF FiltersInv, StreamsTypeOK
<1>4. changes' \in 0..MaxChanges /\ due' <= changes'
  BY <1>1, <1>2, <1>3
<1> QED BY <1>1, <1>4 DEF FiltersInv

\* What is not a change leaves the filters alone and brings no re-evaluation
LEMMA FiltersUntouched ==
    ASSUME FiltersInv, StreamsTypeOK, UNCHANGED <<filters, changes>>, due' = due \/ due' = due - 1
    PROVE  FiltersInv'
BY FilterBoundsAssumption DEF FiltersInv, StreamsTypeOK

LEMMA ReEvaluationKeepsStreams ==
    ASSUME StreamsInv, reEvaluateAllPending
    PROVE  StreamsInv' /\ EveryoneKnows'
<1> USE DEF StreamsInv
<1>0. due' \in Nat /\ missed' \in BOOLEAN
  <2>1. due > 0 /\ due' = due - 1 /\ missed' = FALSE
    BY DEF reEvaluateAllPending
  <2>2. due' \in Nat
    BY <2>1 DEF StreamsTypeOK
  <2> QED BY <2>1, <2>2
<1>1. /\ UNCHANGED <<filters, ids, pendingTunnels>>
      /\ lastAuthState' \in [Watcher -> [Id -> Verdicts]]
      /\ \A w \in Watcher, id \in Id : lastAuthState'[w][id] =
             IF w \in pendingTunnels[id] THEN Verdict(id) ELSE lastAuthState[w][id]
  BY VerdictType DEF reEvaluateAllPending, StreamsTypeOK, Verdicts
<1>2. StreamsTypeOK' /\ PendingIsWatched'
  BY <1>0, <1>1 DEF StreamsTypeOK, PendingIsWatched
<1>3. \A w \in Watcher, id \in Id : w \in pendingTunnels[id] <=> id \in ids[w]
  BY DEF PendingIsWatched
<1>4. ToldIsWatched'
  BY <1>1, <1>3 DEF ToldIsWatched
<1>5. EveryoneKnows'
  <2> SUFFICES ASSUME NEW w \in Watcher, NEW id \in ids[w]
               PROVE  lastAuthState'[w][id] = Verdict(id)'
    BY <1>1 DEF EveryoneKnows
  <2>1. id \in Id
    BY DEF StreamsTypeOK
  <2> QED BY <2>1, <1>1, <1>3, SameVerdict
<1> QED BY <1>2, <1>4, <1>5 DEF WatchersAreCurrent

\* The table loses the ids whose verdict is a refusal, all at once
LEMMA ReEvaluationKeepsTable == ASSUME MInv, reEvaluateAllPending PROVE MInv'
BY RemovalStep DEF reEvaluateAllPending

LEMMA ConnectionKeepsStreams ==
    ASSUME StreamsInv, NEW w \in Watcher, NEW asked \in SUBSET Id, SseConnects(w, asked)
    PROVE  StreamsInv'
<1> USE DEF StreamsInv
<1>1. /\ UNCHANGED <<filters, due, missed>>
      /\ ids' \in [Watcher -> SUBSET Id]
      /\ \A x \in Watcher : ids'[x] = IF x = w THEN asked ELSE ids[x]
      /\ ids[w] = {}
  BY DEF SseConnects, StreamsTypeOK
<1>2. /\ pendingTunnels' \in [Id -> SUBSET Watcher]
      /\ \A id \in Id : pendingTunnels'[id] =
             IF id \in asked THEN pendingTunnels[id] \cup {w} ELSE pendingTunnels[id]
  BY DEF SseConnects, StreamsTypeOK
<1>3. /\ lastAuthState' \in [Watcher -> [Id -> Verdicts]]
      /\ \A x \in Watcher, id \in Id : lastAuthState'[x][id] =
             IF x # w THEN lastAuthState[x][id] ELSE IF id \in asked THEN Verdict(id) ELSE "none"
  BY VerdictType DEF SseConnects, StreamsTypeOK, Verdicts
<1>4. StreamsTypeOK'
  BY <1>1, <1>2, <1>3 DEF StreamsTypeOK
<1>5. PendingIsWatched' /\ ToldIsWatched'
  <2>1. \A id \in Id : pendingTunnels'[id] = {x \in Watcher : id \in ids'[x]}
    BY <1>1, <1>2 DEF PendingIsWatched
  <2>2. \A x \in Watcher, id \in Id : id \notin ids'[x] => lastAuthState'[x][id] = "none"
    BY <1>1, <1>3 DEF ToldIsWatched
  <2> QED BY <2>1, <2>2 DEF PendingIsWatched, ToldIsWatched
<1>6. ASSUME EveryoneKnows PROVE EveryoneKnows'
  <2> SUFFICES ASSUME NEW x \in Watcher, NEW id \in ids'[x]
               PROVE  lastAuthState'[x][id] = Verdict(id)'
    BY DEF EveryoneKnows
  <2>1. id \in Id
    BY <1>1
  <2> QED BY <2>1, <1>1, <1>3, <1>6, SameVerdict DEF EveryoneKnows
<1> QED BY <1>1, <1>4, <1>5, <1>6 DEF WatchersAreCurrent

LEMMA DepartureKeepsStreams ==
    ASSUME StreamsInv, NEW w \in Watcher, removeSseClient(w)
    PROVE  StreamsInv'
<1> USE DEF StreamsInv
<1>1. /\ UNCHANGED <<filters, due, missed>>
      /\ ids' \in [Watcher -> SUBSET Id]
      /\ \A x \in Watcher : ids'[x] = IF x = w THEN {} ELSE ids[x]
  BY DEF removeSseClient, StreamsTypeOK
<1>2. /\ pendingTunnels' \in [Id -> SUBSET Watcher]
      /\ \A id \in Id : pendingTunnels'[id] =
             IF id \in ids[w] THEN pendingTunnels[id] \ {w} ELSE pendingTunnels[id]
  BY DEF removeSseClient, StreamsTypeOK
<1>3. /\ lastAuthState' \in [Watcher -> [Id -> Verdicts]]
      /\ \A x \in Watcher, id \in Id : lastAuthState'[x][id] =
             IF x = w THEN "none" ELSE lastAuthState[x][id]
  BY DEF removeSseClient, StreamsTypeOK, Verdicts, Nothing
<1>4. StreamsTypeOK'
  BY <1>1, <1>2, <1>3 DEF StreamsTypeOK
<1>5. PendingIsWatched' /\ ToldIsWatched'
  <2>1. \A id \in Id : pendingTunnels'[id] = {x \in Watcher : id \in ids'[x]}
    BY <1>1, <1>2 DEF PendingIsWatched
  <2>2. \A x \in Watcher, id \in Id : id \notin ids'[x] => lastAuthState'[x][id] = "none"
    BY <1>1, <1>3 DEF ToldIsWatched
  <2> QED BY <2>1, <2>2 DEF PendingIsWatched, ToldIsWatched
<1>6. ASSUME EveryoneKnows PROVE EveryoneKnows'
  <2> SUFFICES ASSUME NEW x \in Watcher, NEW id \in ids'[x]
               PROVE  lastAuthState'[x][id] = Verdict(id)'
    BY DEF EveryoneKnows
  <2>1. id \in Id /\ x # w /\ id \in ids[x]
    BY <1>1
  <2> QED BY <2>1, <1>3, <1>1, <1>6, SameVerdict DEF EveryoneKnows
<1> QED BY <1>1, <1>4, <1>5, <1>6 DEF WatchersAreCurrent

\* A step of the filters or of the streams leaves the table alone
LEMMA TableUntouched == ASSUME MInv, UNCHANGED managerVars PROVE MInv'
BY NextMInv

LEMMA ChangeStep ==
    ASSUME SInv,
           \/ \E f \in Rule : PostFilter(f) \/ \E i \in 1..MaxFilters : PutFilter(i, f)
           \/ \E i \in 1..MaxFilters : DeleteFilter(i) \/ ExpireFilter(i)
    PROVE  SInv'
<1> USE DEF SInv
<1>0. filters \in Seq(Rule) /\ Sorted(filters)
  BY DEF FiltersInv
<1>1. \E cache \in Seq(Rule) :
          Sorted(cache) /\ ChangeFilters(cache) /\ Answered
  <2>1. ASSUME NEW f \in Rule, PostFilter(f)
        PROVE  \E cache \in Seq(Rule) :
                   Sorted(cache) /\ ChangeFilters(cache) /\ Answered
    <3>1. Append(filters, f) \in Seq(Rule)
      BY <1>0, AppendProperties
    <3> QED BY <2>1, <3>1, SortIsSorted DEF PostFilter
  <2>2. ASSUME NEW f \in Rule, NEW i, PutFilter(i, f)
        PROVE  \E cache \in Seq(Rule) :
                   Sorted(cache) /\ ChangeFilters(cache) /\ Answered
    <3>1. i \in 1..Len(filters)
      BY <2>2 DEF PutFilter
    <3>2. [filters EXCEPT ![i] = f] \in Seq(Rule)
      BY <1>0, <3>1, ExceptSeq
    <3> QED BY <2>2, <3>1, <3>2, SortIsSorted DEF PutFilter
  <2>3. ASSUME NEW i, DeleteFilter(i) \/ ExpireFilter(i)
        PROVE  \E cache \in Seq(Rule) :
                   Sorted(cache) /\ ChangeFilters(cache) /\ Answered
    <3>1. i \in 1..Len(filters)
      BY <2>3 DEF DeleteFilter, ExpireFilter
    <3>2. CASE DeleteFilter(i)
      BY <1>0, <3>1, <3>2, RemoveKeepsSorted DEF DeleteFilter
    <3>3. CASE ExpireFilter(i)
      BY <1>0, <3>1, <3>3, FlipKeepsSorted DEF ExpireFilter
    <3> QED BY <2>3, <3>2, <3>3
  <2> QED BY <2>1, <2>2, <2>3
<1>2. UNCHANGED managerVars
  BY <1>1 DEF ChangeFilters
<1>3. StreamsTypeOK
  BY DEF StreamsInv
<1> QED BY <1>1, <1>2, <1>3, TableUntouched, ChangeKeepsStreams, ChangeKeepsFilters

LEMMA NextSInv == SInv /\ [ServerNext]_allVars => SInv'
<1> SUFFICES ASSUME SInv, [ServerNext]_allVars PROVE SInv'
  OBVIOUS
<1> USE DEF SInv
<1>0. StreamsTypeOK
  BY DEF StreamsInv
<1>1. CASE \/ \E f \in Rule : PostFilter(f) \/ \E i \in 1..MaxFilters : PutFilter(i, f)
           \/ \E i \in 1..MaxFilters : DeleteFilter(i) \/ ExpireFilter(i)
  BY <1>1, ChangeStep
<1>2. CASE reEvaluateAllPending
  <2>1. UNCHANGED <<filters, changes>> /\ due' = due - 1
    BY <1>2 DEF reEvaluateAllPending
  <2> QED BY <1>0, <1>2, <2>1, ReEvaluationKeepsStreams, ReEvaluationKeepsTable, FiltersUntouched
<1>3. ASSUME NEW w \in Watcher,
             removeSseClient(w) \/ \E asked \in SUBSET Id : SseConnects(w, asked)
      PROVE  SInv'
  <2>1. UNCHANGED managerVars /\ UNCHANGED <<filters, changes>> /\ due' = due
    BY <1>3 DEF removeSseClient, SseConnects
  <2> QED BY <1>0, <1>3, <2>1, TableUntouched, ConnectionKeepsStreams, DepartureKeepsStreams,
             FiltersUntouched
<1>4. CASE \/ \E c \in Creation, id \in Id, type \in Kind, port \in Port \cup {NoPort} :
                  RequestTunnel(c, id, type, port)
           \/ ManagerStep
  <2>1. ManagerNext /\ UNCHANGED serverVars
    BY <1>4 DEF RequestTunnel, ManagerStep, ManagerNext, NewClient
  <2>2. FiltersInv'
    BY <1>0, <2>1, FiltersUntouched DEF serverVars
  <2> QED BY <2>1, <2>2, NextMInv, StreamsUntouched
<1>5. CASE UNCHANGED allVars
  <2>1. FiltersInv'
    BY <1>0, <1>5, FiltersUntouched DEF allVars, serverVars
  <2> QED BY <1>5, <2>1, TableUntouched, StreamsUntouched DEF allVars
<1> QED BY <1>1, <1>2, <1>3, <1>4, <1>5 DEF ServerNext

-----------------------------------------------------------------------------
(* Theorems *)

\* The invariant of the server: the manager's own, that of the streams and that of
\* the filters
THEOREM ServerInvariance == ServerSpec => []SInv
BY InitSInv, NextSInv, PTL DEF ServerSpec

\* The variables keep their types, the sorted cache and the re-evaluations included
THEOREM ServerTypeCorrect == ServerSpec => []ServerTypeOK
<1>1. SInv => ServerTypeOK
  <2> SUFFICES ASSUME SInv PROVE ServerTypeOK
    OBVIOUS
  <2>1. MaxChanges \in Nat
    BY FilterBoundsAssumption
  <2> QED BY <2>1 DEF SInv, MInv, StreamsInv, StreamsTypeOK, FiltersInv, ServerTypeOK
<1> QED BY <1>1, ServerInvariance, PTL

\* Whatever was added, changed, removed or has expired, the verdict is one of a
\* matching filter of the highest priority, and a refusal when none matches
THEOREM PriorityDecides == ServerSpec => []HighestPriorityDecides
<1>1. FiltersInv => HighestPriorityDecides
  <2> SUFFICES ASSUME FiltersInv, NEW id \in Id,
                      NEW best, best = {i \in Matching(id) : \A j \in Matching(id) :
                                           filters[j].priority <= filters[i].priority}
               PROVE  /\ isIdAuthorized(id) => \E i \in best : filters[i].authorized
                      /\ ~isIdAuthorized(id) => best = {} \/ \E i \in best : ~filters[i].authorized
    BY DEF HighestPriorityDecides
  <2>1. /\ Matching(id) \in SUBSET (1..Len(filters))
        /\ \A i \in Matching(id) : i \in Nat /\ filters[i].priority \in Nat
    BY PriorityIsNat DEF Matching, FiltersInv
  <2>2. \A i \in Matching(id) : (\A j \in Matching(id) : i <= j) => i \in best
    <3> SUFFICES ASSUME NEW i \in Matching(id), \A j \in Matching(id) : i <= j,
                        NEW j \in Matching(id)
                 PROVE  filters[j].priority <= filters[i].priority
      OBVIOUS
    <3>1. i = j \/ i < j
      BY <2>1
    <3> QED BY <2>1, <3>1 DEF FiltersInv, Sorted
  <2>3. CASE Matching(id) = {}
    BY <2>3 DEF isIdAuthorized
  <2>4. CASE Matching(id) # {}
    <3>1. PICK i \in Matching(id) : \A j \in Matching(id) : i <= j
      BY <2>1, <2>4, LeastNat
    <3> QED BY <2>2, <3>1 DEF isIdAuthorized
  <2> QED BY <2>3, <2>4
<1>2. SInv => HighestPriorityDecides
  BY <1>1 DEF SInv
<1> QED BY <1>2, ServerInvariance, PTL

\* pendingTunnels has exactly the open streams, whoever shares ids and leaves
THEOREM StreamsAreCounted == ServerSpec => []PendingIsWatched
<1>1. SInv => PendingIsWatched
  BY DEF SInv, StreamsInv
<1> QED BY <1>1, ServerInvariance, PTL

\* Once no re-evaluation is under way every stream knows its present verdicts
THEOREM StreamsAreCurrent == ServerSpec => []WatchersAreCurrent
<1>1. SInv => WatchersAreCurrent
  BY DEF SInv, StreamsInv
<1> QED BY <1>1, ServerInvariance, PTL

\* The revocations of the server, which remove many clients at once, lose none either
THEOREM RevocationLeaksNoClient == ServerSpec => []NoLeakedClient
<1>1. SInv => NoLeakedClient
  BY DEF SInv, MInv
<1> QED BY <1>1, ServerInvariance, PTL

\* A stream that learns of a revocation learns it with the end of the tunnel
THEOREM RevocationIsHeardCut == ServerSpec => RevocationCuts
<1> DEFINE Cuts == \A w \in Watcher, id \in Id :
                      lastAuthState[w][id] = "allowed" /\ lastAuthState'[w][id] = "denied"
                        => clients'[id] = Nobody
<1>1. ASSUME SInv, [ServerNext]_allVars PROVE [Cuts]_allVars
  <2> SUFFICES ASSUME ServerNext, NEW w \in Watcher, NEW id \in Id,
                      lastAuthState[w][id] = "allowed", lastAuthState'[w][id] = "denied"
               PROVE  clients'[id] = Nobody
    BY <1>1
  <2> USE <1>1 DEF SInv, StreamsInv, StreamsTypeOK
  <2>1. lastAuthState' # lastAuthState
    OBVIOUS
  <2>2. CASE reEvaluateAllPending
    <3>1. w \in pendingTunnels[id] /\ Verdict(id) = "denied"
      BY <2>2 DEF reEvaluateAllPending
    <3>2. id \in {x \in Id : pendingTunnels[x] # {} /\ ~isIdAuthorized(x)}
      BY <3>1 DEF Verdict
    <3> QED BY <2>2, <3>2 DEF reEvaluateAllPending, removeClients
  <2>3. ASSUME NEW x \in Watcher, NEW asked \in SUBSET Id, SseConnects(x, asked)
        PROVE  FALSE
    <3>1. x = w
      BY <2>3 DEF SseConnects
    <3>2. ids[w] = {}
      BY <2>3, <3>1 DEF SseConnects
    <3> QED BY <3>2 DEF ToldIsWatched
  <2>4. ASSUME NEW x \in Watcher, removeSseClient(x) PROVE FALSE
    <3>1. lastAuthState'[w][id] = IF x = w THEN "none" ELSE lastAuthState[w][id]
      BY <2>4 DEF removeSseClient, Nothing
    <3> QED BY <3>1
  <2> QED BY <2>1, <2>2, <2>3, <2>4
          DEF ServerNext, PostFilter, PutFilter, DeleteFilter, ExpireFilter, ChangeFilters,
              RequestTunnel, ManagerStep, serverVars
<1> QED BY <1>1, ServerInvariance, PTL DEF ServerSpec, RevocationCuts
=============================================================================
