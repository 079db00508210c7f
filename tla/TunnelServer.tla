---------------------------- MODULE TunnelServer ----------------------------
(***************************************************************************)
(* The server of index.ts over ClientManager: the filters decide which ids *)
(* may open a tunnel; the SSE streams watch ids and are told the verdicts; *)
(* after each change of the filters reEvaluateAllPending tells the streams *)
(* and cuts the tunnels that lost their right.                             *)
(*                                                                         *)
(* The filters are the cache of FilterStore: a change is the moment its    *)
(* result is in the cache, the re-evaluation that follows is a later step  *)
(* (an await lies between them).  How the cache follows the database is in *)
(* FilterStore.  A filter's regular expression is the set of ids it tests  *)
(* positive for.                                                           *)
(***************************************************************************)
EXTENDS ClientManager, Sequences, SequencesExt

CONSTANTS
    Watcher,      \* SSE streams; the name of a closed one is used again
    Pattern,      \* what the regular expressions match
    DefaultFilters,
    MaxPriority,
    MaxFilters,   \* bound on the filters
    MaxChanges    \* bound on the changes of filters

Rule == [pattern : Pattern, authorized : BOOLEAN, priority : 1..MaxPriority]

ASSUME FilterAssumption == Pattern \subseteq SUBSET Id /\ DefaultFilters \in Seq(Rule)
ASSUME FilterBoundsAssumption == {MaxPriority, MaxFilters, MaxChanges} \subseteq Nat

VARIABLES
    filters,         \* FilterStore._cache
    due,             \* re-evaluations under way
    missed,          \* an operation ended between its change and its re-evaluation
    ids,             \* the ids of each open stream
    pendingTunnels,  \* id -> sseClients; no entry is no client
    lastAuthState,   \* what each stream was last told
    changes

serverVars == <<filters, due, missed, ids, pendingTunnels, lastAuthState, changes>>
allVars == <<managerVars, serverVars>>

Verdicts == {"none", "allowed", "denied"}
Nothing == [id \in Id |-> "none"]

ServerTypeOK ==
    /\ TypeOK
    /\ filters \in Seq(Rule)
    /\ due \in 0..MaxChanges /\ missed \in BOOLEAN
    /\ ids \in [Watcher -> SUBSET Id]
    /\ pendingTunnels \in [Id -> SUBSET Watcher]
    /\ lastAuthState \in [Watcher -> [Id -> Verdicts]]
    /\ changes \in 0..MaxChanges

\* The place of the filter i in the sorted cache: after those of a higher priority
\* and those of its own priority that stand before it
Place(cache, i) ==
    Cardinality({j \in 1..Len(cache) :
        \/ cache[j].priority > cache[i].priority
        \/ cache[j].priority = cache[i].priority /\ j <= i})

\* Mutant: lowest priority first
_sortCacheAscending(cache) ==
    [k \in 1..Len(cache) |->
        cache[CHOOSE i \in 1..Len(cache) : Place(cache, i) = Len(cache) + 1 - k]]

\* Highest priority first; equal ones keep their order
_sortCache(cache) ==
    [k \in 1..Len(cache) |-> cache[CHOOSE i \in 1..Len(cache) : Place(cache, i) = k]]

\* ready() has run
ServerInit ==
    /\ ManagerInit
    /\ filters = _sortCache(DefaultFilters)
    /\ due = 0 /\ missed = FALSE
    /\ ids = [w \in Watcher |-> {}]
    /\ pendingTunnels = [id \in Id |-> {}]
    /\ lastAuthState = [w \in Watcher |-> Nothing]
    /\ changes = 0

-----------------------------------------------------------------------------
(* Filters *)

Matching(id) == {i \in 1..Len(filters) : id \in filters[i].pattern}

\* The first filter that matches decides; none is a refusal
isIdAuthorized(id) ==
    \E i \in Matching(id) : filters[i].authorized /\ \A j \in Matching(id) : i <= j

\* Mutant: a verdict the streams do not know
VerdictNamed(id) == IF isIdAuthorized(id) THEN "allowed" ELSE "refused"

Verdict(id) == IF isIdAuthorized(id) THEN "allowed" ELSE "denied"

\* A change that reached the cache loses its re-evaluation if its operation ends early:
\* the flip of an allow already past fails, its find fails while one of another request
\* brings the change, or its filter is gone again and the result is null
Answered ==
    \/ due' = due + 1 /\ UNCHANGED missed
    \/ missed' = TRUE /\ UNCHANGED due

ChangeFilters(cache) ==
    /\ changes < MaxChanges /\ changes' = changes + 1
    /\ filters' = cache
    /\ UNCHANGED <<managerVars, ids, pendingTunnels, lastAuthState>>

PostFilter(f) ==
    /\ Len(filters) < MaxFilters
    /\ ChangeFilters(_sortCache(Append(filters, f)))
    /\ Answered

PutFilter(i, f) ==
    /\ i \in 1..Len(filters)
    /\ ChangeFilters(_sortCache([filters EXCEPT ![i] = f]))
    /\ Answered

\* Mutants: the re-evaluation is forgotten after a removal, or after an expiry
DeleteFilterSilently(i) ==
    /\ i \in 1..Len(filters)
    /\ ChangeFilters(RemoveAt(filters, i))
    /\ UNCHANGED <<due, missed>>

ExpireFilterSilently(i) ==
    /\ i \in 1..Len(filters) /\ filters[i].authorized
    /\ ChangeFilters([filters EXCEPT ![i].authorized = FALSE])
    /\ UNCHANGED <<due, missed>>

DeleteFilter(i) ==
    /\ i \in 1..Len(filters)
    /\ ChangeFilters(RemoveAt(filters, i))
    /\ Answered

\* The timer of a temporary allow takes it back
ExpireFilter(i) ==
    /\ i \in 1..Len(filters) /\ filters[i].authorized
    /\ ChangeFilters([filters EXCEPT ![i].authorized = FALSE])
    /\ Answered

\* Mutant: the streams are told and the tunnels left
reEvaluateTells ==
    /\ due > 0
    /\ due' = due - 1
    /\ missed' = FALSE
    /\ lastAuthState' = [w \in Watcher |-> [id \in Id |->
           IF w \in pendingTunnels[id] THEN Verdict(id) ELSE lastAuthState[w][id]]]
    /\ UNCHANGED <<managerVars, filters, ids, pendingTunnels, changes>>

\* Only the ids somebody watches are looked at
reEvaluateAllPending ==
    /\ due > 0
    /\ due' = due - 1
    /\ missed' = FALSE
    /\ lastAuthState' = [w \in Watcher |-> [id \in Id |->
           IF w \in pendingTunnels[id] THEN Verdict(id) ELSE lastAuthState[w][id]]]
    /\ removeClients({id \in Id : pendingTunnels[id] # {} /\ ~isIdAuthorized(id)})
    /\ UNCHANGED <<server, serverListening, handlers, phase, request, faults,
                   filters, ids, pendingTunnels, changes>>

-----------------------------------------------------------------------------
(* Streams *)

SseConnects(w, asked) ==
    /\ ids[w] = {} /\ asked # {}
    /\ ids' = [ids EXCEPT ![w] = asked]
    /\ pendingTunnels' = [id \in Id |->
           IF id \in asked THEN pendingTunnels[id] \cup {w} ELSE pendingTunnels[id]]
    /\ lastAuthState' = [lastAuthState EXCEPT ![w] =
           [id \in Id |-> IF id \in asked THEN Verdict(id) ELSE "none"]]
    /\ UNCHANGED <<managerVars, filters, due, missed, changes>>

\* Mutant: the entry of an id goes with the first stream that leaves
removeSseEntries(w) ==
    /\ ids[w] # {}
    /\ pendingTunnels' = [id \in Id |-> IF id \in ids[w] THEN {} ELSE pendingTunnels[id]]
    /\ ids' = [ids EXCEPT ![w] = {}]
    /\ lastAuthState' = [lastAuthState EXCEPT ![w] = Nothing]
    /\ UNCHANGED <<managerVars, filters, due, missed, changes>>

\* The request closes, the response fails, or a heartbeat cannot be written
removeSseClient(w) ==
    /\ ids[w] # {}
    /\ pendingTunnels' = [id \in Id |->
           IF id \in ids[w] THEN pendingTunnels[id] \ {w} ELSE pendingTunnels[id]]
    /\ ids' = [ids EXCEPT ![w] = {}]
    /\ lastAuthState' = [lastAuthState EXCEPT ![w] = Nothing]
    /\ UNCHANGED <<managerVars, filters, due, missed, changes>>

-----------------------------------------------------------------------------
(* Tunnels *)

\* GET /?new: the checks and the registration are one synchronous step
RequestTunnel(c, id, type, port) ==
    /\ isIdAuthorized(id)
    /\ newClient(c, id, type, port)
    /\ UNCHANGED serverVars

ManagerStep ==
    /\ \/ ServerSettles
       \/ \E c \in Creation : CreationStep(c) \/ OwnServerFailsLate(c)
       \/ \E id \in Id : ClientRemoved(id) \/ TunnelConnects(id)
    /\ UNCHANGED serverVars

ServerNext ==
    \/ \E f \in Rule : PostFilter(f) \/ \E i \in 1..MaxFilters : PutFilter(i, f)
    \/ \E i \in 1..MaxFilters : DeleteFilter(i) \/ ExpireFilter(i)
    \/ reEvaluateAllPending
    \/ \E w \in Watcher : removeSseClient(w) \/ \E asked \in SUBSET Id : SseConnects(w, asked)
    \/ \E c \in Creation, id \in Id, type \in Kind, port \in Port \cup {NoPort} :
           RequestTunnel(c, id, type, port)
    \/ ManagerStep

ServerSpec == ServerInit /\ [][ServerNext]_allVars

\* A change whose operation goes through goes on to its re-evaluation
FairServerSpec == ServerSpec /\ WF_allVars(reEvaluateAllPending)

-----------------------------------------------------------------------------
(* Correctness *)

\* "le premier filtre qui matche (priorite la plus haute en premier)": whatever was
\* added, changed and removed, the verdict is one of a matching filter of the
\* highest priority, and a refusal when none matches
HighestPriorityDecides ==
    \A id \in Id :
        LET best == {i \in Matching(id) :
                        \A j \in Matching(id) : filters[j].priority <= filters[i].priority}
        IN  /\ isIdAuthorized(id) => \E i \in best : filters[i].authorized
            /\ ~isIdAuthorized(id) => best = {} \/ \E i \in best : ~filters[i].authorized

\* pendingTunnels and the open streams agree, so that a closed stream is not written
\* to and an open one is not forgotten when another one watches the same ids
PendingIsWatched == \A id \in Id : pendingTunnels[id] = {w \in Watcher : id \in ids[w]}

\* When no re-evaluation is under way every stream has been told the present verdict
\* on each of its ids, however changes, connections and departures interleaved
EveryoneKnows == \A w \in Watcher : \A id \in ids[w] : lastAuthState[w][id] = Verdict(id)

WatchersAreCurrent == due = 0 /\ ~missed => EveryoneKnows

\* "Revocation: event SSE authorized:false + tunnel coupe": a stream that learns of
\* a revocation learns it together with the end of the tunnel
RevocationCuts ==
    [][\A w \in Watcher, id \in Id :
         lastAuthState[w][id] = "allowed" /\ lastAuthState'[w][id] = "denied"
           => clients'[id] = Nobody]_allVars

\* The streams are told in the end of a change, whatever else goes on
NewsArrives == ~EveryoneKnows ~> (EveryoneKnows \/ missed)

\* "Toute modification re-evalue immediatement tous les tunnels connectes": once the
\* re-evaluations are done no tunnel is left whose id is refused
RevokedTunnelIsCut ==
    due = 0 /\ ~missed => \A id \in Id : hasClient(id) => isIdAuthorized(id)
=============================================================================
