---------------------------- MODULE FilterStore ----------------------------
(***************************************************************************)
(* The authorization filters: lib/FilterStore.js, in memory or over        *)
(* MongoDB.  In Mongo mode an operation is a chain of queries (a write,    *)
(* then the find of _refreshCache) with other operations running between   *)
(* them; the answer to the find replaces the whole cache when it arrives.  *)
(* A temporary allow carries a date; a timer flips it to deny.  The        *)
(* process may crash: the collection survives, cache and timers do not.    *)
(*                                                                         *)
(* Patterns and priorities do not matter here: a filter is its verdict and *)
(* its date (TunnelServer has which filter decides).                       *)
(***************************************************************************)
EXTENDS Naturals, FiniteSets

CONSTANTS
    Filter,       \* ids; an id is never used twice
    Worker,       \* bound on the operations in flight
    MaxTime,      \* bound on the clock, and the last date used
    MaxTimeout,   \* the longest delay of setTimeout
    MaxOps,       \* bound on the admin requests
    MaxFaults,    \* bound on the failed queries
    MaxCrashes    \* bound on the crashes

ASSUME BoundsAssumption ==
    /\ {MaxTime, MaxTimeout, MaxOps, MaxFaults, MaxCrashes} \subseteq Nat
    /\ MaxTimeout > 0
ASSUME FilterAssumption == IsFiniteSet(Filter) /\ IsFiniteSet(Worker)

NoDate == 0                    \* allowUntil: null
Date == 1..MaxTime
Absent == {}                   \* a field the request does not have
NoTimer == [at |-> MaxTime + 1, last |-> TRUE]

Doc == [authorized : BOOLEAN, allowUntil : {NoDate} \cup Date]
NoDoc == [authorized |-> FALSE, allowUntil |-> MaxTime + 1]
Denied == [authorized |-> FALSE, allowUntil |-> NoDate]
Permanent == [authorized |-> TRUE, allowUntil |-> NoDate]
Filters == [Filter -> Doc \cup {NoDoc}]

\* What a request asks to write: a field it has is the singleton of its value
Field(S) == {Absent} \cup {{x} : x \in S}
Change == [authorized : Field(BOOLEAN), allowUntil : Field({NoDate} \cup Date)]
ValueOr(field, old) == IF field = Absent THEN old ELSE CHOOSE x \in field : TRUE

VARIABLES
    useMongo,
    now,
    db,        \* the collection
    cache,     \* _cache, by id
    timer,     \* _expiryTimers: when it fires; ~last: a link of a chain
    task,      \* the operations in flight
    boot,      \* init(): its phase, and the entries it has still to look at
    used,      \* the ids given out
    clean,     \* since the last start no operations overlapped, no query failed
    ops, faults, crashes

vars == <<useMongo, now, db, cache, timer, task, boot, used, clean, ops, faults, crashes>>
bounds == <<ops, faults, crashes>>

Idle == [phase |-> "idle"]

TypeOK ==
    /\ useMongo \in BOOLEAN /\ clean \in BOOLEAN
    /\ now \in 0..MaxTime
    /\ db \in Filters /\ cache \in Filters
    /\ \A f \in Filter : timer[f].at \in 0..(MaxTime + 1) /\ timer[f].last \in BOOLEAN
    /\ \A w \in Worker : task[w].phase \in {"idle", "commit", "read", "apply"}
    /\ boot.phase \in {"seed", "read", "apply", "entries", "ready"}
    /\ used \in SUBSET Filter
    /\ ops \in 0..MaxOps /\ faults \in 0..MaxFaults /\ crashes \in 0..MaxCrashes

-----------------------------------------------------------------------------
Temporary(doc) == doc # NoDoc /\ doc.authorized /\ doc.allowUntil # NoDate
Due(doc) == Temporary(doc) /\ doc.allowUntil <= now

InFlight == {w \in Worker : task[w].phase # "idle"}
Quiet == InFlight = {} /\ boot.phase = "ready"

\* The filters as they are kept, in either mode
Store == IF useMongo THEN db ELSE cache

\* Mutant: the date is written as it was asked
_normalizeNothing(change, effectiveAuthorized) == change.allowUntil

\* allowUntil is only kept together with authorized = true
_normalizeAllowUntil(change, effectiveAuthorized) ==
    IF change.allowUntil = Absent \/ effectiveAuthorized THEN change.allowUntil ELSE {NoDate}

\* The fields an update writes, given the cached entry
Allowed(change, existing) ==
    LET effectiveAuthorized == ValueOr(change.authorized, existing.authorized)
    IN  [authorized |-> change.authorized,
         allowUntil |-> IF change.allowUntil = Absent /\ change.authorized = {FALSE}
                          THEN {NoDate}
                          ELSE _normalizeAllowUntil(change, effectiveAuthorized)]

Patched(doc, allowed) ==
    [authorized |-> ValueOr(allowed.authorized, doc.authorized),
     allowUntil |-> ValueOr(allowed.allowUntil, doc.allowUntil)]

\* Mutant: no timer for a date that is too far
_armExpiryNear(date) ==
    IF date <= now + MaxTimeout THEN [at |-> date, last |-> TRUE] ELSE NoTimer

\* A delay beyond MaxTimeout is cut: the timer then only looks again
_armExpiry(date) ==
    IF date <= now + MaxTimeout THEN [at |-> date, last |-> TRUE]
                                ELSE [at |-> now + MaxTimeout, last |-> FALSE]

\* A new operation on the database; it overlaps with what is in flight
Launch(w, operation) ==
    /\ task[w] = Idle
    /\ task' = [task EXCEPT ![w] = operation]
    /\ clean' = (clean /\ InFlight = {})

Operation(kind, f, allowed) == [phase |-> "commit", kind |-> kind, id |-> f, set |-> allowed]
FlipToDeny(f) == Operation("flip", f, [authorized |-> {FALSE}, allowUntil |-> {NoDate}])

AdminRequest == boot.phase = "ready" /\ ops < MaxOps /\ ops' = ops + 1

Empty == [f \in Filter |-> NoDoc]
NoTimers == [f \in Filter |-> NoTimer]
Seeding == [phase |-> "seed", left |-> {}, snap |-> Empty, flip |-> {}]

\* A process that starts, over a collection left by an earlier one
Init ==
    /\ useMongo \in BOOLEAN
    /\ now = 0
    /\ \E f \in Filter, doc \in {NoDoc, Denied} \cup [authorized : {TRUE}, allowUntil : {NoDate} \cup Date] :
           /\ db = [Empty EXCEPT ![f] = IF useMongo THEN doc ELSE NoDoc]
           /\ used = IF db = Empty THEN {} ELSE {f}
    /\ cache = Empty
    /\ timer = NoTimers
    /\ task = [w \in Worker |-> Idle]
    /\ boot = Seeding
    /\ clean = TRUE
    /\ ops = 0 /\ faults = 0 /\ crashes = 0

-----------------------------------------------------------------------------
(* Requests, up to their first await *)

\* Mutant: an allow made permanent keeps its old timer
WriteMemoryKeepsTimer(f, doc) ==
    /\ cache' = [cache EXCEPT ![f] = IF Due(doc) THEN Denied ELSE doc]
    /\ timer' = [timer EXCEPT ![f] =
           IF Temporary(doc) /\ ~Due(doc) THEN _armExpiry(doc.allowUntil) ELSE @]
    /\ UNCHANGED <<task, clean>>

\* _applyExpiry on the entry a request has just written, in memory: all of it is
\* synchronous, a date already past flips the entry and leaves its old timer
WriteMemory(f, doc) ==
    /\ cache' = [cache EXCEPT ![f] = IF Due(doc) THEN Denied ELSE doc]
    /\ timer' = [timer EXCEPT ![f] = IF Due(doc) THEN @
                                     ELSE IF Temporary(doc) THEN _armExpiry(doc.allowUntil)
                                     ELSE NoTimer]
    /\ UNCHANGED <<task, clean>>

\* The verdict is required. Here an absent allowUntil reads as an invalid date,
\* which an allow may not have: such a request throws before it changes anything
create(w, f, change) ==
    /\ AdminRequest /\ f \notin used
    /\ change.authorized # Absent
    /\ change.authorized = {TRUE} => change.allowUntil # Absent
    /\ LET fields == [change EXCEPT !.allowUntil =
                         _normalizeAllowUntil(change, change.authorized = {TRUE})]
       IN  IF useMongo
             THEN Launch(w, Operation("create", f, fields)) /\ UNCHANGED <<cache, timer>>
             ELSE WriteMemory(f, Patched(Denied, fields))
    /\ used' = used \cup {f}
    /\ UNCHANGED <<useMongo, now, db, boot, faults, crashes>>

\* The patch is normalized against the cached entry. A change with both fields
\* absent stands for one of the pattern or of the priority
update(w, f, change) ==
    /\ AdminRequest /\ cache[f] # NoDoc
    /\ LET allowed == Allowed(change, cache[f])
       IN  IF useMongo
             THEN Launch(w, Operation("update", f, allowed)) /\ UNCHANGED <<cache, timer>>
             ELSE WriteMemory(f, Patched(cache[f], allowed))
    /\ UNCHANGED <<useMongo, now, db, boot, used, faults, crashes>>

\* The timer goes first, whether or not the filter exists
delete(w, f) ==
    /\ AdminRequest /\ f \in used
    /\ timer' = [timer EXCEPT ![f] = NoTimer]
    /\ IF useMongo
         THEN Launch(w, Operation("delete", f, << >>)) /\ UNCHANGED cache
         ELSE cache' = [cache EXCEPT ![f] = NoDoc] /\ UNCHANGED <<task, clean>>
    /\ UNCHANGED <<useMongo, now, db, boot, used, faults, crashes>>

-----------------------------------------------------------------------------
(* Timers *)

\* The date has come: the filter is flipped, whatever it has become meanwhile
_onExpire(w, f) ==
    /\ timer[f].last /\ timer[f].at <= now
    /\ timer' = [timer EXCEPT ![f] = NoTimer]
    /\ IF useMongo
         THEN Launch(w, FlipToDeny(f)) /\ UNCHANGED cache
         ELSE /\ cache' = [cache EXCEPT ![f] = IF @ = NoDoc THEN NoDoc ELSE Denied]
              /\ UNCHANGED <<task, clean>>
    /\ UNCHANGED <<useMongo, now, db, boot, used, bounds>>

\* Mutant: the chain ends with its first link
ChainTimerOnce(f) ==
    /\ ~timer[f].last /\ timer[f].at <= now
    /\ timer' = [timer EXCEPT ![f] = NoTimer]
    /\ UNCHANGED <<useMongo, now, db, cache, task, boot, used, clean, bounds>>

\* The end of a link: the next one is for the date the cache now has
ChainTimer(f) ==
    /\ ~timer[f].last /\ timer[f].at <= now
    /\ timer' = [timer EXCEPT ![f] = IF Temporary(cache[f])
                                       THEN _armExpiry(cache[f].allowUntil) ELSE NoTimer]
    /\ UNCHANGED <<useMongo, now, db, cache, task, boot, used, clean, bounds>>

Tick ==
    /\ now < MaxTime
    /\ now' = now + 1
    /\ UNCHANGED <<useMongo, db, cache, timer, task, boot, used, clean, bounds>>

-----------------------------------------------------------------------------
(* The queries of an operation *)

\* The write. With no document to write to the operation returns null at once
Commit(w) ==
    /\ task[w].phase = "commit"
    /\ LET f == task[w].id
           missing == db[f] = NoDoc /\ task[w].kind # "create"
           written == CASE task[w].kind = "delete" -> NoDoc
                        [] task[w].kind = "create" -> Patched(Denied, task[w].set)
                        [] OTHER -> Patched(db[f], task[w].set)
       IN  /\ db' = IF missing THEN db ELSE [db EXCEPT ![f] = written]
           /\ task' = [task EXCEPT ![w] = IF missing THEN Idle
                            ELSE [phase |-> "read", kind |-> @.kind, id |-> f]]
    /\ UNCHANGED <<useMongo, now, cache, timer, boot, used, clean, bounds>>

\* Mutant: the answer is not kept
ReadOnly(w) ==
    /\ task[w].phase = "read"
    /\ task' = [task EXCEPT ![w] = Idle]
    /\ UNCHANGED <<useMongo, now, db, cache, timer, boot, used, clean, bounds>>

\* The find of _refreshCache is executed by the database
Read(w) ==
    /\ task[w].phase = "read"
    /\ task' = [task EXCEPT ![w] =
                   [phase |-> "apply", kind |-> @.kind, id |-> @.id, snap |-> db]]
    /\ UNCHANGED <<useMongo, now, db, cache, timer, boot, used, clean, bounds>>

\* Its answer becomes the cache; after a create or an update _applyExpiry follows
Apply(w) ==
    /\ task[w].phase = "apply"
    /\ cache' = task[w].snap
    /\ LET f == task[w].id
           entry == task[w].snap[f]
           settle == task[w].kind \in {"create", "update"} /\ entry # NoDoc
       IN  /\ timer' = [timer EXCEPT ![f] =
                  IF ~settle \/ Due(entry) THEN @
                  ELSE IF Temporary(entry) THEN _armExpiry(entry.allowUntil) ELSE NoTimer]
           /\ task' = [task EXCEPT ![w] =
                  IF settle /\ Due(entry) THEN FlipToDeny(f) ELSE Idle]
    /\ UNCHANGED <<useMongo, now, db, boot, used, clean, bounds>>

\* A query fails, or its answer is lost: the operation is given up where it is
QueryFails(w) ==
    /\ faults < MaxFaults
    /\ task[w].phase \in {"commit", "read"}
    /\ task' = [task EXCEPT ![w] = Idle]
    /\ faults' = faults + 1
    /\ clean' = FALSE
    /\ UNCHANGED <<useMongo, now, db, cache, timer, boot, used, ops, crashes>>

-----------------------------------------------------------------------------
(* Start and crash *)

\* Default filters, if there are any, are inserted in an empty collection only. They
\* allow or deny, and have no date
Seed ==
    /\ boot.phase = "seed"
    /\ IF Store = Empty
         THEN \E defaults \in [Filter \ used -> {NoDoc, Denied, Permanent}] :
                LET seeded == [f \in Filter |-> IF f \in used THEN NoDoc ELSE defaults[f]]
                IN  /\ used' = used \cup {f \in Filter : seeded[f] # NoDoc}
                    /\ db' = IF useMongo THEN seeded ELSE db
                    /\ cache' = IF useMongo THEN cache ELSE seeded
         ELSE UNCHANGED <<db, cache, used>>
    /\ boot' = [boot EXCEPT !.phase = IF useMongo THEN "read" ELSE "ready"]
    /\ UNCHANGED <<useMongo, now, timer, task, clean, bounds>>

BootRead ==
    /\ boot.phase = "read"
    /\ boot' = [boot EXCEPT !.phase = "entries", !.snap = db,
                            !.left = {f \in Filter : Temporary(db[f])}]
    /\ cache' = db
    /\ UNCHANGED <<useMongo, now, db, timer, task, used, clean, bounds>>

\* Each entry in turn: one that is past is flipped, and its flip awaited
BootEntry(w, f) ==
    /\ boot.phase = "entries" /\ f \in boot.left
    /\ \A x \in boot.flip : task[x] = Idle
    /\ IF Due(boot.snap[f])
         THEN /\ Launch(w, FlipToDeny(f))
              /\ boot' = [boot EXCEPT !.left = @ \ {f}, !.flip = {w}]
              /\ UNCHANGED timer
         ELSE /\ timer' = [timer EXCEPT ![f] = _armExpiry(boot.snap[f].allowUntil)]
              /\ boot' = [boot EXCEPT !.left = @ \ {f}, !.flip = {}]
              /\ UNCHANGED <<task, clean>>
    /\ UNCHANGED <<useMongo, now, db, cache, used, bounds>>

\* Mutant: a phase the requests do not know
ReadyNamed ==
    /\ boot.phase = "entries" /\ boot.left = {}
    /\ \A x \in boot.flip : task[x] = Idle
    /\ boot' = [Seeding EXCEPT !.phase = "listening"]
    /\ UNCHANGED <<useMongo, now, db, cache, timer, task, used, clean, bounds>>

Ready ==
    /\ boot.phase = "entries" /\ boot.left = {}
    /\ \A x \in boot.flip : task[x] = Idle
    /\ boot' = [Seeding EXCEPT !.phase = "ready"]
    /\ UNCHANGED <<useMongo, now, db, cache, timer, task, used, clean, bounds>>

\* What is only in memory is lost, the counter of ids included
Crash ==
    /\ crashes < MaxCrashes
    /\ crashes' = crashes + 1
    /\ cache' = Empty /\ timer' = NoTimers
    /\ task' = [w \in Worker |-> Idle]
    /\ boot' = Seeding
    /\ clean' = TRUE
    /\ used' = IF useMongo THEN used ELSE {}
    /\ UNCHANGED <<useMongo, now, db, ops, faults>>

-----------------------------------------------------------------------------
TaskStep(w) == Commit(w) \/ Read(w) \/ Apply(w)

TimerFires(f) == ChainTimer(f) \/ \E w \in Worker : _onExpire(w, f)

Request(w, f) ==
    \/ \E change \in Change : create(w, f, change) \/ update(w, f, change)
    \/ delete(w, f)

BootStep == Seed \/ BootRead \/ Ready \/ \E w \in Worker, f \in Filter : BootEntry(w, f)

Next ==
    \/ \E w \in Worker, f \in Filter : Request(w, f)
    \/ \E f \in Filter : TimerFires(f)
    \/ \E w \in Worker : TaskStep(w) \/ QueryFails(w)
    \/ Tick \/ BootStep \/ Crash

\* The database answers, timers fire, a start goes on; requests, failures and
\* crashes owe nothing
Fairness ==
    /\ \A w \in Worker : WF_vars(TaskStep(w))
    /\ \A f \in Filter : WF_vars(TimerFires(f))
    /\ WF_vars(BootStep)

Spec == Init /\ [][Next]_vars
FairSpec == Spec /\ Fairness

-----------------------------------------------------------------------------
(* Correctness *)

\* While operations do not overlap and queries succeed, the cache that
\* isIdAuthorized reads is the collection again whenever nothing is in flight
CacheCatchesUp == useMongo /\ Quiet /\ clean => cache = db

\* "any mutation refreshes the cache from the DB afterwards": whatever overlaps
CacheIsCurrent == useMongo /\ Quiet /\ faults = 0 => cache = db

\* Under the same condition, and after any crash, a temporary allow has its timer,
\* for its own date: none is forgotten by a change, a chain or a restart
TimerCoversAllow ==
    clean /\ Quiet => \A f \in Filter : Temporary(Store[f]) =>
        timer[f].at <= Store[f].allowUntil /\ (timer[f].last => timer[f].at = Store[f].allowUntil)

\* Under the same condition no step leaves a date on a filter that denies, although
\* the patch is normalized against the cache and then written to the collection
Coherent(doc) == doc = NoDoc \/ doc.authorized \/ doc.allowUntil = NoDate

DenyClearsDate ==
    [][clean' => \A f \in Filter : Coherent(Store[f]) => Coherent(Store'[f])]_vars

\* Under the same condition a timer takes back only an allow whose date has come:
\* one that was extended or made permanent before it fired is left alone
FlippedByTimer(f) ==
    \/ \E w \in Worker : /\ task[w].phase = "commit" /\ task'[w].phase = "read"
                         /\ task[w].kind = "flip" /\ task[w].id = f
    \/ ~useMongo /\ ops' = ops /\ crashes' = crashes /\ boot' = boot /\ cache'[f] # cache[f]

FlipsOnlyDue ==
    [][\A f \in Filter :
         clean' /\ FlippedByTimer(f) /\ Store[f].authorized => Due(Store[f])]_vars

\* "Cliquer sur la chip permet de prolonger ou de rendre permanent": an allow that was
\* extended before it is flipped is left alone, also when the two overlap
ExtensionHolds ==
    [][\A f \in Filter : FlippedByTimer(f) /\ Store[f].authorized => Due(Store[f])]_vars

\* Under the same condition an allow whose date has come is taken back, also when
\* the process was down at that date
ExpiryHappens ==
    \A f \in Filter : (clean /\ Due(Store[f])) ~> (~clean \/ ~Due(Store[f]))
=============================================================================
