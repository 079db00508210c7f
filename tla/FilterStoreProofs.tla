------------------------- MODULE FilterStoreProofs -------------------------
(***************************************************************************)
(* The filters, their cache and their timers, for any number of filters,   *)
(* operations, failures and crashes and any times.  What is proved of the  *)
(* cache and of the timers holds while operations do not overlap and       *)
(* queries succeed (clean), a condition that a restart sets again.         *)
(***************************************************************************)
EXTENDS FilterStore, TLAPS

-----------------------------------------------------------------------------
(* Types *)

Writes == {"create", "update", "flip", "delete"}
ToDeny == [authorized |-> {FALSE}, allowUntil |-> {NoDate}]

Commits ==
    [phase : {"commit"}, kind : {"create", "update"}, id : Filter, set : Change]
        \cup [phase : {"commit"}, kind : {"flip"}, id : Filter, set : {ToDeny}]
        \cup [phase : {"commit"}, kind : {"delete"}, id : Filter, set : {<< >>}]
Reads == [phase : {"read"}, kind : Writes, id : Filter]
Applies == [phase : {"apply"}, kind : Writes, id : Filter, snap : Filters]
Tasks == {Idle} \cup Commits \cup Reads \cup Applies

Times == [at : 0..(MaxTime + 1), last : BOOLEAN]
Boots == [phase : {"seed", "read", "entries", "ready"},
          left : SUBSET Filter, snap : Filters, flip : SUBSET Worker]

Counters == ops \in 0..MaxOps /\ faults \in 0..MaxFaults /\ crashes \in 0..MaxCrashes

FType ==
    /\ useMongo \in BOOLEAN /\ clean \in BOOLEAN
    /\ now \in 0..MaxTime
    /\ db \in Filters /\ cache \in Filters
    /\ timer \in [Filter -> Times]
    /\ task \in [Worker -> Tasks]
    /\ boot \in Boots /\ \A f \in boot.left : Temporary(boot.snap[f])
    /\ used \in SUBSET Filter
    /\ Counters

LEMMA Numbers ==
    /\ MaxTime \in Nat /\ MaxTimeout \in Nat /\ MaxTimeout > 0
    /\ MaxOps \in Nat /\ MaxFaults \in Nat /\ MaxCrashes \in Nat
BY BoundsAssumption

LEMMA ValueOrFacts ==
    /\ \A old : ValueOr(Absent, old) = old
    /\ \A x, old : ValueOr({x}, old) = x
<1>1. \A x, old : {x} # Absent
  BY DEF Absent
<1>2. \A x : (CHOOSE y \in {x} : TRUE) = x
  OBVIOUS
<1> QED BY <1>1, <1>2 DEF ValueOr

LEMMA ValueOrType ==
    ASSUME NEW S, NEW field \in Field(S), NEW old \in S PROVE ValueOr(field, old) \in S
<1>1. CASE field = Absent
  BY <1>1, ValueOrFacts
<1>2. CASE field # Absent
  <2>1. PICK x \in S : field = {x}
    BY <1>2 DEF Field
  <2> QED BY <2>1, ValueOrFacts
<1> QED BY <1>1, <1>2

LEMMA PatchedType ==
    ASSUME NEW doc \in Doc \cup {NoDoc}, NEW allowed \in Change, doc # NoDoc
    PROVE  Patched(doc, allowed) \in Doc
<1>1. /\ doc.authorized \in BOOLEAN /\ doc.allowUntil \in {NoDate} \cup Date
      /\ allowed.authorized \in Field(BOOLEAN)
      /\ allowed.allowUntil \in Field({NoDate} \cup Date)
  BY DEF Doc, Change
<1>2. /\ ValueOr(allowed.authorized, doc.authorized) \in BOOLEAN
      /\ ValueOr(allowed.allowUntil, doc.allowUntil) \in {NoDate} \cup Date
  BY <1>1, ValueOrType
<1> QED BY <1>2 DEF Patched, Doc

LEMMA DocFacts ==
    /\ Denied \in Doc /\ Denied # NoDoc
    /\ NoDoc \notin Doc
    /\ ~NoDoc.authorized /\ ~Denied.authorized
    /\ Empty \in Filters
    /\ \A d \in Filters, f \in Filter, doc \in Doc \cup {NoDoc} : [d EXCEPT ![f] = doc] \in Filters
BY Numbers DEF Denied, NoDoc, Doc, NoDate, Date, Empty, Filters

LEMMA NormalType ==
    ASSUME NEW change \in Change, NEW b
    PROVE  _normalizeAllowUntil(change, b) \in Field({NoDate} \cup Date)
BY DEF _normalizeAllowUntil, Change, Field

LEMMA AllowedType ==
    ASSUME NEW change \in Change, NEW existing PROVE Allowed(change, existing) \in Change
<1>1. {NoDate} \in Field({NoDate} \cup Date)
  BY DEF Field
<1> QED BY <1>1, NormalType DEF Allowed, Change

LEMMA ArmFacts ==
    ASSUME now \in 0..MaxTime, NEW date \in Date
    PROVE  /\ _armExpiry(date) \in Times
           /\ _armExpiry(date).at <= date
           /\ _armExpiry(date).last => _armExpiry(date).at = date
<1> USE Numbers DEF Date, Times
<1>1. CASE date <= now + MaxTimeout
  BY <1>1 DEF _armExpiry
<1>2. CASE ~(date <= now + MaxTimeout)
  BY <1>2 DEF _armExpiry
<1> QED BY <1>1, <1>2

LEMMA NoTimerFacts ==
    /\ NoTimer \in Times /\ NoTimers \in [Filter -> Times]
    /\ \A f \in Filter : NoTimers[f] = NoTimer
    /\ now \in 0..MaxTime => ~(NoTimer.at <= now)
BY Numbers DEF NoTimer, NoTimers, Times

LEMMA InitFType == Init => FType
<1> SUFFICES ASSUME Init PROVE FType
  OBVIOUS
<1> USE Numbers DEF Init, FType
<1>1. db \in Filters /\ used \in SUBSET Filter
  <2>1. PICK f \in Filter,
             doc \in {NoDoc, Denied} \cup [authorized : {TRUE}, allowUntil : {NoDate} \cup Date] :
            /\ db = [Empty EXCEPT ![f] = IF useMongo THEN doc ELSE NoDoc]
            /\ used = IF db = Empty THEN {} ELSE {f}
    OBVIOUS
  <2>2. doc \in Doc \cup {NoDoc}
    BY DocFacts DEF Doc
  <2> QED BY <2>1, <2>2, DocFacts
<1>2. cache \in Filters /\ timer \in [Filter -> Times] /\ task \in [Worker -> Tasks]
  BY DocFacts, NoTimerFacts DEF Tasks
<1>3. boot \in Boots /\ boot.left = {}
  BY DocFacts DEF Seeding, Boots
<1> QED BY <1>1, <1>2, <1>3 DEF Counters

LEMMA LaunchType ==
    ASSUME task \in [Worker -> Tasks], clean \in BOOLEAN,
           NEW w \in Worker, NEW operation \in Tasks, Launch(w, operation)
    PROVE  task' \in [Worker -> Tasks] /\ clean' \in BOOLEAN
BY DEF Launch

LEMMA FlipType == ASSUME NEW f \in Filter PROVE FlipToDeny(f) \in Tasks
BY DEF FlipToDeny, Operation, ToDeny, Tasks, Commits

LEMMA WriteMemoryType ==
    ASSUME FType, NEW f \in Filter, NEW doc \in Doc, WriteMemory(f, doc)
    PROVE  /\ cache' \in Filters /\ timer' \in [Filter -> Times]
           /\ task' = task /\ clean' = clean
<1>1. Temporary(doc) => doc.allowUntil \in Date
  BY DEF Temporary, Doc
<1>2. Temporary(doc) => _armExpiry(doc.allowUntil) \in Times
  BY <1>1, ArmFacts DEF FType
<1>3. timer' \in [Filter -> Times]
  BY <1>2, NoTimerFacts DEF WriteMemory, FType
<1>4. cache' \in Filters
  BY DocFacts DEF WriteMemory, FType
<1> QED BY <1>3, <1>4 DEF WriteMemory

LEMMA RequestType ==
    ASSUME FType, NEW w \in Worker, NEW f \in Filter, Request(w, f) PROVE FType'
<1> USE DEF FType
<1>0. AdminRequest => ops' \in 0..MaxOps
  BY Numbers DEF AdminRequest, Counters
<1>1. ASSUME NEW change \in Change, create(w, f, change) PROVE FType'
  <2> DEFINE fields == [change EXCEPT !.allowUntil =
                           _normalizeAllowUntil(change, change.authorized = {TRUE})]
  <2>1. fields \in Change
    BY NormalType DEF Change
  <2> HIDE DEF fields
  <2>2. Patched(Denied, fields) \in Doc
    BY <2>1, DocFacts, PatchedType
  <2>3. Operation("create", f, fields) \in Tasks
    BY <2>1 DEF Operation, Tasks, Commits
  <2>4. /\ task' \in [Worker -> Tasks] /\ clean' \in BOOLEAN
        /\ cache' \in Filters /\ timer' \in [Filter -> Times]
    <3>1. CASE useMongo
      BY <1>1, <3>1, <2>3, LaunchType DEF create, fields
    <3>2. CASE ~useMongo
      <4>1. WriteMemory(f, Patched(Denied, fields))
        BY <1>1, <3>2 DEF create, fields
      <4> QED BY <4>1, <2>2, WriteMemoryType
    <3> QED BY <3>1, <3>2
  <2> QED BY <1>0, <1>1, <2>4 DEF create, Counters
<1>2. ASSUME NEW change \in Change, update(w, f, change) PROVE FType'
  <2> DEFINE allowed == Allowed(change, cache[f])
  <2>1. allowed \in Change
    BY AllowedType
  <2> HIDE DEF allowed
  <2>2. Patched(cache[f], allowed) \in Doc
    BY <1>2, <2>1, PatchedType DEF update, Filters
  <2>3. Operation("update", f, allowed) \in Tasks
    BY <2>1 DEF Operation, Tasks, Commits
  <2>4. /\ task' \in [Worker -> Tasks] /\ clean' \in BOOLEAN
        /\ cache' \in Filters /\ timer' \in [Filter -> Times]
    <3>1. CASE useMongo
      BY <1>2, <3>1, <2>3, LaunchType DEF update, allowed
    <3>2. CASE ~useMongo
      <4>1. WriteMemory(f, Patched(cache[f], allowed))
        BY <1>2, <3>2 DEF update, allowed
      <4> QED BY <4>1, <2>2, WriteMemoryType
    <3> QED BY <3>1, <3>2
  <2> QED BY <1>0, <1>2, <2>4 DEF update, Counters
<1>3. CASE delete(w, f)
  <2>1. Operation("delete", f, << >>) \in Tasks
    BY DEF Operation, Tasks, Commits
  <2>2. timer' \in [Filter -> Times]
    BY <1>3, NoTimerFacts DEF delete
  <2>3. task' \in [Worker -> Tasks] /\ clean' \in BOOLEAN /\ cache' \in Filters
    <3>1. CASE useMongo
      BY <1>3, <3>1, <2>1, LaunchType DEF delete
    <3>2. CASE ~useMongo
      BY <1>3, <3>2, DocFacts DEF delete
    <3> QED BY <3>1, <3>2
  <2> QED BY <1>0, <1>3, <2>2, <2>3 DEF delete, Counters
<1> QED BY <1>1, <1>2, <1>3 DEF Request

LEMMA TimerType == ASSUME FType, NEW f \in Filter, TimerFires(f) PROVE FType'
<1> USE DEF FType
<1>1. ASSUME NEW w \in Worker, _onExpire(w, f) PROVE FType'
  <2>1. timer' \in [Filter -> Times]
    BY <1>1, NoTimerFacts DEF _onExpire
  <2>2. task' \in [Worker -> Tasks] /\ clean' \in BOOLEAN /\ cache' \in Filters
    <3>1. CASE useMongo
      BY <1>1, <3>1, FlipType, LaunchType DEF _onExpire
    <3>2. CASE ~useMongo
      BY <1>1, <3>2, DocFacts DEF _onExpire
    <3> QED BY <3>1, <3>2
  <2> QED BY <1>1, <2>1, <2>2 DEF _onExpire, bounds, Counters
<1>2. CASE ChainTimer(f)
  <2>1. Temporary(cache[f]) => cache[f].allowUntil \in Date
    BY DEF Temporary, Filters, Doc
  <2>2. timer' \in [Filter -> Times]
    BY <1>2, <2>1, ArmFacts, NoTimerFacts DEF ChainTimer
  <2> QED BY <1>2, <2>2 DEF ChainTimer, bounds, Counters
<1> QED BY <1>1, <1>2 DEF TimerFires

\* A task by its phase
LEMMA TaskShape ==
    ASSUME FType, NEW w \in Worker
    PROVE  /\ task[w].phase = "idle" => task[w] = Idle
           /\ task[w].phase = "commit" => task[w] \in Commits
           /\ task[w].phase = "read" => task[w] \in Reads
           /\ task[w].phase = "apply" => task[w] \in Applies
           /\ task[w].phase \in {"idle", "commit", "read", "apply"}
           /\ task[w].phase # "idle" => task[w].id \in Filter /\ task[w].kind \in Writes
BY DEF FType, Tasks, Idle, Commits, Reads, Applies, Writes

\* What the write of an operation makes of its document
Written(t) ==
    IF t.kind = "delete" THEN NoDoc
    ELSE IF t.kind = "create" THEN Patched(Denied, t.set)
    ELSE Patched(db[t.id], t.set)

Missing(t) == db[t.id] = NoDoc /\ t.kind # "create"

LEMMA CommitFacts ==
    ASSUME FType, NEW w \in Worker, Commit(w)
    PROVE  /\ task[w] \in Commits
           /\ Written(task[w]) \in Doc \cup {NoDoc} \/ Missing(task[w])
           /\ db' = IF Missing(task[w]) THEN db ELSE [db EXCEPT ![task[w].id] = Written(task[w])]
           /\ task' = [task EXCEPT ![w] = IF Missing(task[w]) THEN Idle
                           ELSE [phase |-> "read", kind |-> task[w].kind, id |-> task[w].id]]
           /\ UNCHANGED <<useMongo, now, cache, timer, boot, used, clean, bounds>>
<1>1. task[w] \in Commits /\ task[w].id \in Filter
  BY TaskShape DEF Commit
<1>2. CASE Missing(task[w])
  BY <1>1, <1>2 DEF Commit, Missing
<1>3. CASE ~Missing(task[w])
  <2>1. task[w].kind # "create" => db[task[w].id] \in Doc
    BY <1>1, <1>3 DEF Missing, FType, Filters
  <2>2. task[w].kind # "delete" => task[w].set \in Change
    <3>1. ToDeny \in Change
      BY DEF ToDeny, Change, Field
    <3> QED BY <1>1, <3>1 DEF Commits
  <2>3. Written(task[w]) \in Doc \cup {NoDoc}
    BY <2>1, <2>2, DocFacts, PatchedType DEF Written
  <2>4. Written(task[w]) = CASE task[w].kind = "delete" -> NoDoc
                             [] task[w].kind = "create" -> Patched(Denied, task[w].set)
                             [] OTHER -> Patched(db[task[w].id], task[w].set)
    BY DEF Written
  <2> QED BY <1>1, <1>3, <2>3, <2>4 DEF Commit, Missing
<1> QED BY <1>2, <1>3

\* The answer to the find of an operation; it settles the date of what was written
Settles(t) == t.kind \in {"create", "update"} /\ t.snap[t.id] # NoDoc

LEMMA ApplyFacts ==
    ASSUME FType, NEW w \in Worker, Apply(w)
    PROVE  /\ task[w] \in Applies
           /\ cache' = task[w].snap
           /\ timer' = [timer EXCEPT ![task[w].id] =
                  IF ~Settles(task[w]) \/ Due(task[w].snap[task[w].id]) THEN timer[task[w].id]
                  ELSE IF Temporary(task[w].snap[task[w].id])
                         THEN _armExpiry(task[w].snap[task[w].id].allowUntil) ELSE NoTimer]
           /\ task' = [task EXCEPT ![w] =
                  IF Settles(task[w]) /\ Due(task[w].snap[task[w].id])
                    THEN FlipToDeny(task[w].id) ELSE Idle]
           /\ UNCHANGED <<useMongo, now, db, boot, used, clean, bounds>>
BY TaskShape DEF Apply, Settles, FType

LEMMA TaskType ==
    ASSUME FType, NEW w \in Worker, TaskStep(w) \/ QueryFails(w) PROVE FType'
<1> USE DEF FType
<1>1. CASE Commit(w)
  <2>1. db' \in Filters
    BY <1>1, CommitFacts, DocFacts DEF Commits
  <2>2. task' \in [Worker -> Tasks]
    BY <1>1, CommitFacts, TaskShape DEF Tasks, Reads, Commit
  <2> QED BY <1>1, <2>1, <2>2 DEF Commit, bounds, Counters
<1>2. CASE Read(w)
  <2>1. [phase |-> "apply", kind |-> task[w].kind, id |-> task[w].id, snap |-> db] \in Tasks
    BY <1>2, TaskShape DEF Read, Reads, Applies, Tasks
  <2> QED BY <1>2, <2>1 DEF Read, bounds, Counters
<1>3. CASE Apply(w)
  <2> DEFINE entry == task[w].snap[task[w].id]
  <2>1. cache' \in Filters /\ task[w].id \in Filter /\ entry \in Doc \cup {NoDoc}
    BY <1>3, ApplyFacts DEF Applies, Filters
  <2>2. Temporary(entry) => entry.allowUntil \in Date
    BY <2>1 DEF Temporary, Doc
  <2>3. timer' \in [Filter -> Times]
    BY <1>3, <2>1, <2>2, ApplyFacts, ArmFacts, NoTimerFacts
  <2>4. task' \in [Worker -> Tasks]
    BY <1>3, <2>1, ApplyFacts, FlipType DEF Tasks
  <2> QED BY <1>3, <2>1, <2>3, <2>4 DEF Apply, bounds, Counters
<1>4. CASE QueryFails(w)
  <2>1. faults' \in 0..MaxFaults
    BY <1>4, Numbers DEF QueryFails, Counters
  <2> QED BY <1>4, <2>1 DEF QueryFails, Tasks, Counters
<1> QED BY <1>1, <1>2, <1>3, <1>4 DEF TaskStep

LEMMA StartType == ASSUME FType, Tick \/ BootStep \/ Crash PROVE FType'
<1> USE DEF FType
<1>1. CASE Tick
  BY <1>1, Numbers DEF Tick, bounds, Counters
<1>2. CASE Seed
  <2>1. boot' \in Boots /\ boot'.left = boot.left /\ boot'.snap = boot.snap
    BY <1>2 DEF Seed, Boots
  <2>2. db' \in Filters /\ cache' \in Filters /\ used' \in SUBSET Filter
    <3>1. \A defaults \in [Filter \ used -> {NoDoc, Denied, Permanent}] :
              [f \in Filter |-> IF f \in used THEN NoDoc ELSE defaults[f]] \in Filters
      <4>1. {NoDoc, Denied, Permanent} \subseteq Doc \cup {NoDoc}
        BY DocFacts DEF Doc, Permanent
      <4> QED BY <4>1 DEF Filters
    <3>2. CASE Store = Empty
      <4>1. PICK defaults \in [Filter \ used -> {NoDoc, Denied, Permanent}] :
                LET seeded == [f \in Filter |-> IF f \in used THEN NoDoc ELSE defaults[f]]
                IN  /\ used' = used \cup {f \in Filter : seeded[f] # NoDoc}
                    /\ db' = IF useMongo THEN seeded ELSE db
                    /\ cache' = IF useMongo THEN cache ELSE seeded
        BY <1>2, <3>2 DEF Seed
      <4>2. used' \in SUBSET Filter
        BY <4>1
      <4> QED BY <3>1, <4>1, <4>2
    <3>3. CASE Store # Empty
      BY <1>2, <3>3 DEF Seed
    <3> QED BY <3>2, <3>3
  <2> QED BY <1>2, <2>1, <2>2 DEF Seed, Temporary, bounds, Counters
<1>3. CASE BootRead
  <2>1. boot' \in Boots /\ \A f \in boot'.left : Temporary(boot'.snap[f])
    BY <1>3 DEF BootRead, Boots, Temporary
  <2> QED BY <1>3, <2>1 DEF BootRead, Temporary, bounds, Counters
<1>4. CASE Ready
  <2>1. boot' \in Boots /\ boot'.left = {}
    BY <1>4, DocFacts DEF Ready, Seeding, Boots
  <2> QED BY <1>4, <2>1 DEF Ready, bounds, Counters
<1>5. ASSUME NEW w \in Worker, NEW f \in Filter, BootEntry(w, f) PROVE FType'
  <2>1. f \in boot.left /\ boot.snap[f].allowUntil \in Date
    BY <1>5 DEF BootEntry, Boots, Filters, Doc, Temporary
  <2>2. /\ boot' \in Boots /\ boot'.left \subseteq boot.left /\ boot'.snap = boot.snap
        /\ \A g \in boot'.left : Temporary(boot'.snap[g])
    <3>1. PICK done \in SUBSET Worker : boot' = [boot EXCEPT !.left = boot.left \ {f}, !.flip = done]
      BY <1>5 DEF BootEntry
    <3>2. boot' \in Boots /\ boot'.left \subseteq boot.left /\ boot'.snap = boot.snap
      BY <3>1 DEF Boots
    <3> QED BY <3>2
  <2>3. CASE Due(boot.snap[f])
    BY <1>5, <2>2, <2>3, FlipType, LaunchType DEF BootEntry, Temporary, bounds, Counters
  <2>4. CASE ~Due(boot.snap[f])
    <3>1. timer' = [timer EXCEPT ![f] = _armExpiry(boot.snap[f].allowUntil)]
      BY <1>5, <2>4 DEF BootEntry
    <3>2. timer' \in [Filter -> Times]
      BY <2>1, <3>1, ArmFacts
    <3> QED BY <1>5, <2>2, <2>4, <3>2 DEF BootEntry, bounds, Counters
  <2> QED BY <2>3, <2>4
<1>6. CASE Crash
  <2>1. /\ boot' \in Boots /\ boot'.left = {}
        /\ cache' \in Filters /\ timer' \in [Filter -> Times]
    BY <1>6, DocFacts, NoTimerFacts DEF Crash, Seeding, Boots
  <2>2. crashes' \in 0..MaxCrashes
    BY <1>6, Numbers DEF Crash, Counters
  <2>3. task' \in [Worker -> Tasks]
    BY <1>6 DEF Crash, Tasks
  <2> QED BY <1>6, <2>1, <2>2, <2>3 DEF Crash, Counters
<1> QED BY <1>1, <1>2, <1>3, <1>4, <1>5, <1>6 DEF BootStep

LEMMA StutterType == ASSUME FType, UNCHANGED vars PROVE FType'
BY DEF FType, vars, Counters, Temporary

LEMMA NextType == FType /\ [Next]_vars => FType'
BY RequestType, TimerType, TaskType, StartType, StutterType DEF Next

-----------------------------------------------------------------------------
(* The inductive invariant *)

Up == boot.phase \in {"entries", "ready"}

\* Nothing runs before the cache is loaded, and in memory nothing ever waits
Booting ==
    /\ ~Up => InFlight = {} /\ timer = NoTimers
    /\ ~useMongo => InFlight = {} /\ boot.phase \in {"seed", "ready"}
    /\ boot.phase # "entries" => boot.left = {}
    /\ ~useMongo /\ boot.phase = "seed" => cache = Empty

\* An operation is about f; it has written, and the cache does not show it
Busy(f) == \E w \in Worker : task[w].phase # "idle" /\ task[w].id = f
Dirty(f) == \E w \in Worker : task[w].phase \in {"read", "apply"} /\ task[w].id = f

\* The timer a filter should have; a deny may keep a timer, which does nothing to it
TimerRight(doc, t) ==
    /\ Temporary(doc) => t.at <= doc.allowUntil /\ (t.last => t.at = doc.allowUntil)
    /\ doc.authorized /\ ~Temporary(doc) => t = NoTimer

\* An operation that runs alone knows what it finds
TaskRight(t) ==
    /\ t.phase = "apply" => t.snap = db
    /\ t.phase \in {"read", "apply"} /\ t.kind \in {"flip", "delete"} => ~db[t.id].authorized
    /\ t.phase = "commit" /\ t.kind = "flip" => (db[t.id].authorized => Due(db[t.id]))
    /\ t.phase = "commit" /\ t.kind \in {"create", "update"} =>
           (Missing(t) \/ Coherent(Written(t)) \/ ~Coherent(db[t.id]))

OneTask == \A v, w \in InFlight : v = w
TasksRight == \A w \in Worker : TaskRight(task[w])
Agree == useMongo /\ Up => \A f \in Filter : ~Dirty(f) => cache[f] = db[f]
TimersRight ==
    Up => \A f \in Filter : ~Busy(f) /\ f \notin boot.left => TimerRight(Store[f], timer[f])
EntriesRight ==
    \A f \in boot.left : ~Busy(f) /\ boot.snap[f] = db[f] /\ timer[f] = NoTimer

CleanInv == OneTask /\ TasksRight /\ Agree /\ TimersRight /\ EntriesRight

FInv == FType /\ Booting /\ (clean => CleanInv)

LEMMA IdleFacts ==
    /\ TaskRight(Idle)
    /\ Idle.phase = "idle"
BY DEF Idle, TaskRight

LEMMA NobodyBusy ==
    ASSUME InFlight = {}
    PROVE  \A f : ~Busy(f) /\ ~Dirty(f)
BY DEF InFlight, Busy, Dirty

LEMMA DenyIsRight ==
    /\ \A t : TimerRight(NoDoc, t)
    /\ \A t : TimerRight(Denied, t)
BY DocFacts DEF TimerRight, Temporary

\* A process that starts: nothing runs and nothing is armed
Starts ==
    /\ boot.phase = "seed" /\ boot.left = {}
    /\ task = [w \in Worker |-> Idle] /\ timer = NoTimers /\ cache = Empty

LEMMA StartsRight == Starts => Booting /\ CleanInv
<1> SUFFICES ASSUME Starts PROVE Booting /\ CleanInv
  OBVIOUS
<1> USE DEF Starts
<1>1. InFlight = {}
  BY IdleFacts DEF InFlight
<1>2. TasksRight
  BY IdleFacts DEF TasksRight
<1> QED BY <1>1, <1>2
        DEF Booting, Up, CleanInv, OneTask, Agree, TimersRight, EntriesRight

LEMMA InitFInv == Init => FInv
<1> SUFFICES ASSUME Init PROVE FInv
  OBVIOUS
<1>1. Starts
  BY DEF Init, Seeding, Starts
<1> QED BY <1>1, InitFType, StartsRight DEF FInv

-----------------------------------------------------------------------------
(* Operations that begin *)

\* An operation that begins alone keeps what is right, if it is right itself
LEMMA LaunchRight ==
    ASSUME FInv, FType', useMongo, Up,
           NEW w \in Worker, NEW operation \in Commits, Launch(w, operation),
           clean' => TaskRight(operation)',
           UNCHANGED <<useMongo, now, db, cache>>,
           boot'.phase = boot.phase, boot'.snap = boot.snap,
           boot'.left \subseteq boot.left,
           clean' => boot'.left = boot.left \ {operation.id},
           \A g \in Filter : g # operation.id => timer'[g] = timer[g]
    PROVE  Booting' /\ (clean' => CleanInv')
<1> USE DEF FInv
<1>1. Booting'
  BY DEF Booting, Up
<1>2. ASSUME clean' PROVE CleanInv'
  <2>1. clean /\ InFlight = {}
    BY <1>2 DEF Launch
  <2>2. CleanInv
    BY <2>1
  <2>3. /\ \A x \in Worker : task[x].phase = "idle"
        /\ \A x \in Worker : x # w => task'[x] = task[x]
        /\ task'[w] = operation
        /\ operation.phase = "commit" /\ operation.id \in Filter
    BY <2>1 DEF InFlight, Launch, FType, Commits
  <2>4. /\ InFlight' = {w}
        /\ \A f : Busy(f)' <=> f = operation.id
        /\ \A f : ~Dirty(f)'
    BY <2>3 DEF InFlight, Busy, Dirty
  <2>5. OneTask'
    BY <2>4 DEF OneTask
  <2>6. TasksRight'
    <3> SUFFICES ASSUME NEW x \in Worker PROVE TaskRight(task[x])'
      BY DEF TasksRight
    <3>1. CASE x = w
      BY <1>2, <2>3, <3>1 DEF TaskRight, Missing, Written
    <3>2. CASE x # w
      BY <2>3, <3>2 DEF TaskRight
    <3> QED BY <3>1, <3>2
  <2>7. Agree'
    BY <2>1, <2>2, <2>4, NobodyBusy DEF CleanInv, Agree, Up
  <2>8. TimersRight'
    <3> SUFFICES ASSUME NEW f \in Filter, ~Busy(f)', f \notin boot'.left
                 PROVE  TimerRight(Store'[f], timer'[f])
      BY DEF TimersRight
    <3>1. f # operation.id /\ f \notin boot.left /\ Store' = Store
      BY <1>2, <2>4 DEF Store
    <3> QED BY <2>1, <2>2, <3>1, NobodyBusy DEF CleanInv, TimersRight
  <2>9. EntriesRight'
    BY <1>2, <2>1, <2>2, <2>4, NobodyBusy DEF CleanInv, EntriesRight, FType, Boots
  <2> QED BY <2>5, <2>6, <2>7, <2>8, <2>9 DEF CleanInv
<1> QED BY <1>1, <1>2

\* In memory a change is a single step, right by itself
LEMMA MemoryRight ==
    ASSUME FInv, ~useMongo, Up, NEW f \in Filter,
           UNCHANGED <<useMongo, now, db, boot, task, clean>>,
           \A g \in Filter : g # f => cache'[g] = cache[g] /\ timer'[g] = timer[g],
           TimerRight(cache'[f], timer'[f])
    PROVE  Booting' /\ (clean' => CleanInv')
<1> USE DEF FInv
<1>1. boot.phase = "ready" /\ boot.left = {} /\ InFlight = {} /\ InFlight' = {}
  BY DEF Booting, Up, InFlight
<1>2. Booting'
  BY <1>1 DEF Booting, Up
<1>3. \A x \in Worker : task[x].phase = "idle"
  BY <1>1 DEF InFlight
<1>4. ASSUME clean PROVE CleanInv'
  <2>1. OneTask' /\ Agree' /\ EntriesRight'
    BY <1>1 DEF OneTask, Agree, EntriesRight
  <2>2. TasksRight'
    BY <1>3 DEF TasksRight, TaskRight
  <2>3. TimersRight'
    <3> SUFFICES ASSUME NEW g \in Filter PROVE TimerRight(cache'[g], timer'[g])
      BY DEF TimersRight, Store
    <3>1. TimerRight(cache[g], timer[g])
      BY <1>1, <1>4, NobodyBusy DEF CleanInv, TimersRight, Store
    <3> QED BY <3>1
  <2> QED BY <2>1, <2>2, <2>3 DEF CleanInv
<1> QED BY <1>2, <1>4

LEMMA WriteMemoryRight ==
    ASSUME FType, NEW f \in Filter, NEW doc \in Doc, WriteMemory(f, doc)
    PROVE  /\ \A g \in Filter : g # f => cache'[g] = cache[g] /\ timer'[g] = timer[g]
           /\ TimerRight(cache'[f], timer'[f])
<1>1. /\ \A g \in Filter : g # f => cache'[g] = cache[g] /\ timer'[g] = timer[g]
      /\ cache'[f] = IF Due(doc) THEN Denied ELSE doc
      /\ ~Due(doc) => timer'[f] = IF Temporary(doc) THEN _armExpiry(doc.allowUntil) ELSE NoTimer
  BY DEF WriteMemory, FType, Filters
<1>2. Temporary(doc) => doc.allowUntil \in Date
  BY DEF Temporary, Doc
<1> QED BY <1>1, <1>2, ArmFacts, DenyIsRight DEF TimerRight, FType

LEMMA FieldCases ==
    ASSUME NEW S, NEW field \in Field(S) PROVE field = Absent \/ \E x \in S : field = {x}
BY DEF Field

\* A created filter that denies has no date
LEMMA CreateCoherent ==
    ASSUME NEW change \in Change, change.authorized # Absent
    PROVE  Coherent(Patched(Denied, [change EXCEPT !.allowUntil =
               _normalizeAllowUntil(change, change.authorized = {TRUE})]))
<1> DEFINE fields == [change EXCEPT !.allowUntil =
                         _normalizeAllowUntil(change, change.authorized = {TRUE})]
           doc == Patched(Denied, fields)
<1>1. /\ fields.authorized = change.authorized
      /\ fields.allowUntil = _normalizeAllowUntil(change, change.authorized = {TRUE})
  BY DEF Change
<1> HIDE DEF fields
<1>2. PICK b \in BOOLEAN : change.authorized = {b}
  BY FieldCases DEF Change
<1>3. /\ doc.authorized = ValueOr(fields.authorized, FALSE)
      /\ doc.allowUntil = ValueOr(fields.allowUntil, NoDate)
  BY DEF Patched, Denied
<1> HIDE DEF doc
<1>4. ASSUME b = FALSE PROVE Coherent(doc)
  <2>1. change.authorized # {TRUE}
    BY <1>2, <1>4
  <2>2. fields.allowUntil = Absent \/ fields.allowUntil = {NoDate}
    BY <1>1, <2>1 DEF _normalizeAllowUntil
  <2> QED BY <1>3, <2>2, ValueOrFacts DEF Coherent
<1>5. ASSUME b = TRUE PROVE Coherent(doc)
  <2>1. ValueOr({b}, FALSE) = b
    BY ValueOrFacts
  <2> QED BY <1>1, <1>2, <1>3, <1>5, <2>1 DEF Coherent
<1>6. Coherent(doc)
  BY <1>2, <1>4, <1>5
<1> QED BY <1>6 DEF doc, fields

\* A patch of a filter that has no date unless it allows leaves it so
LEMMA UpdateCoherent ==
    ASSUME NEW change \in Change, NEW existing \in Doc, Coherent(existing)
    PROVE  Coherent(Patched(existing, Allowed(change, existing)))
<1> DEFINE allowed == Allowed(change, existing)
           doc == Patched(existing, allowed)
           effective == ValueOr(change.authorized, existing.authorized)
<1>1. /\ allowed.authorized = change.authorized
      /\ allowed.allowUntil = IF change.allowUntil = Absent /\ change.authorized = {FALSE}
                                THEN {NoDate} ELSE _normalizeAllowUntil(change, effective)
  BY DEF Allowed
<1> HIDE DEF allowed
<1>2. /\ doc.authorized = effective
      /\ doc.allowUntil = ValueOr(allowed.allowUntil, existing.allowUntil)
  BY <1>1 DEF Patched
<1>3. effective \in BOOLEAN
  BY ValueOrType DEF Change, Doc
<1>4. ASSUME effective = FALSE PROVE doc.allowUntil = NoDate
  <2>1. CASE change.allowUntil = Absent /\ change.authorized = {FALSE}
    BY <2>1, <1>1, <1>2, ValueOrFacts
  <2>2. CASE change.allowUntil = Absent /\ change.authorized # {FALSE}
    <3>1. change.authorized = Absent
      <4>1. SUFFICES ASSUME change.authorized # Absent PROVE FALSE
        OBVIOUS
      <4>2. PICK b \in BOOLEAN : change.authorized = {b}
        BY <4>1, FieldCases DEF Change
      <4>3. ValueOr({b}, existing.authorized) = b
        BY ValueOrFacts
      <4>4. b = FALSE
        BY <1>4, <4>2, <4>3
      <4> QED BY <2>2, <4>2, <4>4
    <3>2. existing.authorized = FALSE
      BY <1>4, <3>1, ValueOrFacts
    <3>3. existing.allowUntil = NoDate
      BY <3>2, DocFacts DEF Coherent
    <3>4. allowed.allowUntil = Absent
      BY <1>1, <2>2 DEF _normalizeAllowUntil
    <3> QED BY <3>3, <3>4, <1>2, ValueOrFacts
  <2>3. CASE change.allowUntil # Absent
    <3>1. allowed.allowUntil = {NoDate}
      BY <1>1, <1>4, <2>3 DEF _normalizeAllowUntil
    <3> QED BY <3>1, <1>2, ValueOrFacts
  <2> QED BY <2>1, <2>2, <2>3
<1> HIDE DEF effective
<1>5. doc.authorized = TRUE \/ doc.allowUntil = NoDate
  BY <1>2, <1>3, <1>4
<1> QED BY <1>5 DEF Coherent, allowed

\* With nothing in flight the cache is the collection
LEMMA CacheIsDb ==
    ASSUME FInv, clean, useMongo, Up, InFlight = {}
    PROVE  cache = db
<1>1. \A f \in Filter : cache[f] = db[f]
  BY NobodyBusy DEF FInv, CleanInv, Agree
<1> QED BY <1>1 DEF FInv, FType, Filters

LEMMA RequestRight ==
    ASSUME FInv, NEW w \in Worker, NEW f \in Filter, Request(w, f) PROVE FInv'
<1> USE DEF FInv
<1>0. FType'
  BY RequestType
<1>1. boot.phase = "ready" /\ Up /\ boot.left = {} /\ boot' = boot
  BY DEF Request, create, update, delete, AdminRequest, Booting, Up
<1>2. ASSUME useMongo, NEW operation \in Commits, Launch(w, operation), operation.id = f,
             clean' => TaskRight(operation)', UNCHANGED <<useMongo, now, db, cache>>,
             \A g \in Filter : g # f => timer'[g] = timer[g]
      PROVE  FInv'
  BY <1>0, <1>1, <1>2, LaunchRight
<1>3. ASSUME ~useMongo, UNCHANGED <<useMongo, now, db, task, clean>>,
             \A g \in Filter : g # f => cache'[g] = cache[g] /\ timer'[g] = timer[g],
             TimerRight(cache'[f], timer'[f])
      PROVE  FInv'
  BY <1>0, <1>1, <1>3, MemoryRight
<1>4. ASSUME NEW change \in Change, create(w, f, change) PROVE FInv'
  <2> DEFINE fields == [change EXCEPT !.allowUntil =
                           _normalizeAllowUntil(change, change.authorized = {TRUE})]
             operation == Operation("create", f, fields)
  <2>1. fields \in Change
    BY NormalType DEF Change
  <2>2. Coherent(Patched(Denied, fields))
    BY <1>4, CreateCoherent DEF create
  <2>3. CASE useMongo
    <3>1. Launch(w, operation) /\ UNCHANGED <<useMongo, now, db, cache, timer>>
      BY <1>4, <2>3 DEF create
    <3> HIDE DEF fields
    <3>2. /\ operation \in Commits /\ operation.id = f /\ operation.kind = "create"
          /\ operation.phase = "commit" /\ operation.set = fields
      BY <2>1 DEF Operation, Commits
    <3> HIDE DEF operation
    <3>3. TaskRight(operation)'
      BY <2>2, <3>2 DEF TaskRight, Written
    <3> QED BY <1>2, <2>3, <3>1, <3>2, <3>3
  <2>4. CASE ~useMongo
    <3>1. WriteMemory(f, Patched(Denied, fields)) /\ UNCHANGED <<useMongo, now, db>>
      BY <1>4, <2>4 DEF create
    <3> HIDE DEF fields
    <3>2. Patched(Denied, fields) \in Doc
      BY <2>1, DocFacts, PatchedType
    <3>3. task' = task /\ clean' = clean
      BY <3>1 DEF WriteMemory
    <3> QED BY <1>3, <2>4, <3>1, <3>2, <3>3, WriteMemoryRight
  <2> QED BY <2>3, <2>4
<1>5. ASSUME NEW change \in Change, update(w, f, change) PROVE FInv'
  <2>0. cache[f] \in Doc
    BY <1>5 DEF update, FType, Filters
  <2>1. PICK allowed \in Change : allowed = Allowed(change, cache[f])
    BY AllowedType
  <2> DEFINE operation == Operation("update", f, allowed)
  <2>2. Coherent(cache[f]) => Coherent(Patched(cache[f], allowed))
    BY <2>0, <2>1, UpdateCoherent
  <2>3. CASE useMongo
    <3>1. Launch(w, operation) /\ UNCHANGED <<useMongo, now, db, cache, timer>>
      BY <1>5, <2>1, <2>3 DEF update
    <3>2. /\ operation \in Commits /\ operation.id = f /\ operation.kind = "update"
          /\ operation.phase = "commit" /\ operation.set = allowed
      BY <2>1 DEF Operation, Commits
    <3> HIDE DEF operation
    <3>3. ASSUME clean' PROVE TaskRight(operation)'
      <4>1. cache = db
        BY <1>1, <2>3, <3>1, <3>3, CacheIsDb DEF Launch
      <4>2. /\ Written(operation)' = Patched(db[f], allowed)
            /\ db' = db
        BY <3>1, <3>2 DEF Written
      <4>3. Coherent(db[f]) => Coherent(Written(operation)')
        BY <2>2, <4>1, <4>2
      <4>4. Coherent(Written(operation))' \/ ~Coherent(db'[operation.id])
        BY <3>2, <4>2, <4>3 DEF Coherent
      <4> QED BY <3>2, <4>4 DEF TaskRight, Coherent
    <3> QED BY <1>2, <2>3, <3>1, <3>2, <3>3
  <2>4. CASE ~useMongo
    <3>1. WriteMemory(f, Patched(cache[f], allowed)) /\ UNCHANGED <<useMongo, now, db>>
      BY <1>5, <2>1, <2>4 DEF update
    <3>2. Patched(cache[f], allowed) \in Doc
      BY <2>0, DocFacts, PatchedType
    <3>3. task' = task /\ clean' = clean
      BY <3>1 DEF WriteMemory
    <3> QED BY <1>3, <2>4, <3>1, <3>2, <3>3, WriteMemoryRight
  <2> QED BY <2>3, <2>4
<1>6. CASE delete(w, f)
  <2> DEFINE operation == Operation("delete", f, << >>)
  <2>1. /\ operation \in Commits /\ operation.id = f /\ operation.kind = "delete"
        /\ operation.phase = "commit"
    BY DEF Operation, Commits
  <2>2. /\ \A g \in Filter : g # f => timer'[g] = timer[g]
        /\ UNCHANGED <<useMongo, now, db>>
    BY <1>6 DEF delete, FType
  <2>3. CASE useMongo
    <3>1. Launch(w, operation) /\ cache' = cache
      BY <1>6, <2>3 DEF delete
    <3> HIDE DEF operation
    <3>2. TaskRight(operation)'
      BY <2>1 DEF TaskRight
    <3> QED BY <1>2, <2>1, <2>2, <2>3, <3>1, <3>2
  <2>4. CASE ~useMongo
    <3>1. /\ \A g \in Filter : g # f => cache'[g] = cache[g]
          /\ cache'[f] = NoDoc /\ UNCHANGED <<task, clean>>
      BY <1>6, <2>4 DEF delete, FType, Filters
    <3> QED BY <1>3, <2>2, <2>4, <3>1, DenyIsRight
  <2> QED BY <2>3, <2>4
<1> QED BY <1>4, <1>5, <1>6 DEF Request

-----------------------------------------------------------------------------
(* Timers *)

\* What a step that leaves operations, collection and clock alone leaves right
LEMMA TasksAlone ==
    ASSUME UNCHANGED <<task, db, now>>
    PROVE  /\ InFlight' = InFlight /\ OneTask' = OneTask /\ TasksRight' = TasksRight
           /\ \A f : Busy(f)' = Busy(f) /\ Dirty(f)' = Dirty(f)
<1>1. TasksRight' = TasksRight
  BY DEF TasksRight, TaskRight, Missing, Written, Due
<1>2. InFlight' = InFlight
  BY DEF InFlight
<1>3. OneTask' = OneTask
  BY <1>2 DEF OneTask
<1> QED BY <1>1, <1>2, <1>3 DEF Busy, Dirty

\* A timer that runs out was armed, after the start
LEMMA FiringTimer ==
    ASSUME FInv, NEW f \in Filter, timer[f].at <= now
    PROVE  /\ Up /\ timer[f] # NoTimer
           /\ clean => f \notin boot.left
<1>1. timer[f] # NoTimer
  BY NoTimerFacts DEF FInv, FType
<1>2. Up
  BY <1>1, NoTimerFacts DEF FInv, Booting
<1> QED BY <1>1, <1>2 DEF FInv, CleanInv, EntriesRight

LEMMA ExpireRight ==
    ASSUME FInv, NEW w \in Worker, NEW f \in Filter, _onExpire(w, f) PROVE FInv'
<1> USE DEF FInv
<1>0. FType'
  BY TimerType DEF TimerFires
<1>1. /\ timer[f].last /\ timer[f].at <= now
      /\ \A g \in Filter : g # f => timer'[g] = timer[g]
      /\ UNCHANGED <<useMongo, now, db, boot>>
  BY DEF _onExpire, FType
<1>2. Up /\ timer[f] # NoTimer /\ (clean => f \notin boot.left)
  BY <1>1, FiringTimer
<1>3. CASE useMongo
  <2>1. PICK operation \in Commits : operation = FlipToDeny(f)
    BY DEF FlipToDeny, Operation, ToDeny, Commits
  <2>2. /\ operation.id = f /\ operation.kind = "flip" /\ operation.phase = "commit"
    BY <2>1 DEF FlipToDeny, Operation
  <2>3. Launch(w, operation) /\ cache' = cache
    BY <1>3, <2>1 DEF _onExpire
  <2>4. ASSUME clean' PROVE TaskRight(operation)'
    <3>1. clean /\ InFlight = {}
      BY <2>3, <2>4 DEF Launch
    <3>2. TimerRight(db[f], timer[f])
      BY <1>2, <1>3, <3>1, NobodyBusy DEF CleanInv, TimersRight, Store
    <3>3. db[f].authorized => Due(db[f])
      BY <1>1, <1>2, <3>2 DEF TimerRight, Due
    <3>4. (db[f].authorized => Due(db[f]))'
      BY <1>1, <3>3 DEF Due
    <3> QED BY <2>2, <3>4 DEF TaskRight
  <2>5. clean' => clean
    BY <2>3 DEF Launch
  <2>6. boot'.left \subseteq boot.left /\ (clean' => boot'.left = boot.left \ {f})
    BY <1>1, <1>2, <2>5
  <2> QED BY <1>0, <1>1, <1>2, <1>3, <2>2, <2>3, <2>4, <2>6, LaunchRight
<1>4. CASE ~useMongo
  <2>1. /\ \A g \in Filter : g # f => cache'[g] = cache[g]
        /\ cache'[f] \in {NoDoc, Denied}
        /\ UNCHANGED <<task, clean>>
    BY <1>4 DEF _onExpire, FType, Filters
  <2>2. TimerRight(cache'[f], timer'[f])
    BY <2>1, DenyIsRight
  <2> QED BY <1>0, <1>1, <1>2, <1>4, <2>1, <2>2, MemoryRight
<1> QED BY <1>3, <1>4

LEMMA ChainRight == ASSUME FInv, NEW f \in Filter, ChainTimer(f) PROVE FInv'
<1> USE DEF FInv
<1>0. FType'
  BY TimerType DEF TimerFires
<1>1. /\ timer[f].at <= now
      /\ \A g \in Filter : g # f => timer'[g] = timer[g]
      /\ timer'[f] = IF Temporary(cache[f]) THEN _armExpiry(cache[f].allowUntil) ELSE NoTimer
      /\ UNCHANGED <<useMongo, now, db, cache, task, boot, clean>>
  BY DEF ChainTimer, FType
<1>2. Up /\ (clean => f \notin boot.left)
  BY <1>1, FiringTimer
<1>3. Booting'
  BY <1>1, <1>2, TasksAlone DEF Booting, Up
<1>4. TimerRight(cache[f], timer'[f])
  <2>1. Temporary(cache[f]) => cache[f].allowUntil \in Date
    BY DEF FType, Filters, Doc, Temporary
  <2> QED BY <1>1, <2>1, ArmFacts DEF TimerRight, FType
<1>5. ASSUME clean PROVE CleanInv'
  <2>1. CleanInv
    BY <1>5
  <2>2. OneTask' /\ TasksRight' /\ Agree' /\ EntriesRight'
    BY <1>1, <1>2, <1>5, <2>1, TasksAlone DEF CleanInv, Agree, EntriesRight, Up, FType, Boots
  <2>3. TimersRight'
    <3> SUFFICES ASSUME NEW g \in Filter, ~Busy(g)', g \notin boot'.left
                 PROVE  TimerRight(Store'[g], timer'[g])
      BY DEF TimersRight
    <3>1. ~Busy(g) /\ ~Dirty(g) /\ g \notin boot.left /\ Store' = Store
      BY <1>1, TasksAlone DEF Busy, Dirty, Store
    <3>2. CASE g = f
      <4>1. Store[f] = cache[f]
        BY <1>2, <2>1, <3>1, <3>2 DEF CleanInv, Agree, Store
      <4> QED BY <1>4, <3>1, <3>2, <4>1
    <3>3. CASE g # f
      BY <1>1, <1>2, <2>1, <3>1, <3>3 DEF CleanInv, TimersRight
    <3> QED BY <3>2, <3>3
  <2> QED BY <2>2, <2>3 DEF CleanInv
<1> QED BY <1>0, <1>1, <1>3, <1>5

-----------------------------------------------------------------------------
(* The queries of an operation *)

\* An operation in flight, and what is known of it when it runs alone
LEMMA Alone ==
    ASSUME FInv, NEW w \in Worker, task[w].phase # "idle"
    PROVE  /\ useMongo /\ Up /\ task[w].id \in Filter
           /\ clean => /\ CleanInv /\ TaskRight(task[w]) /\ task[w].id \notin boot.left
                       /\ \A x \in Worker : x # w => task[x].phase = "idle"
                       /\ \A g : Busy(g) <=> g = task[w].id
                       /\ \A g : Dirty(g) => task[w].phase # "commit" /\ g = task[w].id
<1> USE DEF FInv
<1>1. w \in InFlight
  BY DEF InFlight
<1>2. useMongo /\ Up /\ task[w].id \in Filter
  BY <1>1, TaskShape DEF Booting
<1>3. ASSUME clean
      PROVE  /\ \A x \in Worker : x # w => task[x].phase = "idle"
             /\ \A g : Busy(g) <=> g = task[w].id
             /\ \A g : Dirty(g) => task[w].phase # "commit" /\ g = task[w].id
  <2>1. \A x \in Worker : x # w => task[x].phase = "idle"
    BY <1>1, <1>3 DEF CleanInv, OneTask, InFlight
  <2> QED BY <2>1 DEF Busy, Dirty
<1>4. ASSUME clean PROVE task[w].id \notin boot.left
  BY <1>3, <1>4 DEF CleanInv, EntriesRight
<1> QED BY <1>2, <1>3, <1>4 DEF CleanInv, TasksRight

\* A step of an operation, and what it has to leave right when it runs alone
LEMMA StepRight ==
    ASSUME FInv, NEW w \in Worker, task[w].phase # "idle",
           UNCHANGED <<useMongo, now, boot, clean>>,
           \A x \in Worker : x # w => task'[x] = task[x],
           task'[w].phase # "idle" => task'[w].id = task[w].id,
           \A g \in Filter : g # task[w].id => db'[g] = db[g] /\ timer'[g] = timer[g],
           clean => /\ TaskRight(task[w])'
                    /\ \A g \in Filter : cache'[g] = db'[g] \/
                           (g = task[w].id /\ task'[w].phase \in {"read", "apply"})
                    /\ task'[w].phase # "idle" \/ TimerRight(db'[task[w].id], timer'[task[w].id])
    PROVE  Booting' /\ (clean' => CleanInv')
<1> USE DEF FInv
<1>1. useMongo /\ Up /\ task[w].id \in Filter
  BY Alone
<1>2. Booting'
  BY <1>1 DEF Booting, Up
<1>3. ASSUME clean PROVE CleanInv'
  <2>1. /\ CleanInv /\ task[w].id \notin boot.left
        /\ \A x \in Worker : x # w => task[x].phase = "idle"
        /\ \A g : Busy(g) <=> g = task[w].id
    BY <1>3, Alone
  <2>2. \A x \in Worker : x # w => task'[x].phase = "idle"
    BY <2>1
  <2>3. OneTask'
    BY <2>2 DEF OneTask, InFlight
  <2>4. TasksRight'
    <3> SUFFICES ASSUME NEW x \in Worker PROVE TaskRight(task[x])'
      BY DEF TasksRight
    <3>1. CASE x = w
      BY <1>3, <3>1
    <3>2. CASE x # w
      BY <2>2, <3>2 DEF TaskRight
    <3> QED BY <3>1, <3>2
  <2>5. \A g : Busy(g)' <=> g = task[w].id /\ task'[w].phase # "idle"
    BY <2>2 DEF Busy
  <2>6. Agree'
    BY <1>1, <1>3 DEF Agree, Dirty
  <2>7. TimersRight'
    <3> SUFFICES ASSUME NEW g \in Filter, ~Busy(g)', g \notin boot.left
                 PROVE  TimerRight(db'[g], timer'[g])
      BY <1>1 DEF TimersRight, Store
    <3>1. CASE g = task[w].id
      BY <1>3, <2>5, <3>1
    <3>2. CASE g # task[w].id
      <4>1. TimerRight(db[g], timer[g])
        BY <1>1, <2>1, <3>2 DEF CleanInv, TimersRight, Store
      <4> QED BY <3>2, <4>1
    <3> QED BY <3>1, <3>2
  <2>8. EntriesRight'
    <3> SUFFICES ASSUME NEW g \in boot.left
                 PROVE  ~Busy(g)' /\ boot.snap[g] = db'[g] /\ timer'[g] = NoTimer
      BY DEF EntriesRight
    <3>1. g # task[w].id /\ g \in Filter
      BY <2>1 DEF FType, Boots
    <3> QED BY <2>1, <2>5, <3>1 DEF CleanInv, EntriesRight
  <2> QED BY <2>3, <2>4, <2>6, <2>7, <2>8 DEF CleanInv
<1> QED BY <1>2, <1>3

LEMMA CommitRight == ASSUME FInv, NEW w \in Worker, Commit(w) PROVE FInv'
<1> USE DEF FInv
<1>0. FType'
  BY TaskType DEF TaskStep
<1> DEFINE f == task[w].id
<1>1. /\ task[w].phase = "commit" /\ task[w] \in Commits /\ f \in Filter
      /\ UNCHANGED <<useMongo, now, boot, clean, cache, timer>>
  BY CommitFacts, TaskShape DEF Commit
<1>2. /\ task' = [task EXCEPT ![w] = IF Missing(task[w]) THEN Idle
                      ELSE [phase |-> "read", kind |-> task[w].kind, id |-> f]]
      /\ db' = IF Missing(task[w]) THEN db ELSE [db EXCEPT ![f] = Written(task[w])]
  BY CommitFacts
<1>3. /\ \A x \in Worker : x # w => task'[x] = task[x]
      /\ \A g \in Filter : g # f => db'[g] = db[g] /\ timer'[g] = timer[g]
  BY <1>1, <1>2 DEF FType, Filters
<1>4. clean => CleanInv /\ useMongo /\ Up /\ \A g \in Filter : cache[g] = db[g]
  BY <1>1, Alone DEF CleanInv, Agree
<1>5. CASE Missing(task[w])
  <2>1. task'[w] = Idle /\ db' = db /\ db[f] = NoDoc
    BY <1>2, <1>5 DEF Missing, FType
  <2>2. task'[w].phase = "idle" /\ TaskRight(task[w])'
    BY <2>1 DEF Idle, TaskRight
  <2>3. TimerRight(db'[f], timer'[f])
    BY <2>1, DenyIsRight
  <2> QED BY <1>0, <1>1, <1>3, <1>4, <2>1, <2>2, <2>3, StepRight
<1>6. CASE ~Missing(task[w])
  <2>1. /\ task'[w].phase = "read" /\ task'[w].kind = task[w].kind /\ task'[w].id = f
        /\ db'[f] = Written(task[w])
    BY <1>1, <1>2, <1>6 DEF FType, Filters
  <2>2. task[w].kind \in {"flip", "delete"} => ~Written(task[w]).authorized
    <3>1. CASE task[w].kind = "delete"
      BY <3>1, DocFacts DEF Written
    <3>2. CASE task[w].kind = "flip"
      <4>1. task[w].set = ToDeny
        BY <1>1, <3>2 DEF Commits
      <4>2. Written(task[w]).authorized = ValueOr({FALSE}, db[f].authorized)
        BY <3>2, <4>1 DEF Written, Patched, ToDeny
      <4>3. ValueOr({FALSE}, db[f].authorized) = FALSE
        BY ValueOrFacts
      <4> QED BY <4>2, <4>3
    <3> QED BY <3>1, <3>2
  <2>3. TaskRight(task[w])'
    BY <2>1, <2>2 DEF TaskRight
  <2> QED BY <1>0, <1>1, <1>3, <1>4, <2>1, <2>3, StepRight
<1> QED BY <1>5, <1>6

LEMMA ReadRight == ASSUME FInv, NEW w \in Worker, Read(w) PROVE FInv'
<1> USE DEF FInv
<1>0. FType'
  BY TaskType DEF TaskStep
<1>1. /\ task[w].phase = "read"
      /\ task'[w] = [phase |-> "apply", kind |-> task[w].kind, id |-> task[w].id, snap |-> db]
      /\ \A x \in Worker : x # w => task'[x] = task[x]
      /\ UNCHANGED <<useMongo, now, boot, clean, cache, timer, db>>
  BY DEF Read, FType
<1>2. clean => /\ TaskRight(task[w]) /\ useMongo /\ Up
               /\ \A g \in Filter : g # task[w].id => cache[g] = db[g]
  BY <1>1, Alone DEF CleanInv, Agree
<1>3. clean => TaskRight(task[w])'
  BY <1>1, <1>2 DEF TaskRight
<1> QED BY <1>0, <1>1, <1>2, <1>3, StepRight

LEMMA ApplyRight == ASSUME FInv, NEW w \in Worker, Apply(w) PROVE FInv'
<1> USE DEF FInv
<1>0. FType'
  BY TaskType DEF TaskStep
<1> DEFINE f == task[w].id
           entry == task[w].snap[f]
<1>1. /\ task[w].phase = "apply" /\ task[w] \in Applies /\ f \in Filter
      /\ cache' = task[w].snap
      /\ UNCHANGED <<useMongo, now, boot, clean, db>>
      /\ \A x \in Worker : x # w => task'[x] = task[x]
      /\ \A g \in Filter : g # f => timer'[g] = timer[g]
      /\ task'[w] = IF Settles(task[w]) /\ Due(entry) THEN FlipToDeny(f) ELSE Idle
      /\ timer'[f] = IF ~Settles(task[w]) \/ Due(entry) THEN timer[f]
                     ELSE IF Temporary(entry) THEN _armExpiry(entry.allowUntil) ELSE NoTimer
  <2>1. task[w].phase = "apply" /\ task[w] \in Applies /\ f \in Filter
    BY TaskShape DEF Apply
  <2>2. task \in [Worker -> Tasks] /\ timer \in [Filter -> Times]
    BY DEF FType
  <2> QED BY <2>1, <2>2, ApplyFacts
<1>2. clean => TaskRight(task[w]) /\ task[w].snap = db
  BY <1>1, Alone DEF TaskRight
<1>3. CASE Settles(task[w]) /\ Due(entry)
  <2>1. /\ task'[w].phase = "commit" /\ task'[w].kind = "flip" /\ task'[w].id = f
    BY <1>1, <1>3 DEF FlipToDeny, Operation
  <2>2. clean => TaskRight(task[w])'
    <3>1. clean => Due(db[f])'
      BY <1>1, <1>2, <1>3, <2>1 DEF Due
    <3> QED BY <1>1, <2>1, <3>1 DEF TaskRight
  <2> QED BY <1>0, <1>1, <1>2, <2>1, <2>2, StepRight
<1>4. CASE ~(Settles(task[w]) /\ Due(entry))
  <2>1. task'[w].phase = "idle" /\ TaskRight(task[w])'
    BY <1>1, <1>4 DEF Idle, TaskRight
  <2>2. ASSUME clean PROVE TimerRight(db'[f], timer'[f])
    <3>1. entry = db[f] /\ db' = db /\ entry \in Doc \cup {NoDoc}
      BY <1>1, <1>2, <2>2 DEF FType, Filters
    <3>2. CASE Settles(task[w])
      <4>1. Temporary(entry) => entry.allowUntil \in Date
        BY <3>1 DEF Temporary, Doc
      <4> QED BY <1>1, <1>4, <3>1, <3>2, <4>1, ArmFacts DEF TimerRight, FType
    <3>3. CASE ~Settles(task[w])
      <4>1. entry = NoDoc \/ task[w].kind \in {"flip", "delete"}
        BY <1>1, <3>3 DEF Settles, Applies, Writes
      <4>2. ~entry.authorized
        BY <1>1, <1>2, <2>2, <3>1, <4>1, DocFacts DEF TaskRight
      <4> QED BY <3>1, <4>2 DEF TimerRight, Temporary
    <3> QED BY <3>2, <3>3
  <2> QED BY <1>0, <1>1, <1>2, <2>1, <2>2, StepRight
<1> QED BY <1>3, <1>4

LEMMA FailRight == ASSUME FInv, NEW w \in Worker, QueryFails(w) PROVE FInv'
<1>1. Up /\ useMongo
  BY Alone DEF QueryFails
<1> QED BY <1>1, TaskType DEF FInv, QueryFails, Booting, Up

-----------------------------------------------------------------------------
(* The clock, the start and the crash *)

LEMMA TickRight == ASSUME FInv, Tick PROVE FInv'
<1> USE DEF FInv
<1>0. FType'
  BY StartType
<1>1. /\ UNCHANGED <<useMongo, db, cache, timer, task, boot, clean>>
      /\ now \in Nat /\ now' = now + 1
  BY Numbers DEF Tick, FType
<1>2. InFlight' = InFlight /\ \A f : Busy(f)' = Busy(f) /\ Dirty(f)' = Dirty(f)
  BY <1>1 DEF InFlight, Busy, Dirty
<1>3. Booting'
  BY <1>1, <1>2 DEF Booting, Up
<1>4. ASSUME clean PROVE CleanInv'
  <2>1. CleanInv
    BY <1>4
  <2>2. TasksRight'
    <3> SUFFICES ASSUME NEW w \in Worker PROVE TaskRight(task[w])'
      BY DEF TasksRight
    <3>1. TaskRight(task[w])
      BY <2>1 DEF CleanInv, TasksRight
    <3>2. ASSUME task[w].phase = "commit", Due(db[task[w].id]) PROVE Due(db[task[w].id])'
      <4>1. db[task[w].id] \in Doc
        BY <3>2, TaskShape DEF Due, Temporary, FType, Filters
      <4>2. db[task[w].id].allowUntil \in Nat
        BY <4>1, Numbers DEF Doc, NoDate, Date
      <4> QED BY <1>1, <3>2, <4>2 DEF Due
    <3> QED BY <1>1, <3>1, <3>2 DEF TaskRight, Missing, Written
  <2>3. OneTask' /\ Agree' /\ TimersRight' /\ EntriesRight'
    BY <1>1, <1>2, <2>1 DEF CleanInv, OneTask, Agree, TimersRight, EntriesRight, Up, Store
  <2> QED BY <2>2, <2>3 DEF CleanInv
<1> QED BY <1>0, <1>1, <1>3, <1>4

\* While the process starts nothing runs, and tasks that do not run are right
LEMMA NobodyRuns ==
    InFlight = {} => /\ OneTask /\ TasksRight /\ \A f : ~Busy(f) /\ ~Dirty(f)
<1> SUFFICES ASSUME InFlight = {}
             PROVE  OneTask /\ TasksRight /\ \A f : ~Busy(f) /\ ~Dirty(f)
  OBVIOUS
<1>1. TasksRight
  BY DEF InFlight, TasksRight, TaskRight
<1> QED BY <1>1, NobodyBusy DEF OneTask

LEMMA NobodyRunsNext ==
    (InFlight = {})' => (/\ OneTask /\ TasksRight /\ \A f : ~Busy(f) /\ ~Dirty(f))'
BY NobodyRuns, PTL

LEMMA SeedRight == ASSUME FInv, Seed PROVE FInv'
<1> USE DEF FInv
<1>0. FType'
  BY StartType DEF BootStep
<1>1. /\ boot.phase = "seed" /\ ~Up /\ boot.left = {} /\ boot'.left = {}
      /\ boot'.phase = IF useMongo THEN "read" ELSE "ready"
      /\ UNCHANGED <<useMongo, timer, task, clean>>
  BY DEF Seed, Booting, Up, FType, Boots
<1>2. InFlight = {} /\ InFlight' = {} /\ timer' = NoTimers
  BY <1>1 DEF Booting, InFlight
<1>3. OneTask' /\ TasksRight' /\ EntriesRight'
  BY <1>1, <1>2, NobodyRunsNext DEF EntriesRight
<1>4. CASE useMongo
  BY <1>0, <1>1, <1>2, <1>3, <1>4
     DEF Booting, CleanInv, Agree, TimersRight, Up
<1>5. CASE ~useMongo
  <2>1. cache = Empty
    BY <1>1, <1>5 DEF Booting
  <2>2. \A g \in Filter : cache'[g] \in {NoDoc, Denied, Permanent}
    BY <1>5, <2>1 DEF Seed, Empty, Store
  <2>3. \A g \in Filter : TimerRight(cache'[g], timer'[g])
    BY <1>2, <2>2, DenyIsRight, NoTimerFacts DEF TimerRight, Temporary, Permanent
  <2> QED BY <1>0, <1>1, <1>2, <1>3, <1>5, <2>3
          DEF Booting, CleanInv, Agree, TimersRight, Store, Up
<1> QED BY <1>4, <1>5

LEMMA BootReadRight == ASSUME FInv, BootRead PROVE FInv'
<1> USE DEF FInv
<1>0. FType'
  BY StartType DEF BootStep
<1>1. /\ boot.phase = "read" /\ ~Up /\ useMongo /\ InFlight = {} /\ timer = NoTimers
      /\ boot'.phase = "entries" /\ boot'.snap = db /\ cache' = db
      /\ boot'.left = {f \in Filter : Temporary(db[f])}
      /\ UNCHANGED <<useMongo, now, db, timer, task, clean>>
  BY DEF BootRead, Booting, Up, FType, Boots
<1>2. InFlight' = {}
  BY <1>1 DEF InFlight
<1>3. OneTask' /\ TasksRight' /\ \A f : ~Busy(f)' /\ ~Dirty(f)'
  BY <1>2, NobodyRunsNext
<1>4. Booting' /\ Agree'
  BY <1>1 DEF Booting, Up, Agree
<1>5. EntriesRight'
  BY <1>1, <1>3, NoTimerFacts DEF EntriesRight
<1>6. TimersRight'
  <2> SUFFICES ASSUME NEW f \in Filter, f \notin boot'.left PROVE TimerRight(db[f], NoTimer)
    BY <1>1, NoTimerFacts DEF TimersRight, Store
  <2> QED BY <1>1 DEF TimerRight
<1> QED BY <1>0, <1>3, <1>4, <1>5, <1>6 DEF CleanInv

LEMMA BootEntryRight ==
    ASSUME FInv, NEW w \in Worker, NEW f \in Filter, BootEntry(w, f) PROVE FInv'
<1> USE DEF FInv
<1>0. FType'
  BY StartType DEF BootStep
<1>1. /\ boot.phase = "entries" /\ f \in boot.left /\ useMongo /\ Up
      /\ UNCHANGED <<useMongo, now, db, cache>>
  BY DEF BootEntry, Booting, Up
<1>2. Temporary(boot.snap[f])
  BY <1>1 DEF FType
<1>3. CASE Due(boot.snap[f])
  <2>1. PICK operation \in Commits : operation = FlipToDeny(f)
    BY DEF FlipToDeny, Operation, ToDeny, Commits
  <2>2. operation.id = f /\ operation.kind = "flip" /\ operation.phase = "commit"
    BY <2>1 DEF FlipToDeny, Operation
  <2>3. /\ Launch(w, operation) /\ timer' = timer
        /\ boot'.left = boot.left \ {f} /\ boot'.phase = boot.phase /\ boot'.snap = boot.snap
    BY <1>3, <2>1 DEF BootEntry, FType, Boots
  <2>4. ASSUME clean' PROVE TaskRight(operation)'
    <3>1. boot.snap[f] = db[f]
      BY <1>1, <2>3, <2>4 DEF Launch, CleanInv, EntriesRight
    <3>2. Due(db[f])'
      BY <1>1, <1>3, <3>1 DEF Due
    <3> QED BY <2>2, <3>2 DEF TaskRight
  <2> QED BY <1>0, <1>1, <2>2, <2>3, <2>4, LaunchRight
<1>4. CASE ~Due(boot.snap[f])
  <2>1. /\ \A g \in Filter : g # f => timer'[g] = timer[g]
        /\ timer'[f] = _armExpiry(boot.snap[f].allowUntil)
        /\ boot'.left = boot.left \ {f} /\ boot'.phase = boot.phase /\ boot'.snap = boot.snap
        /\ UNCHANGED <<task, clean>>
    BY <1>4 DEF BootEntry, FType, Boots
  <2>2. Booting'
    BY <1>1, <2>1 DEF Booting, Up
  <2>3. ASSUME clean PROVE CleanInv'
    <3>1. CleanInv /\ boot.snap[f] = db[f]
      BY <1>1, <2>3 DEF CleanInv, EntriesRight
    <3>2. OneTask' /\ TasksRight' /\ Agree' /\ EntriesRight'
      BY <1>1, <2>1, <3>1, TasksAlone
         DEF CleanInv, Agree, EntriesRight, Up, Busy, Dirty, FType, Boots
    <3>3. TimerRight(db[f], timer'[f])
      <4>1. boot.snap[f].allowUntil \in Date
        BY <1>2 DEF FType, Boots, Filters, Doc, Temporary
      <4> QED BY <1>2, <2>1, <3>1, <4>1, ArmFacts DEF TimerRight, FType
    <3>4. TimersRight'
      <4> SUFFICES ASSUME NEW g \in Filter, ~Busy(g)', g \notin boot'.left
                   PROVE  TimerRight(db[g], timer'[g])
        BY <1>1 DEF TimersRight, Store
      <4>1. ~Busy(g) /\ (g \notin boot.left \/ g = f)
        BY <2>1 DEF Busy
      <4> QED BY <1>1, <2>1, <3>1, <3>3, <4>1 DEF CleanInv, TimersRight, Store
    <3> QED BY <3>2, <3>4 DEF CleanInv
  <2> QED BY <1>0, <2>1, <2>2, <2>3
<1> QED BY <1>3, <1>4

LEMMA ReadyRight == ASSUME FInv, Ready PROVE FInv'
<1> USE DEF FInv
<1>0. FType'
  BY StartType DEF BootStep
<1>1. /\ Up /\ useMongo /\ boot.left = {} /\ boot'.left = {} /\ boot'.phase = "ready"
      /\ UNCHANGED <<useMongo, now, db, cache, timer, task, clean>>
  BY DEF Ready, Seeding, Up, Booting
<1>2. OneTask' = OneTask /\ TasksRight' = TasksRight
      /\ \A f : Busy(f)' = Busy(f) /\ Dirty(f)' = Dirty(f)
  BY <1>1, TasksAlone
<1>3. Booting'
  BY <1>1 DEF Booting, Up
<1>4. ASSUME clean PROVE CleanInv'
  BY <1>1, <1>2, <1>4 DEF CleanInv, Agree, TimersRight, EntriesRight, Up, Store
<1> QED BY <1>0, <1>1, <1>3, <1>4

LEMMA CrashRight == ASSUME FInv, Crash PROVE FInv'
<1>1. Starts'
  BY DEF Crash, Starts, Seeding
<1>2. Starts' => Booting' /\ CleanInv'
  BY StartsRight, PTL
<1> QED BY <1>1, <1>2, StartType DEF FInv

LEMMA StutterRight == ASSUME FInv, UNCHANGED vars PROVE FInv'
<1>1. /\ OneTask' = OneTask /\ TasksRight' = TasksRight /\ InFlight' = InFlight
      /\ \A f : Busy(f)' = Busy(f) /\ Dirty(f)' = Dirty(f)
  BY TasksAlone DEF vars
<1>2. Booting' = Booting /\ CleanInv' = CleanInv
  BY <1>1 DEF vars, Booting, CleanInv, Agree, TimersRight, EntriesRight, Up, Store
<1> QED BY <1>2, StutterType DEF FInv, vars

LEMMA NextFInv == FInv /\ [Next]_vars => FInv'
<1> SUFFICES ASSUME FInv, [Next]_vars PROVE FInv'
  OBVIOUS
<1>1. ASSUME NEW w \in Worker, NEW f \in Filter, Request(w, f) PROVE FInv'
  BY <1>1, RequestRight
<1>2. ASSUME NEW f \in Filter, TimerFires(f) PROVE FInv'
  BY <1>2, ExpireRight, ChainRight DEF TimerFires
<1>3. ASSUME NEW w \in Worker, TaskStep(w) \/ QueryFails(w) PROVE FInv'
  BY <1>3, CommitRight, ReadRight, ApplyRight, FailRight DEF TaskStep
<1>4. CASE Tick \/ Crash
  BY <1>4, TickRight, CrashRight
<1>5. CASE BootStep
  BY <1>5, SeedRight, BootReadRight, BootEntryRight, ReadyRight DEF BootStep
<1>6. CASE UNCHANGED vars
  BY <1>6, StutterRight
<1> QED BY <1>1, <1>2, <1>3, <1>4, <1>5, <1>6 DEF Next

-----------------------------------------------------------------------------
(* What a single step may do *)

\* Only a crash sets the condition again
LEMMA CleanStep == [Next]_vars /\ clean' => clean \/ Crash
<1> SUFFICES ASSUME [Next]_vars, clean', ~Crash PROVE clean
  OBVIOUS
<1>1. ASSUME NEW w \in Worker, NEW f \in Filter, Request(w, f) PROVE clean
  BY <1>1 DEF Request, create, update, delete, Launch, WriteMemory
<1>2. ASSUME NEW f \in Filter, TimerFires(f) PROVE clean
  BY <1>2 DEF TimerFires, _onExpire, ChainTimer, Launch
<1>3. ASSUME NEW w \in Worker, TaskStep(w) \/ QueryFails(w) PROVE clean
  BY <1>3 DEF TaskStep, Commit, Read, Apply, QueryFails
<1>4. CASE Tick \/ BootStep
  BY <1>4 DEF Tick, BootStep, Seed, BootRead, BootEntry, Ready, Launch
<1>5. CASE UNCHANGED vars
  BY <1>5 DEF vars
<1> QED BY <1>1, <1>2, <1>3, <1>4, <1>5 DEF Next

\* A flip that runs alone finds an allow whose date has come, or no allow at all
LEMMA FlipDue ==
    ASSUME FInv, [Next]_vars, clean', NEW f \in Filter, FlippedByTimer(f), Store[f].authorized
    PROVE  Due(Store[f])
<1> USE DEF FInv
<1>1. ASSUME NEW w \in Worker, task[w].phase = "commit", task'[w].phase = "read",
             task[w].kind = "flip", task[w].id = f
      PROVE  Due(Store[f])
  <2>1. ~Crash
    BY <1>1 DEF Crash, Idle
  <2>2. clean
    BY <2>1, CleanStep
  <2>3. useMongo /\ TaskRight(task[w])
    BY <1>1, <2>2, Alone
  <2> QED BY <1>1, <2>3 DEF TaskRight, Store
<1>2. ASSUME ~useMongo, ops' = ops, crashes' = crashes, boot' = boot, cache'[f] # cache[f]
      PROVE  Due(Store[f])
  <2>1. ops \in Nat /\ crashes \in Nat
    BY Numbers DEF FType, Counters
  <2>2. clean
    BY <1>2, <2>1, CleanStep DEF Crash
  <2>3. PICK w \in Worker : _onExpire(w, f)
    <3>1. ASSUME NEW w \in Worker, NEW g \in Filter, Request(w, g) PROVE FALSE
      <4>1. AdminRequest
        BY <3>1 DEF Request, create, update, delete
      <4> QED BY <1>2, <2>1, <4>1 DEF AdminRequest
    <3>2. ASSUME NEW g \in Filter, TimerFires(g) PROVE \E w \in Worker : _onExpire(w, f)
      BY <1>2, <3>2 DEF TimerFires, ChainTimer, _onExpire, FType, Filters
    <3>3. ASSUME NEW w \in Worker, TaskStep(w) \/ QueryFails(w) PROVE FALSE
      BY <1>2, <3>3, Alone DEF TaskStep, Commit, Read, Apply, QueryFails
    <3>4. ASSUME Tick \/ Crash PROVE FALSE
      <4>1. cache' = cache \/ crashes' = crashes + 1
        BY <3>4 DEF Tick, Crash
      <4> QED BY <1>2, <2>1, <4>1
    <3>5. ASSUME BootStep PROVE FALSE
      <4>1. Seed
        BY <1>2, <3>5 DEF BootStep, BootRead, BootEntry, Ready, Booting
      <4>2. boot'.phase = "ready" /\ boot.phase = "seed"
        BY <1>2, <4>1 DEF Seed, FType, Boots
      <4> QED BY <1>2, <4>2
    <3>6. CASE UNCHANGED vars
      BY <1>2, <3>6 DEF vars
    <3> QED BY <3>1, <3>2, <3>3, <3>4, <3>5, <3>6 DEF Next
  <2>4. timer[f].last /\ timer[f].at <= now
    BY <2>3 DEF _onExpire
  <2>5. Up /\ timer[f] # NoTimer /\ boot.left = {} /\ InFlight = {}
    BY <1>2, <2>4, FiringTimer DEF Booting, Up
  <2>6. TimerRight(Store[f], timer[f])
    BY <2>2, <2>5, NobodyBusy DEF CleanInv, TimersRight
  <2> QED BY <2>4, <2>5, <2>6 DEF TimerRight, Due
<1> QED BY <1>1, <1>2 DEF FlippedByTimer

LEMMA PlainCoherent == Coherent(NoDoc) /\ Coherent(Denied)
BY DEF Coherent, Denied

\* A request that finds a filter without a stray date leaves it so, in memory;
\* over the collection it writes nothing yet
LEMMA RequestCoherent ==
    ASSUME FInv, NEW w \in Worker, NEW g \in Filter, Request(w, g),
           NEW f \in Filter, Coherent(Store[f])
    PROVE  Coherent(Store'[f])
<1> USE DEF FInv
<1>1. useMongo' = useMongo /\ db' = db
  BY DEF Request, create, update, delete
<1>2. CASE useMongo
  BY <1>1, <1>2 DEF Store
<1>3. CASE ~useMongo
  <2>1. SUFFICES ASSUME Coherent(cache[f]) PROVE Coherent(cache'[f])
    BY <1>1, <1>3 DEF Store
  <2>2. ASSUME NEW doc, WriteMemory(g, doc), Coherent(cache[g]) => Coherent(doc)
        PROVE  Coherent(cache'[f])
    BY <2>1, <2>2, PlainCoherent DEF WriteMemory, FType, Filters
  <2>3. ASSUME NEW change \in Change, create(w, g, change) PROVE Coherent(cache'[f])
    <3> DEFINE doc == Patched(Denied, [change EXCEPT !.allowUntil =
                          _normalizeAllowUntil(change, change.authorized = {TRUE})])
    <3>1. Coherent(doc)
      BY <2>3, CreateCoherent DEF create
    <3>2. WriteMemory(g, doc)
      BY <1>3, <2>3 DEF create
    <3> HIDE DEF doc
    <3> QED BY <2>2, <3>1, <3>2
  <2>4. ASSUME NEW change \in Change, update(w, g, change) PROVE Coherent(cache'[f])
    <3> DEFINE doc == Patched(cache[g], Allowed(change, cache[g]))
    <3>1. cache[g] \in Doc
      BY <2>4 DEF update, FType, Filters
    <3>2. Coherent(cache[g]) => Coherent(doc)
      BY <3>1, UpdateCoherent
    <3>3. WriteMemory(g, doc)
      BY <1>3, <2>4 DEF update
    <3> HIDE DEF doc
    <3> QED BY <2>2, <3>2, <3>3
  <2>5. CASE delete(w, g)
    BY <1>3, <2>1, <2>5, PlainCoherent DEF delete, FType, Filters
  <2> QED BY <2>3, <2>4, <2>5 DEF Request
<1> QED BY <1>2, <1>3

LEMMA CommitCoherent ==
    ASSUME FInv, NEW w \in Worker, Commit(w), clean, NEW f \in Filter, Coherent(Store[f])
    PROVE  Coherent(Store'[f])
<1> USE DEF FInv
<1>1. /\ task[w] \in Commits /\ task[w].phase = "commit" /\ useMongo /\ TaskRight(task[w])
      /\ useMongo' = useMongo
      /\ db' = IF Missing(task[w]) THEN db ELSE [db EXCEPT ![task[w].id] = Written(task[w])]
  BY CommitFacts, Alone DEF Commit
<1>2. CASE Missing(task[w]) \/ f # task[w].id
  BY <1>1, <1>2 DEF Store, FType, Filters
<1>3. CASE ~Missing(task[w]) /\ f = task[w].id
  <2>1. db'[f] = Written(task[w])
    BY <1>1, <1>3 DEF FType, Filters
  <2>2. CASE task[w].kind \in {"create", "update"}
    BY <1>1, <1>3, <2>1, <2>2 DEF TaskRight, Store
  <2>3. CASE task[w].kind = "delete"
    BY <1>1, <2>1, <2>3, PlainCoherent DEF Written, Store
  <2>4. CASE task[w].kind = "flip"
    <3>1. task[w].set = ToDeny
      BY <1>1, <2>4 DEF Commits
    <3>2. Written(task[w]).allowUntil = ValueOr({NoDate}, db[f].allowUntil)
      BY <1>3, <2>4, <3>1 DEF Written, Patched, ToDeny
    <3>3. Written(task[w]).allowUntil = NoDate
      BY <3>2, ValueOrFacts
    <3> QED BY <1>1, <2>1, <3>3 DEF Store, Coherent
  <2> QED BY <1>1, <2>2, <2>3, <2>4 DEF Commits
<1> QED BY <1>2, <1>3

LEMMA StepCoherent ==
    ASSUME FInv, [Next]_vars, clean', NEW f \in Filter, Coherent(Store[f])
    PROVE  Coherent(Store'[f])
<1> USE DEF FInv
<1>1. ASSUME NEW w \in Worker, NEW g \in Filter, Request(w, g) PROVE Coherent(Store'[f])
  BY <1>1, RequestCoherent
<1>2. ASSUME NEW g \in Filter, TimerFires(g) PROVE Coherent(Store'[f])
  <2>1. UNCHANGED <<useMongo, db>>
    BY <1>2 DEF TimerFires, _onExpire, ChainTimer
  <2>2. useMongo \/ cache'[f] = cache[f] \/ cache'[f] \in {NoDoc, Denied}
    BY <1>2 DEF TimerFires, _onExpire, ChainTimer, FType, Filters
  <2> QED BY <2>1, <2>2, PlainCoherent DEF Store
<1>3. ASSUME NEW w \in Worker, TaskStep(w) \/ QueryFails(w) PROVE Coherent(Store'[f])
  <2>1. CASE Commit(w)
    BY <2>1, CommitCoherent DEF Commit
  <2>2. CASE Read(w) \/ Apply(w) \/ QueryFails(w)
    <3>1. useMongo
      BY <2>2, Alone DEF Read, Apply, QueryFails
    <3> QED BY <2>2, <3>1 DEF Read, Apply, QueryFails, Store
  <2> QED BY <1>3, <2>1, <2>2 DEF TaskStep
<1>4. CASE Tick
  BY <1>4 DEF Tick, Store
<1>5. CASE Crash
  BY <1>5, PlainCoherent DEF Crash, Store, Empty
<1>6. CASE Seed
  <2>1. Store' = Store \/ \A g \in Filter : Store'[g] \in {NoDoc, Denied, Permanent}
    BY <1>6 DEF Seed, Store, Empty
  <2> QED BY <2>1 DEF Coherent, Denied, Permanent
<1>7. ASSUME BootRead \/ Ready \/ \E w \in Worker, g \in Filter : BootEntry(w, g)
      PROVE  Coherent(Store'[f])
  <2>1. useMongo
    BY <1>7 DEF BootRead, Ready, BootEntry, Booting
  <2> QED BY <1>7, <2>1 DEF BootRead, Ready, BootEntry, Store
<1>8. CASE UNCHANGED vars
  BY <1>8 DEF vars, Store
<1> QED BY <1>1, <1>2, <1>3, <1>4, <1>5, <1>6, <1>7, <1>8 DEF Next, BootStep

-----------------------------------------------------------------------------
(* Theorems *)

\* FInv, what is right about filters, cache, timers and operations, is inductive
THEOREM StoreInvariance == Spec => []FInv
BY InitFInv, NextFInv, PTL DEF Spec

\* Whatever overlaps, fails or crashes, the collection, the cache and the timers
\* hold filters and times, and operations are in the phases of the code
THEOREM StoreTypeCorrect == Spec => []TypeOK
<1>1. FInv => TypeOK
  <2> SUFFICES ASSUME FInv PROVE TypeOK
    OBVIOUS
  <2>1. FType
    BY DEF FInv
  <2>2. \A w \in Worker : task[w].phase \in {"idle", "commit", "read", "apply"}
    BY <2>1, TaskShape
  <2> QED BY <2>1, <2>2 DEF FType, Times, Boots, Counters, TypeOK
<1> QED BY <1>1, StoreInvariance, PTL

\* Operations that do not overlap, on a database that answers, leave the cache of
\* FilterStore equal to the collection
THEOREM CacheFollowsDb == Spec => []CacheCatchesUp
<1>1. FInv => CacheCatchesUp
  BY CacheIsDb DEF CacheCatchesUp, Quiet, Up
<1> QED BY <1>1, StoreInvariance, PTL

\* Under the same condition each temporary allow has the timer that ends it, also
\* after any number of restarts
THEOREM AllowsAreTimed == Spec => []TimerCoversAllow
<1>1. FInv => TimerCoversAllow
  <2> SUFFICES ASSUME FInv, clean, Quiet, NEW f \in Filter, Temporary(Store[f])
               PROVE  /\ timer[f].at <= Store[f].allowUntil
                      /\ timer[f].last => timer[f].at = Store[f].allowUntil
    BY DEF TimerCoversAllow
  <2>1. Up /\ boot.left = {} /\ ~Busy(f)
    BY NobodyBusy DEF FInv, Booting, Up, Quiet
  <2> QED BY <2>1 DEF FInv, CleanInv, TimersRight, TimerRight
<1> QED BY <1>1, StoreInvariance, PTL

\* Under the same condition a timer of FilterStore takes back only an allow whose
\* date has come
THEOREM FlipsAreDue == Spec => FlipsOnlyDue
<1>1. FInv /\ [Next]_vars =>
        [\A f \in Filter : clean' /\ FlippedByTimer(f) /\ Store[f].authorized
                             => Due(Store[f])]_vars
  BY FlipDue
<1> QED BY <1>1, StoreInvariance, PTL DEF Spec, FlipsOnlyDue

\* Under the same condition no step of FilterStore puts a date on a filter that denies
THEOREM DatesAreCleared == Spec => DenyClearsDate
<1>1. FInv /\ [Next]_vars =>
        [clean' => \A f \in Filter : Coherent(Store[f]) => Coherent(Store'[f])]_vars
  BY StepCoherent
<1> QED BY <1>1, StoreInvariance, PTL DEF Spec, DenyClearsDate
=============================================================================
