------------------------------- MODULE World -------------------------------
(***************************************************************************)
(* The engine of a langECS world: the run loop, the concurrent execution   *)
(* of (system, entity) pairs, the two-phase barrier, cancellation, the     *)
(* points where the loop awaits its persistence adapter, and the mutations *)
(* an application may make while no run is in flight.                      *)
(*                                                                         *)
(* JavaScript runs one synchronous stretch at a time, so an action is one  *)
(* stretch between two awaits (or a part of one that nothing can be        *)
(* interleaved with, in phase "loop").                                     *)
(*                                                                         *)
(* A definition named X_Variant right before X is what X would be with a   *)
(* plausible defect.  No action uses it: it is put in the place of X to    *)
(* see that a property would catch the defect.                             *)
(***************************************************************************)
EXTENDS EcsData

CONSTANTS
    Initial,        \* systems registered before the first run
    Guarded,        \* systems with a `when` guard
    Timed,          \* systems bounded by a timeout
    Menu,           \* [System -> SUBSET MenuOp]: what a body may buffer
    SpawnItems,     \* component sets and systems an external spawn may give
    ExternalWrites, \* components the application writes or removes itself
    UserCodeThrows, \* TRUE: reducers and spawn-time registration may throw
    ExternalMayThrow, \* TRUE: an external spawn or use may throw half-way
    HasAdapter,     \* TRUE: a persistence adapter is configured
    SaveEvery,      \* 0 = 'quiescence', n = after every n-th step (1 = 'barrier')
    SaveMayFail,    \* TRUE: adapter.save may reject
    Limit,          \* step cap of a run (recursionLimit)
    MaxOps,         \* bound: operations buffered by one execution
    MaxRuns         \* bound: runs started

ASSUME WorldAssumption ==
    /\ Initial \subseteq System
    /\ Guarded \subseteq System
    /\ Timed \subseteq System
    /\ Menu \in [System -> SUBSET MenuOp]
    /\ SpawnItems \subseteq (SUBSET Component) \X (SUBSET System)
    /\ ExternalWrites \subseteq Component
    /\ SaveEvery \in Nat /\ Limit \in Nat /\ MaxOps \in Nat /\ MaxRuns \in Nat
    /\ {UserCodeThrows, ExternalMayThrow, HasAdapter, SaveMayFail} \subseteq BOOLEAN

VARIABLES
    alive,          \* ids of the entities that exist
    comps,          \* committed component values, all empty for a dead id
    registered,     \* systems in systemList
    matched,        \* match sets as of the last commit
    dirt,           \* pending pairs: [System -> SUBSET Entity]
    nextId,         \* nextEntityId
    stepCount,      \* committed steps
    changed,        \* revision # savedRevision
    phase,          \* where the run loop stands
    steps,          \* steps of this run
    limitHit,
    cancelSeen,     \* this run's signal is aborted
    pendingCancel,  \* a cancellation still to be stamped
    status,         \* result of the last run
    runCounter,
    exec,           \* the step's executions, one record per pair
    execSeq,        \* executions ever started
    zombies,        \* executions abandoned on timeout whose body still runs
    discarded,      \* history: executions whose effects must never be seen
    last            \* history: what each pair saw and how it ended, last time

stateVars == <<alive, comps, registered, matched, dirt>>
runVars == <<steps, limitHit, cancelSeen, pendingCancel, status, runCounter>>
execVars == <<exec, execSeq, zombies>>
history == <<discarded, last>>
vars == <<stateVars, nextId, stepCount, changed, phase, runVars, execVars, history>>

Phase == {"idle", "loop", "exec", "saving", "final", "late", "resolved", "rejected"}
Outcome == {"none", "vetoed", "running", "ok", "failed", "aborted", "timedOut"}
Status == {"none", "idle", "done", "error", "pending", "limit", "cancelled"}
NoExec == [st |-> "none", id |-> 0, ops |-> <<>>]
NoComps == [c \in Component |-> {}]

Running == {p \in Pair : exec[p].st = "running"}
Scheduled == {p \in Pair : exec[p].st \notin {"none", "vetoed"}}
OkExecs == {p \in Pair : exec[p].st = "ok"}
Candidates == {p \in Pair : p[2] \in matched[p[1]] \cap dirt[p[1]]}

(***************************************************************************)
(* refreshDirt: a pair that newly matches, or that matched already and had *)
(* a positive component changed by another writer, becomes pending.        *)
(***************************************************************************)
Wakes(changes, s, e) == e \notin matched[s] \/ ForeignChange(changes, s, e)

(***************************************************************************)
(* A commit installs new component state and refreshes match sets and dirt *)
(* from the change records; `marks` are the invalidations applied last.    *)
(***************************************************************************)
Commit(al, cs, reg, changes, base, marks) ==
    /\ alive' = al
    /\ comps' = cs
    /\ registered' = reg
    /\ matched' = [s \in System |-> MatchSet(s, reg, al, cs)]
    /\ dirt' = [s \in System |->
           base[s] \cup {e \in MatchSet(s, reg, al, cs) : Wakes(changes, s, e)}
                   \cup {e \in al : <<s, e>> \in marks}]

(***************************************************************************)
(* Mutations from outside, legal only while no run is in flight.           *)
(***************************************************************************)
Use(s) ==
    /\ phase = "idle"
    /\ s \notin registered
    /\ \A t \in registered : Index[t] < Index[s]
    /\ Commit(alive, comps, registered \cup {s}, {}, dirt, {})
    /\ changed' = (changed \/ dirt' # dirt)
    /\ UNCHANGED <<nextId, stepCount, phase, runVars, execVars, history>>

SpawnExternal(item) ==
    /\ phase = "idle"
    /\ nextId <= MaxId
    /\ LET value == [c \in Component |->
                        IF c \in item[1] THEN {<<stepCount, "external", 0>>} ELSE {}]
       IN Commit(alive \cup {nextId}, [comps EXCEPT ![nextId] = value],
                 registered \cup item[2],
                 {<<nextId, c, External>> : c \in item[1]}, dirt, {})
    /\ nextId' = nextId + 1
    /\ changed' = TRUE
    /\ UNCHANGED <<stepCount, phase, runVars, execVars, history>>

\* The same calls when they throw: a duplicate system key, or a value that
\* cannot be cloned.  What was done before the throw stays, and neither the
\* match sets and the dirt nor the revision hear of it.
UseFails(s) ==
    /\ ExternalMayThrow
    /\ phase = "idle"
    /\ s \notin registered
    /\ \A t \in registered : Index[t] < Index[s]
    /\ registered' = registered \cup {s}
    /\ UNCHANGED <<alive, comps, matched, dirt, nextId, stepCount, changed, phase,
                   runVars, execVars, history>>

SpawnFails(item, set, systems) ==
    /\ ExternalMayThrow
    /\ phase = "idle"
    /\ nextId <= MaxId
    /\ set = {} \/ (systems = item[2] /\ set # item[1])
    /\ alive' = alive \cup {nextId}
    /\ comps' = [comps EXCEPT ![nextId] = [c \in Component |->
            IF c \in set THEN {<<stepCount, "external", 0>>} ELSE {}]]
    /\ registered' = registered \cup systems
    /\ nextId' = nextId + 1
    /\ UNCHANGED <<matched, dirt, stepCount, changed, phase, runVars, execVars, history>>

WriteExternal(e, c, mode) ==
    /\ phase = "idle"
    /\ e \in alive
    /\ LET kept == IF mode = "add" /\ c \in Reducer THEN comps[e][c] ELSE {}
           value == kept \cup {<<stepCount, "external", 0>>}
       IN Commit(alive, [comps EXCEPT ![e][c] = value], registered,
                 {<<e, c, External>>}, dirt, {})
    /\ changed' = TRUE
    /\ UNCHANGED <<nextId, stepCount, phase, runVars, execVars, history>>

RemoveExternal(e, c) ==
    /\ phase = "idle"
    /\ e \in alive
    /\ comps[e][c] # {}
    /\ Commit(alive, [comps EXCEPT ![e][c] = {}], registered,
              {<<e, c, External>>}, dirt, {})
    /\ changed' = TRUE
    /\ UNCHANGED <<nextId, stepCount, phase, runVars, execVars, history>>

DespawnExternal(e) ==
    /\ phase = "idle"
    /\ e \in alive
    /\ alive' = alive \ {e}
    /\ comps' = [comps EXCEPT ![e] = NoComps]
    /\ dirt' = [s \in System |-> dirt[s] \ {e}]
    /\ matched' = [s \in System |-> matched[s] \ {e}]
    /\ changed' = TRUE
    /\ UNCHANGED <<registered, nextId, stepCount, phase, runVars, execVars, history>>

(***************************************************************************)
(* Cancellation.  Idle, it is an external write on every entity; mid-run   *)
(* it aborts every pair's signal and asks the loop to stamp.               *)
(***************************************************************************)
StampCancelled(step, writer) ==
    LET stamp == {<<step, writer[1], 0>>}
    IN Commit(alive,
              [e \in Entity |-> IF e \in alive
                                THEN [comps[e] EXCEPT ![Cancelled] = stamp]
                                ELSE comps[e]],
              registered, {<<e, Cancelled, writer>> : e \in alive}, dirt, {})

CancelIdle ==
    /\ phase = "idle"
    /\ StampCancelled(stepCount, External)
    /\ changed' = (changed \/ alive # {})
    /\ UNCHANGED <<nextId, stepCount, phase, runVars, execVars, history>>

CancelMidRun ==
    /\ phase # "idle"
    /\ cancelSeen' = TRUE
    /\ pendingCancel' = TRUE
    /\ UNCHANGED <<stateVars, nextId, stepCount, changed, phase, steps, limitHit,
                   status, runCounter, execVars, history>>

(***************************************************************************)
(* run() and the run loop.                                                 *)
(***************************************************************************)
Run ==
    /\ phase = "idle"
    /\ runCounter < MaxRuns
    /\ runCounter' = runCounter + 1
    /\ pendingCancel' = FALSE
    /\ cancelSeen' = FALSE
    /\ steps' = 0
    /\ limitHit' = FALSE
    /\ phase' = "loop"
    /\ UNCHANGED <<stateVars, nextId, stepCount, changed, status, execVars, history>>

\* 0. A cancellation requested mid-step is stamped at the next boundary.
StampStep ==
    /\ phase = "loop"
    /\ pendingCancel
    /\ pendingCancel' = FALSE
    /\ StampCancelled(stepCount + 1, Engine)
    /\ stepCount' = stepCount + 1
    /\ changed' = TRUE
    /\ phase' = "final"
    /\ UNCHANGED <<nextId, steps, limitHit, cancelSeen, status, runCounter, execVars, history>>

\* The loop goes on only if no cancellation is waiting to be stamped.
Continues_Deaf == phase = "loop"
Continues == phase = "loop" /\ ~pendingCancel

\* 2. Quiescent: no matched and dirty pair.
Quiescent ==
    /\ Continues
    /\ Candidates = {}
    /\ phase' = "final"
    /\ UNCHANGED <<stateVars, nextId, stepCount, changed, runVars, execVars, history>>

\* 3. The limit, checked before any guard runs.
AtLimit == steps >= Limit /\ limitHit' = TRUE

LimitBreak ==
    /\ Continues
    /\ Candidates # {}
    /\ AtLimit
    /\ phase' = "final"
    /\ UNCHANGED <<stateVars, nextId, stepCount, changed, steps, cancelSeen,
                   pendingCancel, status, runCounter, execVars, history>>

\* What the guards of the candidates may answer.
Verdicts == {v \in [Candidates -> {"pass", "veto", "throw"}] :
                \A p \in Candidates : p[1] \notin Guarded => v[p] = "pass"}

Saw(p, failed) == [seen |-> comps[p[2]], failed |-> failed]

\* 1c. Every candidate vetoed: their dirt is consumed here, no barrier runs.
AllVetoed ==
    /\ Continues
    /\ Candidates # {}
    /\ steps < Limit
    /\ Candidates \subseteq Guarded \X Entity
    /\ dirt' = [s \in System |-> dirt[s] \ {e \in Entity : <<s, e>> \in Candidates}]
    /\ changed' = TRUE
    /\ last' = [p \in Pair |-> IF p \in Candidates THEN Saw(p, last[p].failed) ELSE last[p]]
    /\ phase' = "final"
    /\ UNCHANGED <<alive, comps, registered, matched, nextId, stepCount, runVars,
                   execVars, discarded>>

\* ++execSeq, in candidate order.
ExecId(started, p) ==
    execSeq + Cardinality({q \in started : q = p \/ Before(q, p)})

\* 4. The surviving candidates start executing, all at once.
StepStart ==
    /\ Continues
    /\ steps < Limit
    /\ \E v \in Verdicts :
         LET started == {p \in Candidates : v[p] = "pass"}
             outcome(p) == IF v[p] = "veto" THEN "vetoed" ELSE "failed"
         IN /\ \E p \in Candidates : v[p] # "veto"
            /\ exec' = [p \in Pair |->
                  IF p \in started THEN [st |-> "running", id |-> ExecId(started, p), ops |-> <<>>]
                  ELSE IF p \in Candidates THEN [st |-> outcome(p), id |-> 0, ops |-> <<>>]
                  ELSE NoExec]
            /\ execSeq' = execSeq + Cardinality(started)
    /\ steps' = steps + 1
    /\ phase' = "exec"
    /\ UNCHANGED <<stateVars, nextId, stepCount, changed, limitHit, cancelSeen,
                   pendingCancel, status, runCounter, zombies, history>>

(***************************************************************************)
(* The bodies of the running pairs.                                        *)
(***************************************************************************)
\* ctx.spawn allocates its id at the call, except for an abandoned pair.
AfterSpawn_Zombie(abandoned) == nextId + 1
AfterSpawn_Lazy(abandoned) == nextId
AfterSpawn(abandoned) == IF abandoned THEN nextId ELSE nextId + 1

Resolve(m, e) ==
    [kind |-> m.kind, comps |-> m.comps, sys |-> m.sys,
     ent |-> IF m.kind = "spawn" THEN nextId ELSE IF m.ent = 0 THEN e ELSE m.ent]

PushOp(p) ==
    /\ p \in Running
    /\ Len(exec[p].ops) < MaxOps
    /\ \E m \in Menu[p[1]] :
         /\ m.kind = "spawn" => nextId <= MaxId
         /\ exec' = [exec EXCEPT ![p].ops = Append(@, Resolve(m, p[2]))]
         /\ nextId' = IF m.kind = "spawn" THEN AfterSpawn(FALSE) ELSE nextId
    /\ UNCHANGED <<stateVars, stepCount, changed, phase, runVars, execSeq, zombies, history>>

Settle_Swallowed(p, outcome) ==
    /\ p \in Running
    /\ exec' = [exec EXCEPT ![p].st = "ok"]
    /\ discarded' = IF outcome = "ok" THEN discarded ELSE discarded \cup {exec[p].id}
    /\ UNCHANGED <<stateVars, nextId, stepCount, changed, phase, runVars, execSeq, last>>
Settle(p, outcome) ==
    /\ p \in Running
    /\ exec' = [exec EXCEPT ![p].st = outcome,
                            ![p].ops = IF outcome = "ok" THEN @ ELSE <<>>]
    /\ discarded' = IF outcome = "ok" THEN discarded ELSE discarded \cup {exec[p].id}
    /\ UNCHANGED <<stateVars, nextId, stepCount, changed, phase, runVars, execSeq, last>>

Return(p) == Settle(p, "ok") /\ UNCHANGED zombies

Throw(p) == Settle(p, "failed") /\ UNCHANGED zombies

\* The body rethrows the abort reason of its own signal.
ThrowAbort(p) == cancelSeen /\ Settle(p, "aborted") /\ UNCHANGED zombies

Deadline_Cleared(p) == p[1] \in Timed /\ ~cancelSeen
Deadline(p) == p[1] \in Timed

\* The deadline wins the race: the body goes on, but nothing waits for it.
Timeout(p) ==
    /\ Deadline(p)
    /\ Settle(p, "timedOut")
    /\ zombies' = zombies \cup {exec[p].id}

ZombieSpawn(z) ==
    /\ z \in zombies
    /\ nextId' = AfterSpawn(TRUE)
    /\ UNCHANGED <<stateVars, stepCount, changed, phase, runVars, execVars, history>>

ZombieSettle(z) ==
    /\ z \in zombies
    /\ zombies' = zombies \ {z}
    /\ UNCHANGED <<stateVars, nextId, stepCount, changed, phase, runVars, exec, execSeq, history>>

(***************************************************************************)
(* The barrier, staging part.  A position <<p, i>> is the i-th operation   *)
(* buffered by the successful pair p; positions are replayed in order.     *)
(***************************************************************************)
Positions == {k \in OkExecs \X (1 .. MaxOps) : k[2] <= Len(exec[k[1]].ops)}
OpAt(k) == exec[k[1]].ops[k[2]]
Earlier(k, l) == Before(k[1], l[1]) \/ (k[1] = l[1] /\ k[2] < l[2])

Despawning == {OpAt(k).ent : k \in {x \in Positions : OpAt(x).kind = "despawn"}}
Shells == {OpAt(k).ent : k \in {x \in Positions : OpAt(x).kind = "spawn"}}
Survives(e) == e \in (alive \cup Shells) \ Despawning

\* Operations on despawned or missing entities are dropped.
Landed == {k \in Positions : Survives(OpAt(k).ent)}
Touches(k, e, c) ==
    /\ OpAt(k).ent = e
    /\ OpAt(k).kind \in {"add", "set", "remove", "spawn"}
    /\ c \in OpAt(k).comps
Resets_Always(k, c) == TRUE
Resets(k, c) == OpAt(k).kind # "add" \/ c \notin Reducer
Content(k) ==
    IF OpAt(k).kind = "remove" THEN {} ELSE {<<exec[k[1]].id, k[1][1], k[1][2]>>}

\* The staged value of component c of entity e after the operations in K:
\* the last reset and the merges after it, over the committed value if none.
Staged(e, c, K) ==
    LET L == {k \in K \cap Landed : Touches(k, e, c)}
        R == {k \in L : Resets(k, c)}
        visible == {k \in L : \A l \in R : ~Earlier(k, l)}
    IN (IF R = {} THEN comps[e][c] ELSE {}) \cup UNION {Content(k) : k \in visible}

\* SystemError, written by the engine last: a record for each pair that failed
\* (not for one aborted by the cancellation), then the records of the systems
\* that succeeded on the entity are cleared.
FailedOn_ThrownOnly(e) == {s \in System : exec[<<s, e>>].st = "failed"}
FailedOn(e) == {s \in System : exec[<<s, e>>].st \in {"failed", "timedOut"}}
OkOn(e) == {s \in System : exec[<<s, e>>].st = "ok"}
WithRecords(e) ==
    Staged(e, SystemError, Positions) \cup {<<stepCount + 1, s, 0>> : s \in FailedOn(e)}
Cleared_Never(e) == {}
Cleared(e) == {t \in WithRecords(e) : t[2] \in OkOn(e)}

NextComps == [e \in Entity |->
    IF Survives(e)
    THEN [c \in Component |-> IF c = SystemError THEN WithRecords(e) \ Cleared(e)
                              ELSE Staged(e, c, Positions)]
    ELSE NoComps]

OpChanges ==
    UNION {{<<OpAt(k).ent, c, k[1]>> : c \in
              {d \in OpAt(k).comps :
                 /\ Touches(k, OpAt(k).ent, d)
                 /\ OpAt(k).kind = "remove"
                       => Staged(OpAt(k).ent, d, {l \in Positions : Earlier(l, k)}) # {}}}
           : k \in Landed}
EngineChanges ==
    {<<e, SystemError, Engine>> : e \in
       {f \in Entity : Survives(f) /\ (FailedOn(f) # {} \/ Cleared(f) # {})}}

NewSystems == UNION {OpAt(k).sys : k \in {x \in Positions :
    OpAt(x).kind = "spawn" /\ OpAt(x).ent \notin Despawning}}

Invalidations ==
    {p \in Pair : \E k \in Landed :
        /\ OpAt(k).ent = p[2]
        /\ \/ OpAt(k).kind = "invalidate" /\ p[1] \in OpAt(k).sys
           \/ OpAt(k).kind = "invalidateAll" /\ p[1] \in registered \cup NewSystems}

\* What makes staging throw.
WriteConflict ==
    \E k, l \in Positions :
       /\ k[1] # l[1]
       /\ {OpAt(k).kind, OpAt(l).kind} \subseteq {"add", "set"}
       /\ OpAt(k).ent = OpAt(l).ent
       /\ OpAt(k).ent \notin Despawning
       /\ (OpAt(k).comps \cap OpAt(l).comps) \ Reducer # {}
UnknownSystem ==
    \E k \in Positions : /\ OpAt(k).kind = "invalidate"
                         /\ ~(OpAt(k).sys \subseteq registered \cup NewSystems)
UserCodeRuns ==
    \E k \in Landed : \/ OpAt(k).kind = "add" /\ OpAt(k).comps \cap Reducer # {}
                      \/ OpAt(k).kind = "spawn" /\ OpAt(k).sys # {}

(***************************************************************************)
(* The barrier, commit part.                                               *)
(***************************************************************************)
\* Pairs whose dirt the commit consumes: all but those aborted by a cancel.
Consumed_Aborted == {p \in Pair : exec[p].st # "none"}
Consumed == {p \in Pair : exec[p].st \notin {"none", "aborted"}}
BaseDirt_Despawned == [s \in System |-> {e \in dirt[s] : <<s, e>> \notin Consumed}]
BaseDirt == [s \in System |->
    {e \in dirt[s] : <<s, e>> \notin Consumed /\ e \notin Despawning}]

SavesAt(step) == HasAdapter /\ SaveEvery # 0 /\ step % SaveEvery = 0

BarrierReady == phase = "exec" /\ Running = {}

BarrierCommit ==
    /\ BarrierReady
    /\ ~WriteConflict
    /\ ~UnknownSystem
    /\ Commit((alive \cup Shells) \ Despawning, NextComps, registered \cup NewSystems,
              OpChanges \cup EngineChanges, BaseDirt, Invalidations)
    /\ stepCount' = stepCount + 1
    /\ changed' = TRUE
    /\ phase' = IF SavesAt(stepCount + 1) THEN "saving" ELSE "loop"
    /\ exec' = [p \in Pair |-> NoExec]
    /\ last' = [p \in Pair |->
          IF exec[p].st \in {"ok", "failed", "timedOut"} THEN Saw(p, exec[p].st # "ok")
          ELSE IF exec[p].st = "vetoed" THEN Saw(p, last[p].failed)
          ELSE last[p]]
    /\ UNCHANGED <<nextId, runVars, execSeq, zombies, discarded>>

\* Staging throws: the run rejects with the step-start boundary untouched.
BarrierReject ==
    /\ BarrierReady
    /\ WriteConflict \/ UnknownSystem \/ (UserCodeThrows /\ UserCodeRuns)
    /\ phase' = "rejected"
    /\ exec' = [p \in Pair |-> NoExec]
    /\ discarded' = discarded \cup {exec[p].id : p \in Scheduled}
    /\ UNCHANGED <<stateVars, nextId, stepCount, changed, runVars, execSeq, zombies, last>>

(***************************************************************************)
(* Awaiting persist(): skipped when nothing changed since the last save.   *)
(***************************************************************************)
Persisted == changed' = (changed /\ ~HasAdapter)

SaveFails ==
    /\ phase \in {"saving", "final", "late"}
    /\ HasAdapter /\ changed /\ SaveMayFail
    /\ phase' = "rejected"
    /\ UNCHANGED <<stateVars, nextId, stepCount, changed, runVars, execVars, history>>

CadenceSave ==
    /\ phase = "saving"
    /\ Persisted
    /\ phase' = "loop"
    /\ UNCHANGED <<stateVars, nextId, stepCount, runVars, execVars, history>>

\* The status of a run, in order of precedence.
StatusNow ==
    LET carries(c) == \E e \in alive : comps[e][c] # {}
    IN IF cancelSeen THEN "cancelled"
       ELSE IF limitHit THEN "limit"
       ELSE IF steps = 0 THEN IF carries(Cancelled) THEN "cancelled" ELSE "idle"
       ELSE IF carries(SystemError) THEN "error"
       ELSE IF carries(AwaitingHuman) THEN "pending"
       ELSE "done"

Uncancelled_Deaf == phase = "final"
Uncancelled == phase = "final" /\ ~pendingCancel

FinalSave ==
    /\ Uncancelled
    /\ Persisted
    /\ status' = StatusNow
    /\ phase' = "resolved"
    /\ UNCHANGED <<stateVars, nextId, stepCount, steps, limitHit, cancelSeen,
                   pendingCancel, runCounter, execVars, history>>

\* A cancellation that landed during the run-end save is stamped after it.
LateStamp ==
    /\ phase = "final"
    /\ pendingCancel
    /\ pendingCancel' = FALSE
    /\ StampCancelled(stepCount + 1, Engine)
    /\ stepCount' = stepCount + 1
    /\ changed' = TRUE
    /\ phase' = "late"
    /\ UNCHANGED <<nextId, steps, limitHit, cancelSeen, status, runCounter, execVars, history>>

LateSave ==
    /\ phase = "late"
    /\ Persisted
    /\ status' = StatusNow
    /\ phase' = "resolved"
    /\ UNCHANGED <<stateVars, nextId, stepCount, steps, limitHit, cancelSeen,
                   pendingCancel, runCounter, execVars, history>>

\* driveLoop's promise has settled; its continuation clears runInFlight.
RunEnd ==
    /\ phase \in {"resolved", "rejected"}
    /\ phase' = "idle"
    /\ UNCHANGED <<stateVars, nextId, stepCount, changed, runVars, execVars, history>>

-----------------------------------------------------------------------------
Init ==
    /\ alive = {}
    /\ comps = [e \in Entity |-> NoComps]
    /\ registered = Initial
    /\ matched = [s \in System |-> {}]
    /\ dirt = [s \in System |-> {}]
    /\ nextId = 1
    /\ stepCount = 0
    /\ changed = FALSE
    /\ phase = "idle"
    /\ steps = 0
    /\ limitHit = FALSE
    /\ cancelSeen = FALSE
    /\ pendingCancel = FALSE
    /\ status = "none"
    /\ runCounter = 0
    /\ exec = [p \in Pair |-> NoExec]
    /\ execSeq = 0
    /\ zombies = {}
    /\ discarded = {}
    /\ last = [p \in Pair |-> [seen |-> NoComps, failed |-> FALSE]]

Application ==
    \/ \E s \in System : Use(s)
    \/ \E s \in System : UseFails(s)
    \/ \E item \in SpawnItems : SpawnExternal(item)
    \/ \E item \in SpawnItems : \E set \in SUBSET item[1], systems \in SUBSET item[2] :
          SpawnFails(item, set, systems)
    \/ \E e \in Entity, c \in ExternalWrites, mode \in {"add", "set"} : WriteExternal(e, c, mode)
    \/ \E e \in Entity, c \in ExternalWrites : RemoveExternal(e, c)
    \/ \E e \in Entity : DespawnExternal(e)
    \/ CancelIdle
    \/ CancelMidRun
    \/ Run

Bodies ==
    \E p \in Pair : PushOp(p) \/ Return(p) \/ Throw(p) \/ ThrowAbort(p)

Zombies == \E z \in zombies : ZombieSpawn(z) \/ ZombieSettle(z)

Loop ==
    \/ StampStep \/ Quiescent \/ LimitBreak \/ AllVetoed \/ StepStart
    \/ BarrierCommit \/ BarrierReject
    \/ CadenceSave \/ FinalSave \/ LateStamp \/ LateSave \/ SaveFails
    \/ RunEnd

Next ==
    \/ Application
    \/ Bodies
    \/ \E p \in Pair : Timeout(p)
    \/ Zombies
    \/ Loop

Spec == Init /\ [][Next]_vars

-----------------------------------------------------------------------------
(***************************************************************************)
(* Properties.                                                             *)
(***************************************************************************)
\* Every variable holds a value of its type.
TypeOK ==
    /\ alive \subseteq Entity
    /\ comps \in [Entity -> [Component -> SUBSET Token]]
    /\ registered \subseteq System
    /\ matched \in [System -> SUBSET Entity]
    /\ dirt \in [System -> SUBSET Entity]
    /\ nextId \in 1 .. MaxId + 1
    /\ stepCount \in Nat
    /\ changed \in BOOLEAN
    /\ phase \in Phase
    /\ steps \in Nat
    /\ limitHit \in BOOLEAN
    /\ cancelSeen \in BOOLEAN
    /\ pendingCancel \in BOOLEAN
    /\ status \in Status
    /\ runCounter \in Nat
    /\ exec \in [Pair -> [st : Outcome, id : Nat, ops : Seq(Op)]]
    /\ execSeq \in Nat
    /\ zombies \subseteq Nat
    /\ discarded \subseteq Nat
    /\ last \in [Pair -> [seen : [Component -> SUBSET Token], failed : BOOLEAN]]

\* A pair that matches and is not pending has seen, when it last ran or was
\* vetoed, every write another writer left in its positive components: the
\* engine never loses a wakeup (dirt rules R26, aborted pairs R50).
NoMissedInput ==
    \A s \in System, e \in Entity : e \in matched[s] \ dirt[s] =>
        \A c \in Include[s] : \A t \in comps[e][c] :
            t \in last[<<s, e>>].seen[c] \/ <<t[2], t[3]>> = <<s, e>>

\* No committed value shows a write of an execution that threw, was aborted,
\* timed out, or belonged to a step whose staging threw (R25, R30, R31, R52).
NoDiscardedEffect ==
    \A e \in Entity, c \in Component : \A t \in comps[e][c] :
        t[3] # 0 => t[1] \notin discarded

\* An error record on an entity belongs to a system whose latest finished
\* execution there failed: success clears exactly its own records (R32).
NoStaleError ==
    \A e \in Entity : \A t \in comps[e][SystemError] : last[<<t[2], e>>].failed

\* Pending pairs and match sets only name entities that exist: phantom dirt
\* never reaches a snapshot (R24, R35).
NoPhantomDirt == \A s \in System : matched[s] \cup dirt[s] \subseteq alive

\* Match sets are those of the committed components, whatever the loop is
\* doing, if no external call threw half-way (R26).
MatchedCurrent == \A s \in System : matched[s] = MatchSet(s, registered, alive, comps)

\* Allocated ids are fresh: a pending spawn names an id no entity has and no
\* other pending spawn names (ids are never reused, R13, R29).
FreshSpawns ==
    /\ \A e \in alive : e < nextId
    /\ \A p, q \in Pair : \A i \in 1 .. Len(exec[p].ops), j \in 1 .. Len(exec[q].ops) :
          exec[p].ops[i].kind = "spawn" =>
            /\ exec[p].ops[i].ent \notin alive
            /\ exec[p].ops[i].ent < nextId
            /\ exec[q].ops[j].kind = "spawn" /\ exec[q].ops[j].ent = exec[p].ops[i].ent
                  => <<p, i>> = <<q, j>>

\* A run that ends 'cancelled' after executing steps has stamped Cancelled on
\* every entity; after none, some entity carries it or all do (R50, R28).
CancelledMeansStamped ==
    phase = "resolved" /\ status = "cancelled" =>
        \/ \A e \in alive : comps[e][Cancelled] # {}
        \/ steps = 0 /\ \E e \in alive : comps[e][Cancelled] # {}

\* A run that ends on its own, neither cancelled nor at its limit, leaves no
\* pair that could still be scheduled (R25, R28).
QuiescentStatus ==
    phase = "resolved" /\ status \in {"idle", "done", "error", "pending"} => Candidates = {}

\* What a resolved run reports about itself is what the world then holds.
StatusIsTrue == CancelledMeansStamped /\ QuiescentStatus

\* A barrier commit is the step that leaves phase "exec" with a new step count.
Committing == phase = "exec" /\ stepCount' = stepCount + 1

\* Every reducer merge of a successful pair survives the barrier, however many
\* pairs merge into the same component of the same entity, unless an operation
\* of the same step overwrites, removes, spawns or despawns (R25, R30).
MergesAllLand ==
    [][Committing =>
         \A k \in Positions : \A c \in (OpAt(k).comps \cap Reducer) \ {SystemError} :
            OpAt(k).kind = "add" /\ OpAt(k).ent \in alive' =>
               \/ <<exec[k[1]].id, k[1][1], k[1][2]>> \in comps'[OpAt(k).ent][c]
               \/ \E l \in Positions : /\ OpAt(l).ent = OpAt(k).ent
                                       /\ OpAt(l).kind \in {"set", "remove", "spawn"}
                                       /\ c \in OpAt(l).comps]_vars

\* A failed or timed-out execution becomes an error record on its entity, if
\* the entity survives the step; an aborted one leaves none (R31, R50, R52).
FailureRecorded ==
    [][Committing =>
         \A p \in Pair : p[2] \in alive' =>
            (exec[p].st \in {"failed", "timedOut"}
               <=> <<stepCount', p[1], 0>> \in comps'[p[2]][SystemError])]_vars

\* Once a cancellation has been requested the run starts no further step (R50).
CancelStopsScheduling == [][cancelSeen /\ cancelSeen' => steps' = steps]_vars

\* "Every path that mutates committed state must bump that revision" (R58):
\* an idle change of what a snapshot holds is never believed to be saved.
MutationsMarked ==
    [][phase = "idle" /\ <<alive, comps, dirt, nextId>>' # <<alive, comps, dirt, nextId>>
         => changed']_vars

Stamped == \A e \in alive : comps[e][Cancelled] # {}

\* "A cancel landing during the run-end save must not vanish" (driveLoop): when
\* a run resolves, every cancel() made while it ran has been stamped.
ResolvedRunKeepsCancel ==
    [][phase = "resolved" /\ phase' = "idle" /\ cancelSeen => Stamped]_vars

(***************************************************************************)
(* Liveness.  The event loop and the adapter keep going, and a timer fires *)
(* once it is due; nothing is assumed of the bodies, which may hang.       *)
(***************************************************************************)
Fairness == WF_vars(Loop) /\ \A p \in Pair : WF_vars(Timeout(p))
FairSpec == Spec /\ Fairness

\* Every run ends, even when bodies never settle, if their systems are timed
\* (R52): no step waits forever and no run steps forever.
RunTerminates == (phase # "idle") ~> (phase = "idle")
=============================================================================
