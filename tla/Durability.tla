----------------------------- MODULE Durability -----------------------------
(***************************************************************************)
(* What survives of a world when its process dies: the engine's saves, the *)
(* two persistence adapters, loading, and rewinding to an earlier step.    *)
(*                                                                         *)
(* The committed state of the world (entities, pending pairs and the id    *)
(* counter) is one number, `content`: 0 for the empty world, a new number  *)
(* for each change.  A boundary, and a snapshot, is the content with the   *)
(* step counter.  World models what happens inside a step; here a step     *)
(* either commits or rejects.                                              *)
(*                                                                         *)
(* As in World, X_Variant is X with a plausible defect; nothing uses it.   *)
(***************************************************************************)
EXTENDS Integers, Sequences, FiniteSets

CONSTANTS
    Adapters,       \* the adapters considered: TRUE is fsAdapter, FALSE MemoryAdapter
    SaveEvery,      \* 0 = 'quiescence', n = after every n-th step
    SaveMayFail,    \* TRUE: a write of the file adapter may fail
    BarrierRejects, \* TRUE: the barrier of a step may reject the run
    Rewinding,      \* the adapters with which the application loads earlier steps
    HooksMayThrow,  \* TRUE: a component's deserialize hook may throw
    SpawnsMayThrow, \* TRUE: an external spawn may throw half-way
    TraceKeep,      \* capacity of the flight recorder
    MaxStep,        \* bound: committed steps
    MaxContent      \* bound: changes of committed state

ASSUME DurabilityAssumption ==
    /\ Adapters \subseteq BOOLEAN /\ {SaveMayFail, BarrierRejects} \subseteq BOOLEAN
    /\ {HooksMayThrow, SpawnsMayThrow} \subseteq BOOLEAN /\ Rewinding \subseteq BOOLEAN
    /\ SaveEvery \in Nat /\ TraceKeep \in Nat
    /\ MaxStep \in Nat /\ MaxContent \in Nat

VARIABLES
    up,         \* the process holding the world is alive
    world,      \* the committed boundary
    changed,    \* revision # savedRevision
    phase,      \* where the run loop stands
    trace,      \* step numbers in the flight recorder
    write,      \* the save in progress and the write it is about to do
    files,      \* stored snapshot of each step (step-N.json, or history map)
    latest,     \* latest.json (file adapter)
    fileAdapter,\* the world's adapter
    made,       \* contents made so far
    acked,      \* history: the last snapshot whose save resolved
    attempted,  \* history: snapshots whose save was begun since then
    torn        \* history: a load or a spawn threw half-way, and nothing was saved
                \* or loaded since

store == <<files, latest, fileAdapter>>
history == <<acked, attempted, torn>>
vars == <<up, world, changed, phase, trace, write, store, made, history>>

Boundary == [step : 0 .. MaxStep, content : 0 .. MaxContent]
Empty == [step |-> 0, content |-> 0]
None == [step |-> 0, content |-> -1]
Stage == {"step", "latest", "done"}
NoWrite == [snap |-> None, at |-> "done"]
Phase == {"idle", "loop", "saving", "ending", "ended", "late", "closed"}

Stored(b) == b \in {latest, files[b.step]}
Persisted == ~changed /\ (world.content = 0 \/ Stored(world))

(***************************************************************************)
(* The committed state after a change, `steps` steps later.                *)
(***************************************************************************)
Advance(steps) ==
    /\ made < MaxContent
    /\ world.step + steps <= MaxStep
    /\ made' = made + 1
    /\ world' = [step |-> world.step + steps, content |-> made + 1]

\* pushTrace: a ring buffer of the last TraceKeep entries.
Traced_Done(step) ==
    LET longer == Append(trace, step - 1)
    IN IF TraceKeep = 0 THEN trace
       ELSE IF Len(longer) > TraceKeep THEN Tail(longer) ELSE longer
Traced(step) ==
    LET longer == Append(trace, step)
    IN IF TraceKeep = 0 THEN trace
       ELSE IF Len(longer) > TraceKeep THEN Tail(longer) ELSE longer

(***************************************************************************)
(* The engine.                                                             *)
(***************************************************************************)
\* A mutation from outside: spawn, despawn, write, remove, use, idle cancel.
Mutate ==
    /\ up /\ phase = "idle"
    /\ Advance(0)
    /\ changed' = TRUE
    /\ UNCHANGED <<up, phase, trace, write, store, history>>

\* A spawn from outside throws half-way: the entity is inserted and the id counter
\* moved when an agent cannot be registered or a value cannot be copied.  Nothing is
\* marked.
SpawnThrows ==
    /\ up /\ phase = "idle" /\ SpawnsMayThrow
    /\ Advance(0)
    /\ torn' = TRUE
    /\ UNCHANGED <<up, changed, phase, trace, write, store, acked, attempted>>

StartRun ==
    /\ up /\ phase = "idle"
    /\ phase' = "loop"
    /\ UNCHANGED <<up, world, changed, trace, write, store, made, history>>

SavesAt(step) == SaveEvery # 0 /\ step % SaveEvery = 0

\* A step commits; or a cancellation is stamped, which ends the run.
Step ==
    /\ up /\ phase = "loop"
    /\ Advance(1)
    /\ changed' = TRUE
    /\ trace' = Traced(world.step + 1)
    /\ phase' \in {IF SavesAt(world.step + 1) THEN "saving" ELSE "loop", "ending"}
    /\ UNCHANGED <<up, write, store, history>>

\* A pending pair needs an entity, so the empty world has none.
Candidates == world.content # 0

\* Staging throws: the boundary stays, and so does the revision.
Reject ==
    /\ up /\ phase = "loop" /\ Candidates /\ BarrierRejects
    /\ phase' = "idle"
    /\ UNCHANGED <<up, world, changed, trace, write, store, made, history>>

\* Every candidate vetoed: pending pairs are consumed, no step is counted.
AllVetoed_Unmarked ==
    /\ up /\ phase = "loop" /\ Candidates
    /\ Advance(0)
    /\ trace' = Traced(world.step + 1)
    /\ phase' = "ending"
    /\ UNCHANGED <<up, changed, write, store, history>>
AllVetoed ==
    /\ up /\ phase = "loop" /\ Candidates
    /\ Advance(0)
    /\ changed' = TRUE
    /\ trace' = Traced(world.step + 1)
    /\ phase' = "ending"
    /\ UNCHANGED <<up, write, store, history>>

\* Nothing left to schedule, or the step limit.
Quiesce ==
    /\ up /\ phase = "loop"
    /\ phase' = "ending"
    /\ UNCHANGED <<up, world, changed, trace, write, store, made, history>>

\* A cancellation that landed during the run-end save.
LateStamp ==
    /\ up /\ phase = "ended"
    /\ Advance(1)
    /\ changed' = TRUE
    /\ trace' = Traced(world.step + 1)
    /\ phase' = "late"
    /\ UNCHANGED <<up, write, store, history>>

RunResolves ==
    /\ up /\ phase \in {"ended", "closed"}
    /\ phase' = "idle"
    /\ UNCHANGED <<up, world, changed, trace, write, store, made, history>>

(***************************************************************************)
(* persist(): skipped when nothing changed, else the snapshot is taken     *)
(* and adapter.save awaited.                                               *)
(***************************************************************************)
AfterSave == [saving |-> "loop", ending |-> "ended", late |-> "closed"][phase]

Saving == up /\ phase \in {"saving", "ending", "late"}

SkipSave ==
    /\ Saving /\ write = NoWrite
    /\ ~changed
    /\ phase' = AfterSave
    /\ UNCHANGED <<up, world, changed, trace, write, store, made, history>>

BeginSave ==
    /\ Saving /\ write = NoWrite
    /\ changed
    /\ write' = [snap |-> world, at |-> "step"]
    /\ attempted' = attempted \cup {world}
    /\ UNCHANGED <<up, world, changed, phase, trace, store, made, acked, torn>>

\* The step's file is renamed into place (or the history map is set).
WriteStep ==
    /\ Saving /\ write.at = "step"
    /\ files' = [files EXCEPT ![write.snap.step] = write.snap]
    /\ write' = [write EXCEPT !.at = IF fileAdapter THEN "latest" ELSE "done"]
    /\ UNCHANGED <<up, world, changed, phase, trace, latest, fileAdapter, made, history>>

WriteLatest ==
    /\ Saving /\ write.at = "latest"
    /\ latest' = write.snap
    /\ write' = [write EXCEPT !.at = "done"]
    /\ UNCHANGED <<up, world, changed, phase, trace, files, fileAdapter, made, history>>

SaveResolves ==
    /\ Saving /\ write # NoWrite /\ write.at = "done"
    /\ changed' = FALSE
    /\ acked' = write.snap
    /\ attempted' = {} /\ torn' = FALSE
    /\ write' = NoWrite
    /\ phase' = AfterSave
    /\ UNCHANGED <<up, world, trace, store, made>>

\* A write fails: adapter.save rejects, and so does the run.
SaveFails_Believed ==
    /\ Saving /\ SaveMayFail /\ fileAdapter /\ write.at \in {"step", "latest"}
    /\ changed' = FALSE
    /\ write' = NoWrite
    /\ phase' = "idle"
    /\ UNCHANGED <<up, world, trace, store, made, history>>
SaveFails ==
    /\ Saving /\ SaveMayFail /\ fileAdapter /\ write.at \in {"step", "latest"}
    /\ write' = NoWrite
    /\ phase' = "idle"
    /\ UNCHANGED <<up, world, changed, trace, store, made, history>>

(***************************************************************************)
(* adapter.load and world.load.                                            *)
(***************************************************************************)
HasFile == {n \in 0 .. MaxStep : files[n] # None}
Newest == IF HasFile = {} THEN None
          ELSE files[CHOOSE n \in HasFile : \A m \in HasFile : m <= n]
Load_StepFile == Newest
Load == IF fileAdapter /\ latest # None THEN latest ELSE Newest

Loaded(snap) ==
    /\ world' = snap
    /\ changed' = FALSE
    /\ trace' = <<>>
    /\ torn' = FALSE

\* The process dies, with the world, its queues and the call in progress.
Crash ==
    /\ up
    /\ up' = FALSE
    /\ world' = Empty
    /\ changed' = FALSE
    /\ phase' = "idle"
    /\ trace' = <<>>
    /\ write' = NoWrite
    /\ torn' = FALSE
    /\ UNCHANGED <<store, made, acked, attempted>>

\* A new process: createWorld, use, and load what the adapter has.
Restart ==
    /\ ~up
    /\ up' = TRUE
    /\ Loaded(IF Load = None THEN Empty ELSE Load)
    /\ acked' = IF Load = None THEN acked ELSE Load
    /\ attempted' = IF Load = None THEN attempted ELSE {}
    /\ UNCHANGED <<phase, write, store, made>>

\* Time travel in place: world.load(await adapter.loadStep(id, n)).
Rewind_Mixed(n) ==
    /\ up /\ phase = "idle" /\ fileAdapter \in Rewinding
    /\ n \in HasFile
    /\ world' = files[n]
    /\ changed' = FALSE
    /\ torn' = FALSE
    /\ UNCHANGED <<up, phase, trace, write, store, made, acked, attempted>>
Rewind(n) ==
    /\ up /\ phase = "idle" /\ fileAdapter \in Rewinding
    /\ n \in HasFile
    /\ Loaded(files[n])
    /\ UNCHANGED <<up, phase, write, store, made, acked, attempted>>

\* A deserialize hook throws half-way through a load: entities are those
\* restored so far, the counters are still the old ones.
LoadThrows(n) ==
    /\ up /\ phase = "idle" /\ HooksMayThrow
    /\ n \in HasFile
    /\ made < MaxContent
    /\ made' = made + 1
    /\ world' = [world EXCEPT !.content = made + 1]
    /\ trace' = <<>>
    /\ torn' = TRUE
    /\ UNCHANGED <<up, changed, phase, write, store, acked, attempted>>

-----------------------------------------------------------------------------
Init ==
    /\ up = TRUE
    /\ world = Empty
    /\ changed = FALSE
    /\ phase = "idle"
    /\ trace = <<>>
    /\ write = NoWrite
    /\ files = [n \in 0 .. MaxStep |-> None]
    /\ latest = None
    /\ made = 0
    /\ acked = None
    /\ attempted = {}
    /\ fileAdapter \in Adapters
    /\ torn = FALSE

Engine == Mutate \/ SpawnThrows \/ StartRun \/ Step \/ Reject \/ AllVetoed \/ Quiesce \/ LateStamp
          \/ RunResolves
Persist == SkipSave \/ BeginSave \/ WriteStep \/ WriteLatest \/ SaveResolves \/ SaveFails
Loads == Restart \/ \E n \in 0 .. MaxStep : Rewind(n) \/ LoadThrows(n)

Next == Engine \/ Persist \/ Loads \/ Crash

Spec == Init /\ [][Next]_vars

-----------------------------------------------------------------------------
\* Every variable holds a value of its type.
TypeOK ==
    /\ up \in BOOLEAN
    /\ world \in Boundary
    /\ changed \in BOOLEAN
    /\ phase \in Phase
    /\ trace \in Seq(1 .. MaxStep + 1)
    /\ write \in [snap : Boundary \cup {None}, at : Stage]
    /\ files \in [0 .. MaxStep -> Boundary \cup {None}]
    /\ latest \in Boundary \cup {None}
    /\ made \in 0 .. MaxContent
    /\ acked \in Boundary \cup {None}
    /\ attempted \subseteq Boundary
    /\ fileAdapter \in Adapters /\ torn \in BOOLEAN

\* A boundary the engine believes to be saved can be loaded again: whatever
\* the order of mutations, vetoes, rejected runs, failed writes, crashes and
\* rewinds, it is never skipped by the next save while the store lacks it (R58).
\* The exceptions are what a load or an external spawn that threw half-way has left:
\* it moves no revision, so a world saved before counts as saved still.
SavedIsStored == up /\ ~changed /\ ~torn => world.content = 0 \/ Stored(world)

\* "A quiesced world is never left unpersisted": when a run resolves, the store
\* has the boundary it ended at, also if it committed no step (R58, R50).  The code
\* keeps this only until something throws half-way (torn): such a run may skip its
\* save and leave the world unpersisted.
QuiescedIsPersisted ==
    [][up' /\ ~torn /\ phase \in {"ended", "closed"} /\ phase' = "idle" => Persisted]_vars

\* After a crash the world comes back as of the last save that resolved, or of
\* one begun after it; nothing acknowledged is lost, even by rewinds (R36, R37).
RestartLosesNothingAcked ==
    [][~up /\ up' =>
         world' \in attempted \cup {IF acked = None THEN Empty ELSE acked}]_vars

\* The flight recorder never mixes two histories: its entries are in order and
\* none is ahead of the step being worked on (R36, R42).
TraceIsOneTimeline ==
    /\ \A i, j \in 1 .. Len(trace) : i < j => trace[i] <= trace[j]
    /\ \A i \in 1 .. Len(trace) : trace[i] <= world.step + 1

\* "A crash between the step file and latest.json is tolerated: load() falls
\* back to the newest step file" (guide on persistence).
RestartUsesNewestFile ==
    [][~up /\ up' => \A n \in HasFile : n <= world'.step]_vars

\* "A failed load leaves the old trace intact" (WorldImpl.load): an idle world
\* drops its trace only for a snapshot it did load.
FailedLoadKeepsTrace ==
    [][up /\ up' /\ trace' # trace /\ phase = "idle" => \E n \in HasFile : world' = files[n]]_vars
=============================================================================
