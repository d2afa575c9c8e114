-------------------------- MODULE DurabilityProofs --------------------------
(***************************************************************************)
(* Proofs about Durability, for every cadence, capacity and bound.         *)
(***************************************************************************)
EXTENDS Durability, TLAPS, WellFoundedInduction

\* A non-empty set of naturals with an upper bound has a greatest element.
LEMMA Greatest ==
    ASSUME NEW b \in Nat, NEW S \in SUBSET (0 .. b), S # {}
    PROVE  \E n \in S : \A m \in S : m <= n
<1> DEFINE Gap == {x \in Nat : b - x \in S}
<1>1. Gap \subseteq Nat /\ Gap # {}
  <2>1. PICK n \in S : TRUE
    OBVIOUS
  <2>2. b - n \in Nat /\ b - (b - n) = n
    BY <2>1
  <2> QED
    BY <2>1, <2>2
<1>2. PICK x \in Gap : \A y \in Gap : ~ (<<y, x>> \in OpToRel(<, Nat))
  <2> HIDE DEF Gap
  <2> QED
    BY <1>1, WFMin, NatLessThanWellFounded
<1>3. \A y \in Gap : x <= y
  <2> TAKE y \in Gap
  <2>1. x \in Nat /\ y \in Nat
    OBVIOUS
  <2>2. ~(y < x)
    BY <1>2, <2>1, Zenon DEF OpToRel
  <2> QED
    BY <2>1, <2>2
<1>4. ASSUME NEW m \in S PROVE m <= b - x
  <2>1. b - m \in Nat /\ b - (b - m) = m
    OBVIOUS
  <2>2. b - m \in Gap
    BY <2>1
  <2>3. x <= b - m
    BY <2>2, <1>3
  <2>4. x \in Nat /\ m \in Nat
    OBVIOUS
  <2> QED
    BY <2>3, <2>4
<1>5. b - x \in S
  OBVIOUS
<1> QED
  BY <1>4, <1>5

-----------------------------------------------------------------------------
Snap == Boundary \cup {None}

\* The newest step file is a stored snapshot, the one of the greatest step.
LEMMA NewestFile ==
    ASSUME HasFile # {}
    PROVE  \E n \in HasFile : (\A m \in HasFile : m <= n) /\ Newest = files[n]
<1>1. HasFile \in SUBSET (0 .. MaxStep)
  BY DEF HasFile
<1>2. \E n \in HasFile : \A m \in HasFile : m <= n
  BY <1>1, Greatest, DurabilityAssumption
<1> QED
  BY <1>2 DEF Newest

\* What a new process loads is a boundary, or nothing.
LEMMA LoadType ==
    ASSUME TypeOK
    PROVE  Load \in Snap
<1>1. Newest \in Snap
  <2>1. CASE HasFile = {}
    BY <2>1 DEF Newest, Snap
  <2>2. CASE HasFile # {}
    BY <2>2, NewestFile DEF HasFile, TypeOK, Snap
  <2> QED
    BY <2>1, <2>2
<1> QED
  BY <1>1 DEF Load, TypeOK, Snap

LEMMA TracedType ==
    ASSUME NEW n \in 1 .. MaxStep + 1, trace \in Seq(1 .. MaxStep + 1)
    PROVE  Traced(n) \in Seq(1 .. MaxStep + 1)
<1> DEFINE longer == Append(trace, n)
<1>1. longer \in Seq(1 .. MaxStep + 1) /\ longer # <<>>
  OBVIOUS
<1>2. Tail(longer) \in Seq(1 .. MaxStep + 1)
  <2> HIDE DEF longer
  <2> QED
    BY <1>1
<1> QED
  BY <1>1, <1>2 DEF Traced

\* Every variable keeps its type (TypeOK), for all bounds and cadences.
THEOREM DurabilityTyped == Spec => []TypeOK
<1> USE DurabilityAssumption
<1>1. Init => TypeOK
  BY DEF Init, TypeOK, Boundary, Empty, None, NoWrite, Phase, Stage
<1>2. TypeOK /\ [Next]_vars => TypeOK'
  <2> SUFFICES ASSUME TypeOK, [Next]_vars PROVE TypeOK'
    OBVIOUS
  <2> USE DEF TypeOK
  <2>0. world.step \in 0 .. MaxStep /\ world.content \in 0 .. MaxContent
    BY DEF Boundary
  <2>a. ASSUME NEW n \in {0, 1}, Advance(n)
        PROVE  made' \in 0 .. MaxContent /\ world' \in Boundary
    BY <2>0, <2>a DEF Advance, Boundary
  <2>b. Traced(world.step + 1) \in Seq(1 .. MaxStep + 1)
    BY <2>0, TracedType
  <2>c. ASSUME Saving PROVE AfterSave \in Phase
    BY <2>c DEF Saving, AfterSave, Phase
  <2>1. CASE Mutate
    BY <2>1, <2>a DEF Mutate, store, history
  <2>1t. CASE SpawnThrows
    BY <2>1t, <2>a DEF SpawnThrows, store
  <2>2. CASE StartRun
    BY <2>2 DEF StartRun, store, history, Phase
  <2>3. CASE Step
    BY <2>3, <2>a, <2>b DEF Step, store, history, Phase
  <2>4. CASE Reject
    BY <2>4 DEF Reject, store, history, Phase
  <2>5. CASE AllVetoed
    BY <2>5, <2>a, <2>b DEF AllVetoed, store, history, Phase
  <2>6. CASE Quiesce
    BY <2>6 DEF Quiesce, store, history, Phase
  <2>7. CASE LateStamp
    BY <2>7, <2>a, <2>b DEF LateStamp, store, history, Phase
  <2>8. CASE RunResolves
    BY <2>8, <2>0 DEF RunResolves, store, history, Phase
  <2>9. CASE SkipSave
    BY <2>9, <2>c DEF SkipSave, store, history
  <2>10. CASE BeginSave
    BY <2>10 DEF BeginSave, store, history, Stage
  <2>11. CASE WriteStep
    BY <2>11 DEF WriteStep, history, Stage
  <2>12. CASE WriteLatest
    BY <2>12 DEF WriteLatest, history, Stage
  <2>13. CASE SaveResolves
    BY <2>13, <2>c DEF SaveResolves, store, NoWrite, Stage
  <2>14. CASE SaveFails
    BY <2>14 DEF SaveFails, store, history, NoWrite, Stage, Phase
  <2>15. CASE Restart
    <3>1. (IF Load = None THEN Empty ELSE Load) \in Boundary
      BY LoadType DEF Snap, Empty, Boundary
    <3>2. <<>> \in Seq(1 .. MaxStep + 1)
      OBVIOUS
    <3> QED
      BY <2>15, <3>1, <3>2, LoadType DEF Restart, Loaded, store, Snap
  <2>16. ASSUME NEW n \in 0 .. MaxStep, Rewind(n) PROVE TypeOK'
    <3>1. world' \in Boundary
      BY <2>16 DEF Rewind, Loaded, HasFile
    <3>2. trace' = <<>> /\ changed' = FALSE
      BY <2>16 DEF Rewind, Loaded
    <3>3. <<>> \in Seq(1 .. MaxStep + 1)
      OBVIOUS
    <3> QED
      BY <2>16, <3>1, <3>2, <3>3 DEF Rewind, store, history
  <2>17. ASSUME NEW n \in 0 .. MaxStep, LoadThrows(n) PROVE TypeOK'
    <3>1. made' \in 0 .. MaxContent
      BY <2>17 DEF LoadThrows
    <3>2. world' \in Boundary
      <4>1. made < MaxContent /\ made + 1 \in 0 .. MaxContent
        BY <2>17 DEF LoadThrows
      <4>2. world' = [world EXCEPT !.content = made + 1]
        BY <2>17 DEF LoadThrows
      <4> QED
        BY <4>1, <4>2 DEF Boundary
    <3> QED
      BY <2>17, <3>1, <3>2 DEF LoadThrows, store, history
  <2>18. CASE Crash
    <3>1. Empty \in Boundary /\ NoWrite \in [snap : Boundary \cup {None}, at : Stage]
      BY DEF Empty, Boundary, NoWrite, Stage
    <3>2. "idle" \in Phase /\ <<>> \in Seq(1 .. MaxStep + 1)
      BY DEF Phase
    <3> QED
      BY <2>18, <3>1, <3>2 DEF Crash, store, history
  <2>19. CASE UNCHANGED vars
    BY <2>19 DEF vars, store, history
  <2> QED
    BY <2>1, <2>1t, <2>2, <2>3, <2>4, <2>5, <2>6, <2>7, <2>8, <2>9, <2>10, <2>11, <2>12,
       <2>13, <2>14, <2>15, <2>16, <2>17, <2>18, <2>19
    DEF Next, Engine, Persist, Loads
<1> QED
  BY <1>1, <1>2, PTL DEF Spec

-----------------------------------------------------------------------------
\* A step file holds the snapshot of its step.
FilesByStep == \A n \in 0 .. MaxStep : files[n] # None => files[n].step = n

\* A save in progress writes the boundary that is still current, and what its
\* finished part has put into the store is that boundary.
WriteOK ==
    /\ ~up => phase = "idle"
    /\ phase \notin {"saving", "ending", "late"} => write = NoWrite
    /\ write # NoWrite => changed /\ write.snap = world /\ world \in attempted
    /\ write.at = "latest" => files[world.step] = world
    /\ write # NoWrite /\ write.at = "done" => Stored(world) /\ (fileAdapter => latest = world)
    /\ phase \in {"ended", "closed"} => ~changed

\* FilesByStep and WriteOK hold in every reachable state.
THEOREM SavesAreOrdered == Spec => [](FilesByStep /\ WriteOK)
<1> USE DurabilityAssumption
<1>1. Init => FilesByStep /\ WriteOK
  BY DEF Init, FilesByStep, WriteOK, NoWrite
<1>2. TypeOK /\ FilesByStep /\ WriteOK /\ [Next]_vars => FilesByStep' /\ WriteOK'
  <2> SUFFICES ASSUME TypeOK, FilesByStep, WriteOK, [Next]_vars
               PROVE  FilesByStep' /\ WriteOK'
    OBVIOUS
  <2>1. CASE Mutate
    BY <2>1 DEF Mutate, store, history, FilesByStep, WriteOK, NoWrite
  <2>1t. CASE SpawnThrows
    BY <2>1t DEF SpawnThrows, store, FilesByStep, WriteOK, NoWrite
  <2>2. CASE StartRun
    BY <2>2 DEF StartRun, store, history, FilesByStep, WriteOK, NoWrite
  <2>3. CASE Step
    BY <2>3 DEF Step, store, history, FilesByStep, WriteOK, NoWrite
  <2>4. CASE Reject
    BY <2>4 DEF Reject, store, history, FilesByStep, WriteOK, NoWrite
  <2>5. CASE AllVetoed
    BY <2>5 DEF AllVetoed, store, history, FilesByStep, WriteOK, NoWrite
  <2>6. CASE Quiesce
    BY <2>6 DEF Quiesce, store, history, FilesByStep, WriteOK, NoWrite
  <2>7. CASE LateStamp
    BY <2>7 DEF LateStamp, store, history, FilesByStep, WriteOK, NoWrite
  <2>8. CASE RunResolves
    BY <2>8 DEF RunResolves, store, FilesByStep, WriteOK, NoWrite
  <2>9. CASE SkipSave
    BY <2>9 DEF SkipSave, Saving, AfterSave, store, history, FilesByStep, WriteOK, NoWrite
  <2>10. CASE BeginSave
    BY <2>10 DEF BeginSave, Saving, store, FilesByStep, WriteOK, NoWrite, Stored
  <2>11. CASE WriteStep
    <3>1. write # NoWrite /\ write.snap = world /\ world.step \in 0 .. MaxStep
      BY <2>11 DEF WriteStep, NoWrite, WriteOK, TypeOK, Boundary
    <3>2. files' = [files EXCEPT ![world.step] = world]
      BY <2>11, <3>1 DEF WriteStep
    <3>3. FilesByStep'
      BY <3>1, <3>2 DEF FilesByStep, TypeOK
    <3>4. files'[world.step] = world /\ write'.snap = world
      BY <2>11, <3>1, <3>2 DEF WriteStep, TypeOK
    <3>5. write'.at = IF fileAdapter THEN "latest" ELSE "done"
      BY <2>11 DEF WriteStep, TypeOK
    <3>6. WriteOK'
      BY <2>11, <3>1, <3>4, <3>5 DEF WriteStep, Saving, WriteOK, Stored, history
    <3> QED
      BY <3>3, <3>6
  <2>12. CASE WriteLatest
    <3>1. write # NoWrite /\ write.snap = world
      BY <2>12 DEF WriteLatest, NoWrite, WriteOK
    <3>2. latest' = world /\ write'.snap = world /\ write'.at = "done"
      BY <2>12, <3>1 DEF WriteLatest, TypeOK
    <3>3. WriteOK'
      BY <2>12, <3>1, <3>2 DEF WriteLatest, Saving, WriteOK, Stored, history
    <3> QED
      BY <2>12, <3>3 DEF WriteLatest, FilesByStep
  <2>13. CASE SaveResolves
    BY <2>13 DEF SaveResolves, Saving, AfterSave, store, FilesByStep, WriteOK, NoWrite
  <2>14. CASE SaveFails
    BY <2>14 DEF SaveFails, Saving, store, history, FilesByStep, WriteOK, NoWrite
  <2>15. CASE Restart
    BY <2>15 DEF Restart, Loaded, store, FilesByStep, WriteOK, NoWrite
  <2>16. ASSUME NEW n \in 0 .. MaxStep, Rewind(n) PROVE FilesByStep' /\ WriteOK'
    BY <2>16 DEF Rewind, Loaded, store, history, FilesByStep, WriteOK, NoWrite
  <2>17. ASSUME NEW n \in 0 .. MaxStep, LoadThrows(n) PROVE FilesByStep' /\ WriteOK'
    BY <2>17 DEF LoadThrows, store, history, FilesByStep, WriteOK, NoWrite
  <2>18. CASE Crash
    BY <2>18 DEF Crash, store, history, FilesByStep, WriteOK, NoWrite
  <2>19. CASE UNCHANGED vars
    BY <2>19 DEF vars, store, history, FilesByStep, WriteOK, Stored
  <2> QED
    BY <2>1, <2>1t, <2>2, <2>3, <2>4, <2>5, <2>6, <2>7, <2>8, <2>9, <2>10, <2>11, <2>12,
       <2>13, <2>14, <2>15, <2>16, <2>17, <2>18, <2>19
    DEF Next, Engine, Persist, Loads
<1> QED
  BY <1>1, <1>2, DurabilityTyped, PTL DEF Spec

-----------------------------------------------------------------------------
\* SavedIsStored: whatever the engine will not save again can be loaded from the
\* adapter, but for what a load or a spawn that threw half-way has left: they alone
\* move the boundary without the revision.  Only a load makes the world
\* unchanged without a save, and it takes the boundary from the store.
THEOREM UnchangedIsStored == Spec => []SavedIsStored
<1>1. Init => SavedIsStored
  BY DEF Init, SavedIsStored, Empty
<1>2. TypeOK /\ FilesByStep /\ WriteOK /\ SavedIsStored /\ [Next]_vars => SavedIsStored'
  <2> SUFFICES ASSUME TypeOK, FilesByStep, WriteOK, SavedIsStored, [Next]_vars
               PROVE  SavedIsStored'
    OBVIOUS
  <2> USE DEF SavedIsStored, Stored
  <2>1. CASE Mutate \/ Step \/ AllVetoed \/ LateStamp
    BY <2>1 DEF Mutate, Step, AllVetoed, LateStamp, store, history
  <2>1t. CASE SpawnThrows
    BY <2>1t DEF SpawnThrows
  <2>2. CASE StartRun \/ Reject \/ Quiesce \/ RunResolves \/ SkipSave \/ BeginSave \/ SaveFails
    BY <2>2 DEF StartRun, Reject, Quiesce, RunResolves, SkipSave, BeginSave, SaveFails, store, history
  <2>3. CASE WriteStep \/ WriteLatest
    <3>1. write.at # "done"
      BY <2>3 DEF WriteStep, WriteLatest
    <3>2. changed
      BY <3>1 DEF NoWrite, WriteOK
    <3>3. changed' = changed
      BY <2>3 DEF WriteStep, WriteLatest
    <3> QED
      BY <3>2, <3>3
  <2>4. CASE SaveResolves
    BY <2>4 DEF SaveResolves, WriteOK, store
  <2>5. ASSUME NEW n \in HasFile PROVE Stored(files[n])
    BY <2>5 DEF HasFile, FilesByStep
  <2>6. CASE Restart
    <3>1. CASE Load = None
      BY <2>6, <3>1 DEF Restart, Loaded, Empty
    <3>2. CASE Load # None
      <4>1. Stored(Load)
        <5>1. CASE Load = latest
          BY <5>1
        <5>2. CASE Load # latest
          <6>1. Load = Newest /\ HasFile # {}
            BY <3>2, <5>2 DEF Load, Newest
          <6> QED
            BY <6>1, NewestFile, <2>5
        <5> QED
          BY <5>1, <5>2
      <4> QED
        BY <2>6, <3>2, <4>1 DEF Restart, Loaded, store
    <3> QED
      BY <3>1, <3>2
  <2>7. ASSUME NEW n \in 0 .. MaxStep, Rewind(n) PROVE SavedIsStored'
    BY <2>5, <2>7 DEF Rewind, Loaded, store
  <2>8. ASSUME NEW n \in 0 .. MaxStep, LoadThrows(n) PROVE SavedIsStored'
    BY <2>8 DEF LoadThrows
  <2>9. CASE Crash
    BY <2>9 DEF Crash
  <2>10. CASE UNCHANGED vars
    BY <2>10 DEF vars, store, history
  <2> QED
    BY <2>1, <2>1t, <2>2, <2>3, <2>4, <2>6, <2>7, <2>8, <2>9, <2>10
    DEF Next, Engine, Persist, Loads
<1> QED
  BY <1>1, <1>2, DurabilityTyped, SavesAreOrdered, PTL DEF Spec

\* QuiescedIsPersisted: with the same exceptions, a run resolves only when the
\* boundary it leaves is in the store.
THEOREM ResolvedMeansStored == Spec => QuiescedIsPersisted
<1>1. WriteOK /\ SavedIsStored /\ [Next]_vars
        => [up' /\ ~torn /\ phase \in {"ended", "closed"} /\ phase' = "idle" => Persisted]_vars
  <2> SUFFICES ASSUME WriteOK, SavedIsStored, ~torn, phase \in {"ended", "closed"}
               PROVE  Persisted
    OBVIOUS
  <2> QED
    BY DEF WriteOK, SavedIsStored, Persisted
<1> QED
  BY <1>1, UnchangedIsStored, SavesAreOrdered, PTL DEF Spec, QuiescedIsPersisted

-----------------------------------------------------------------------------
\* What the next process would start from is the last acknowledged snapshot, or
\* one whose save was begun since.
AtHand == IF Load = None THEN Empty ELSE Load
Expected == attempted \cup {IF acked = None THEN Empty ELSE acked}

\* The memory adapter has no latest snapshot: it loads the one of the greatest step,
\* which is none that the world has not come to, if nobody rewinds it.
MemoryAhead ==
    ~fileAdapter => /\ latest = None /\ write.at # "latest"
                    /\ up => \A n \in HasFile : n <= world.step

LEMMA HasFileAfterStep ==
    ASSUME TypeOK, WriteOK, WriteStep
    PROVE  /\ write.snap = world /\ world \in attempted /\ world # None
           /\ world.step \in 0 .. MaxStep
           /\ files' = [files EXCEPT ![world.step] = world] /\ files'[world.step] = world
           /\ HasFile' = HasFile \cup {world.step}
<1>1. write # NoWrite /\ write.snap = world /\ world \in attempted /\ world # None
  BY DEF WriteStep, WriteOK, NoWrite, TypeOK, Boundary, None
<1>2. files' = [files EXCEPT ![world.step] = world] /\ world.step \in 0 .. MaxStep
  BY <1>1 DEF WriteStep, TypeOK, Boundary
<1>3. HasFile' = HasFile \cup {world.step}
  BY <1>1, <1>2 DEF HasFile, TypeOK
<1> QED
  BY <1>1, <1>2, <1>3 DEF TypeOK

LEMMA MemoryAheadStep ==
    ASSUME TypeOK, FilesByStep, WriteOK, FALSE \notin Rewinding, MemoryAhead, [Next]_vars
    PROVE  MemoryAhead'
<1> SUFFICES ASSUME ~fileAdapter'
             PROVE  latest' = None /\ write'.at # "latest" /\ (up' => \A n \in HasFile' : n <= world'.step)
  BY DEF MemoryAhead
<1>0. ~fileAdapter /\ fileAdapter' = fileAdapter
  BY DEF Next, Engine, Mutate, SpawnThrows, StartRun, Step, Reject, AllVetoed, Quiesce, LateStamp,
     RunResolves, Persist, SkipSave, BeginSave, WriteStep, WriteLatest, SaveResolves,
     SaveFails, Loads, Restart, Rewind, LoadThrows, Crash, vars, store
<1>1. latest = None /\ write.at # "latest" /\ (up => \A n \in HasFile : n <= world.step)
  BY <1>0 DEF MemoryAhead
<1>w. write'.at # "latest"
  BY <1>0, <1>1 DEF Next, Engine, Mutate, SpawnThrows, StartRun, Step, Reject, AllVetoed, Quiesce, LateStamp,
     RunResolves, Persist, SkipSave, BeginSave, WriteStep, WriteLatest, SaveResolves,
     SaveFails, Loads, Restart, Rewind, LoadThrows, Crash, vars, store, NoWrite, TypeOK
<1> SUFFICES latest' = None /\ (up' => \A n \in HasFile' : n <= world'.step)
  BY <1>w
<1>2. world.step \in Nat /\ HasFile \subseteq Nat
  BY DurabilityAssumption DEF TypeOK, Boundary, HasFile
<1>k. ASSUME files' = files, latest' = latest, up' => up /\ world'.step \in Nat /\ world.step <= world'.step
      PROVE  latest' = None /\ (up' => \A n \in HasFile' : n <= world'.step)
  BY <1>1, <1>2, <1>k DEF HasFile
<1>3. ASSUME NEW n \in {0, 1}, Advance(n) PROVE world'.step \in Nat /\ world.step <= world'.step
  BY <1>2, <1>3 DEF Advance
<1>4. CASE Mutate \/ SpawnThrows \/ Step \/ AllVetoed \/ LateStamp
  BY <1>3, <1>4, <1>k DEF Mutate, SpawnThrows, Step, AllVetoed, LateStamp, store
<1>5. CASE StartRun \/ Reject \/ Quiesce \/ RunResolves \/ SkipSave \/ BeginSave \/ SaveResolves
           \/ SaveFails \/ UNCHANGED vars
  BY <1>2, <1>5, <1>k DEF StartRun, Reject, Quiesce, RunResolves, SkipSave, BeginSave,
     SaveResolves, SaveFails, vars, store
<1>6. CASE Crash
  BY <1>6, <1>k DEF Crash, store
<1>7. CASE WriteStep
  <2>1. HasFile' = HasFile \cup {world.step} /\ world' = world /\ up' = up /\ latest' = latest
    BY <1>7, HasFileAfterStep DEF WriteStep
  <2> QED
    BY <1>1, <1>2, <2>1
<1>8. CASE WriteLatest
  BY <1>1, <1>8 DEF WriteLatest
<1>9. CASE Restart
  <2>1. files' = files /\ latest' = latest /\ HasFile' = HasFile /\ Load = Newest
    BY <1>0, <1>9 DEF Restart, store, HasFile, Load
  <2>2. CASE HasFile = {}
    BY <1>1, <2>1, <2>2
  <2>3. CASE HasFile # {}
    <3>1. PICK n \in HasFile : (\A m \in HasFile : m <= n) /\ Newest = files[n]
      BY <2>3, NewestFile
    <3>2. files[n] # None /\ files[n].step = n
      BY <3>1 DEF HasFile, FilesByStep
    <3>3. world' = files[n]
      BY <1>9, <2>1, <3>1, <3>2 DEF Restart, Loaded
    <3> QED
      BY <1>1, <2>1, <3>1, <3>2, <3>3
  <2> QED
    BY <2>2, <2>3
<1>10. ASSUME NEW n \in 0 .. MaxStep, Rewind(n)
       PROVE  FALSE
  <2>1. fileAdapter \in Rewinding
    BY <1>10 DEF Rewind
  <2>2. fileAdapter = FALSE
    BY <1>0, DurabilityAssumption DEF TypeOK
  <2> QED
    BY <2>1, <2>2
<1>11. ASSUME NEW n \in 0 .. MaxStep, LoadThrows(n)
       PROVE  latest' = None /\ (up' => \A k \in HasFile' : k <= world'.step)
  <2>1. world'.step = world.step
    BY <1>11 DEF LoadThrows, TypeOK, Boundary
  <2> QED
    BY <1>2, <1>11, <1>k, <2>1 DEF LoadThrows, store
<1> QED
  BY <1>4, <1>5, <1>6, <1>7, <1>8, <1>9, <1>10, <1>11 DEF Next, Engine, Persist, Loads

LEMMA AtHandAfterStore ==
    ASSUME TypeOK, TypeOK', WriteOK, FilesByStep, MemoryAhead, AtHand \in Expected,
           up, WriteStep \/ WriteLatest
    PROVE  AtHand' \in Expected'
<1>a. write.at = "step" \/ write.at = "latest"
  BY DEF WriteStep, WriteLatest
<1>1. write # NoWrite
  BY <1>a DEF NoWrite
<1>w. write.snap = world /\ world \in attempted
  BY <1>1 DEF WriteOK
<1>2. Expected' = Expected /\ world \in Expected /\ world # None
  <2>1. attempted' = attempted /\ acked' = acked
    BY DEF WriteStep, WriteLatest, history
  <2> QED
    BY <1>w, <2>1 DEF Expected, TypeOK, Boundary, None
<1>0. fileAdapter' = fileAdapter
  BY DEF WriteStep, WriteLatest
<1>3. CASE WriteLatest
  <2>1. latest' = world /\ fileAdapter
    BY <1>w, <1>3 DEF WriteLatest, MemoryAhead
  <2> QED
    BY <1>0, <1>2, <2>1 DEF AtHand, Load
<1>4. CASE WriteStep /\ fileAdapter /\ latest # None
  BY <1>0, <1>2, <1>4 DEF WriteStep, AtHand, Load
<1>5. CASE WriteStep /\ (~fileAdapter \/ latest = None)
  <2>1. /\ files' = [files EXCEPT ![world.step] = world] /\ files'[world.step] = world
        /\ latest' = latest
        /\ HasFile' = HasFile \cup {world.step} /\ world.step \in 0 .. MaxStep
    BY <1>5, HasFileAfterStep DEF WriteStep
  <2>2. Load = Newest /\ Load' = Newest'
    BY <1>0, <1>5, <2>1 DEF Load
  <2>4. PICK n \in HasFile' : (\A m \in HasFile' : m <= n) /\ Newest' = files'[n]
    <3>1. HasFile' \in SUBSET (0 .. MaxStep) /\ HasFile' # {}
      BY <2>1 DEF HasFile
    <3>2. \E n \in HasFile' : \A m \in HasFile' : m <= n
      BY <3>1, Greatest, DurabilityAssumption
    <3> QED
      BY <3>1, <3>2 DEF Newest
  <2>5. Load' = files'[n] /\ Load' # None
    BY <2>2, <2>4 DEF HasFile
  <2>6. CASE n = world.step
    BY <1>2, <2>1, <2>5, <2>6 DEF AtHand
  <2>7. CASE n # world.step
    <3>1. n \in HasFile /\ files'[n] = files[n]
      BY <2>1, <2>4, <2>7 DEF TypeOK, HasFile
    <3>2. PICK k \in HasFile : (\A m \in HasFile : m <= k) /\ Newest = files[k]
      BY <3>1, NewestFile
    <3>3. k = n
      BY <2>1, <2>4, <3>1, <3>2 DEF HasFile
    <3>4. Load = files[n]
      BY <2>2, <3>2, <3>3
    <3> QED
      BY <1>2, <2>5, <3>1, <3>4 DEF AtHand
  <2> QED
    BY <2>6, <2>7
<1> QED
  BY <1>3, <1>4, <1>5

\* The store never falls behind what it acknowledged: neither that of the file
\* adapter, nor that of the memory adapter, if nobody rewinds that one.
THEOREM StoreKeepsAcked == FALSE \notin Rewinding => (Spec => [](AtHand \in Expected))
<1> SUFFICES ASSUME FALSE \notin Rewinding PROVE Spec => [](AtHand \in Expected)
  OBVIOUS
<1>1. Init => AtHand \in Expected /\ MemoryAhead
  BY DEF Init, AtHand, Expected, Load, Newest, HasFile, MemoryAhead, NoWrite
<1>2. TypeOK /\ FilesByStep /\ WriteOK /\ MemoryAhead /\ [Next]_vars => MemoryAhead'
  BY MemoryAheadStep
<1>3. TypeOK /\ TypeOK' /\ FilesByStep /\ WriteOK /\ MemoryAhead /\ AtHand \in Expected /\ [Next]_vars
        => (AtHand \in Expected)'
  <2> SUFFICES ASSUME TypeOK, TypeOK', FilesByStep, WriteOK, MemoryAhead, AtHand \in Expected, [Next]_vars
               PROVE  AtHand' \in Expected'
    OBVIOUS
  <2>1. CASE UNCHANGED <<store, acked, attempted>>
    BY <2>1 DEF store, AtHand, Load, Newest, HasFile, Expected
  <2>2. CASE Engine \/ SkipSave \/ SaveFails \/ Crash \/ UNCHANGED vars
    BY <2>1, <2>2 DEF Engine, Mutate, SpawnThrows, StartRun, Step, Reject, AllVetoed, Quiesce, LateStamp,
       RunResolves, SkipSave, SaveFails, Crash, vars, history
  <2>3. ASSUME NEW n \in 0 .. MaxStep, Rewind(n) \/ LoadThrows(n) PROVE AtHand' \in Expected'
    BY <2>1, <2>3 DEF Rewind, LoadThrows, history
  <2>4. CASE BeginSave
    <3>1. AtHand' = AtHand
      BY <2>4 DEF BeginSave, store, AtHand, Load, Newest, HasFile
    <3> QED
      BY <2>4, <3>1 DEF BeginSave, Expected
  <2>5. CASE WriteStep \/ WriteLatest
    BY <2>5, AtHandAfterStore DEF WriteStep, WriteLatest, Saving
  <2>6. CASE SaveResolves
    <3>1. /\ acked' = world /\ latest' = latest /\ files' = files /\ fileAdapter' = fileAdapter
          /\ world # None /\ Stored(world) /\ up
          /\ fileAdapter => latest = world
      BY <2>6 DEF SaveResolves, Saving, WriteOK, store, TypeOK, Boundary, None
    <3>2. Load' = Load /\ AtHand' = AtHand
      BY <3>1 DEF Load, Newest, HasFile, AtHand
    <3>3. Load = world
      <4>1. CASE fileAdapter
        BY <3>1, <4>1 DEF Load
      <4>2. CASE ~fileAdapter
        <5>1. files[world.step] = world /\ world.step \in 0 .. MaxStep /\ world.step \in HasFile
          BY <3>1, <4>2 DEF MemoryAhead, Stored, HasFile, TypeOK, Boundary
        <5>2. PICK n \in HasFile : (\A m \in HasFile : m <= n) /\ Newest = files[n]
          BY <5>1, NewestFile
        <5>3. n = world.step
          BY <3>1, <4>2, <5>1, <5>2 DEF MemoryAhead, HasFile
        <5> QED
          BY <4>2, <5>1, <5>2, <5>3 DEF Load
      <4> QED
        BY <4>1, <4>2
    <3> QED
      BY <3>1, <3>2, <3>3 DEF AtHand, Expected
  <2>7. CASE Restart
    <3>1. AtHand' = AtHand /\ Load' = Load
      BY <2>7 DEF Restart, store, AtHand, Load, Newest, HasFile
    <3> QED
      BY <2>7, <3>1 DEF Restart, Expected, AtHand
  <2> QED
    BY <2>2, <2>3, <2>4, <2>5, <2>6, <2>7 DEF Next, Persist, Loads
<1> QED
  BY <1>1, <1>2, <1>3, DurabilityTyped, SavesAreOrdered, PTL DEF Spec

\* RestartLosesNothingAcked, for both adapters: failed and interrupted saves, failed
\* loads, crashes, and rewinds of the file adapter notwithstanding.  The memory
\* adapter must not be rewound, since it loads the greatest step and not the newest save.
THEOREM RestartIsSafe == FALSE \notin Rewinding => (Spec => RestartLosesNothingAcked)
<1> SUFFICES ASSUME FALSE \notin Rewinding PROVE Spec => RestartLosesNothingAcked
  OBVIOUS
<1>1. WriteOK /\ AtHand \in Expected /\ [Next]_vars
        => [~up /\ up' =>
              world' \in attempted \cup {IF acked = None THEN Empty ELSE acked}]_vars
  <2> SUFFICES ASSUME AtHand \in Expected, [Next]_vars, ~up, up'
               PROVE  world' \in Expected
    BY DEF Expected
  <2>1. Restart
    BY DEF Next, Engine, Mutate, SpawnThrows, StartRun, Step, Reject, AllVetoed, Quiesce, LateStamp,
       RunResolves, Persist, Saving, SkipSave, BeginSave, WriteStep, WriteLatest,
       SaveResolves, SaveFails, Loads, Rewind, LoadThrows, Crash, vars
  <2> QED
    BY <2>1 DEF Restart, Loaded, AtHand
<1> QED
  BY <1>1, StoreKeepsAcked, SavesAreOrdered, PTL DEF Spec, RestartLosesNothingAcked

\* What pushTrace adds keeps the recorder in order: the new entry is not before any
\* it holds, and what a full recorder drops is the oldest.
LEMMA TracedOrder ==
    ASSUME NEW n \in 1 .. MaxStep + 1, trace \in Seq(1 .. MaxStep + 1),
           \A i, j \in 1 .. Len(trace) : i < j => trace[i] <= trace[j],
           \A i \in 1 .. Len(trace) : trace[i] <= n
    PROVE  /\ \A i, j \in 1 .. Len(Traced(n)) : i < j => Traced(n)[i] <= Traced(n)[j]
           /\ \A i \in 1 .. Len(Traced(n)) : Traced(n)[i] <= n
<1> DEFINE longer == Append(trace, n)
<1>1. /\ longer \in Seq(1 .. MaxStep + 1) /\ Len(longer) = Len(trace) + 1 /\ longer # <<>>
      /\ \A i \in 1 .. Len(trace) : longer[i] = trace[i]
      /\ longer[Len(trace) + 1] = n
  OBVIOUS
<1>2. /\ \A i, j \in 1 .. Len(longer) : i < j => longer[i] <= longer[j]
      /\ \A i \in 1 .. Len(longer) : longer[i] <= n
  <2> HIDE DEF longer
  <2>1. ASSUME NEW i \in 1 .. Len(longer) PROVE longer[i] <= n
    <3>1. i \in 1 .. Len(trace) \/ i = Len(trace) + 1
      BY <1>1
    <3> QED
      BY <3>1, <1>1
  <2>2. ASSUME NEW i \in 1 .. Len(longer), NEW j \in 1 .. Len(longer), i < j
        PROVE  longer[i] <= longer[j]
    <3>0. Len(trace) \in Nat /\ i \in Int /\ j \in Int /\ 1 <= i /\ i < j /\ j <= Len(trace) + 1
      BY <1>1, <2>2
    <3>1. i \in 1 .. Len(trace)
      BY <3>0
    <3>2. CASE j = Len(trace) + 1
      BY <3>1, <3>2, <1>1
    <3>3. CASE j # Len(trace) + 1
      <4>1. j \in 1 .. Len(trace)
        BY <3>0, <3>3
      <4> QED
        BY <3>1, <4>1, <2>2, <1>1
    <3> QED
      BY <3>2, <3>3
  <2> QED
    BY <2>1, <2>2
<1>3. /\ \A i, j \in 1 .. Len(Tail(longer)) : i < j => Tail(longer)[i] <= Tail(longer)[j]
      /\ \A i \in 1 .. Len(Tail(longer)) : Tail(longer)[i] <= n
  <2> HIDE DEF longer
  <2>1. Len(Tail(longer)) = Len(longer) - 1 /\ Len(longer) \in Nat
    BY <1>1
  <2>2. \A i \in 1 .. Len(Tail(longer)) : Tail(longer)[i] = longer[i + 1] /\ i + 1 \in 1 .. Len(longer)
    BY <1>1, <2>1
  <2> QED
    BY <1>2, <2>1, <2>2
<1>4. Traced(n) \in {trace, longer, Tail(longer)}
  BY DEF Traced
<1> QED
  <2> HIDE DEF longer
  <2> QED
    BY <1>2, <1>3, <1>4

\* TraceIsOneTimeline: whatever is rewound, reloaded or stamped late, the flight
\* recorder holds the steps of one history, in order.
THEOREM TraceHasOneHistory == Spec => []TraceIsOneTimeline
<1> USE DurabilityAssumption
<1>1. Init => TraceIsOneTimeline
  BY DEF Init, TraceIsOneTimeline
<1>2. TypeOK /\ TraceIsOneTimeline /\ [Next]_vars => TraceIsOneTimeline'
  <2> SUFFICES ASSUME TypeOK, TraceIsOneTimeline, [Next]_vars PROVE TraceIsOneTimeline'
    OBVIOUS
  <2>0. world.step \in Nat /\ world.step + 1 \in 1 .. MaxStep + 1 /\ trace \in Seq(1 .. MaxStep + 1)
    BY DEF TypeOK, Boundary
  <2>1. ASSUME trace' = trace, world'.step = world.step PROVE TraceIsOneTimeline'
    BY <2>1 DEF TraceIsOneTimeline
  <2>2. ASSUME trace' = <<>> PROVE TraceIsOneTimeline'
    BY <2>2 DEF TraceIsOneTimeline
  <2>3. ASSUME trace' = Traced(world.step + 1),
               world'.step \in {world.step, world.step + 1}
        PROVE  TraceIsOneTimeline'
    <3>1. /\ \A i, j \in 1 .. Len(trace') : i < j => trace'[i] <= trace'[j]
          /\ \A i \in 1 .. Len(trace') : trace'[i] <= world.step + 1
      BY <2>0, <2>3, TracedOrder DEF TraceIsOneTimeline
    <3>2. trace' \in Seq(1 .. MaxStep + 1)
      BY <2>0, <2>3, TracedType
    <3>3. \A i \in 1 .. Len(trace') : trace'[i] <= world'.step + 1
      BY <2>0, <2>3, <3>1, <3>2
    <3> QED
      BY <3>1, <3>3 DEF TraceIsOneTimeline
  <2>4. CASE Step \/ LateStamp
    <3>1. trace' = Traced(world.step + 1) /\ world'.step = world.step + 1
      BY <2>4 DEF Step, LateStamp, Advance
    <3> QED
      BY <3>1, <2>3
  <2>5. CASE AllVetoed
    <3>1. trace' = Traced(world.step + 1) /\ world'.step = world.step
      BY <2>5, <2>0 DEF AllVetoed, Advance
    <3> QED
      BY <3>1, <2>3
  <2>6. CASE Mutate \/ SpawnThrows
    BY <2>6, <2>1, <2>0 DEF Mutate, SpawnThrows, Advance
  <2>7. CASE StartRun \/ Reject \/ Quiesce \/ RunResolves \/ Persist \/ UNCHANGED vars
    BY <2>7, <2>1 DEF StartRun, Reject, Quiesce, RunResolves, Persist, SkipSave, BeginSave,
       WriteStep, WriteLatest, SaveResolves, SaveFails, vars
  <2>8. CASE Loads \/ Crash
    BY <2>8, <2>2 DEF Loads, Restart, Rewind, LoadThrows, Loaded, Crash
  <2> QED
    BY <2>4, <2>5, <2>6, <2>7, <2>8 DEF Next, Engine
<1> QED
  BY <1>1, <1>2, DurabilityTyped, PTL DEF Spec
=============================================================================
