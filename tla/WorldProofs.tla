---------------------------- MODULE WorldProofs ----------------------------
(***************************************************************************)
(* Proofs about World, for every value of its constants.                   *)
(***************************************************************************)
EXTENDS World, FiniteSetTheorems, TLAPS

(***************************************************************************)
(* The committed state has its type.                                       *)
(***************************************************************************)
StateOK ==
    /\ alive \subseteq Entity
    /\ comps \in [Entity -> [Component -> SUBSET Token]]
    /\ registered \subseteq System
    /\ matched \in [System -> SUBSET Entity]
    /\ dirt \in [System -> SUBSET Entity]

\* A commit keeps the type when its arguments have theirs.
LEMMA CommitType ==
    ASSUME NEW al \in SUBSET Entity, NEW cs \in [Entity -> [Component -> SUBSET Token]],
           NEW reg \in SUBSET System, NEW changes,
           NEW base \in [System -> SUBSET Entity], NEW marks,
           Commit(al, cs, reg, changes, base, marks)
    PROVE  StateOK'
<1>1. \A s \in System : MatchSet(s, reg, al, cs) \in SUBSET Entity
  BY DEF MatchSet
<1>2. matched' \in [System -> SUBSET Entity]
  BY <1>1 DEF Commit
<1>3. dirt' \in [System -> SUBSET Entity]
  BY <1>1 DEF Commit
<1> QED BY <1>2, <1>3 DEF Commit, StateOK

\* Tokens of mutations from outside and of stamps.
LEMMA StepToken ==
    ASSUME NEW n \in Nat, NEW w \in {"external", "engine"}
    PROVE  <<n, w, 0>> \in Token
BY DEF Token

\* Stamping Cancelled keeps the type.
LEMMA StampType ==
    ASSUME StateOK, NEW n \in Nat, NEW w \in {External, Engine}, StampCancelled(n, w)
    PROVE  StateOK'
<1> DEFINE stamp == {<<n, w[1], 0>>}
           cs == [e \in Entity |-> IF e \in alive
                                THEN [comps[e] EXCEPT ![Cancelled] = stamp]
                                ELSE comps[e]]
<1>1. stamp \in SUBSET Token
  <2>1. w[1] \in {"external", "engine"}
    BY DEF External, Engine
  <2> QED BY <2>1, StepToken
<1>2. cs \in [Entity -> [Component -> SUBSET Token]]
  BY <1>1 DEF StateOK
<1>3. Commit(alive, cs, registered, {<<e, Cancelled, w>> : e \in alive}, dirt, {})
  BY DEF StampCancelled
<1> HIDE DEF cs, stamp
<1> QED BY <1>2, <1>3, CommitType DEF StateOK

(***************************************************************************)
(* Facts about the execution ids handed out by StepStart.                  *)
(***************************************************************************)
LEMMA PairFinite == IsFiniteSet(Pair)
<1>1. IsFiniteSet(Entity)
  BY FS_Interval, BoundAssumption DEF Entity
<1> QED BY <1>1, FS_Product, SystemAssumption DEF Pair

\* The order on pairs is a strict total order.
LEMMA BeforeOrder ==
    ASSUME NEW p \in Pair, NEW q \in Pair
    PROVE  /\ ~Before(p, p)
           /\ p # q => Before(p, q) \/ Before(q, p)
           /\ \A r \in Pair : Before(p, q) /\ Before(q, r) => Before(p, r)
<1> USE DEF Pair, Entity
<1>1. Index[p[1]] \in Nat /\ Index[q[1]] \in Nat /\ p[2] \in Int /\ q[2] \in Int
  BY SystemAssumption, BoundAssumption
<1>2. ~Before(p, p)
  BY <1>1 DEF Before
<1>3. ASSUME p # q PROVE Before(p, q) \/ Before(q, p)
  <2>1. CASE Index[p[1]] = Index[q[1]]
    <3>1. p[1] = q[1] BY <2>1, SystemAssumption
    <3>2. p[2] # q[2] BY <3>1, <1>3
    <3> QED BY <3>2, <2>1, <1>1 DEF Before
  <2>2. CASE Index[p[1]] # Index[q[1]]
    BY <2>2, <1>1 DEF Before
  <2> QED BY <2>1, <2>2
<1>4. ASSUME NEW r \in Pair, Before(p, q), Before(q, r) PROVE Before(p, r)
  <2>1. Index[r[1]] \in Nat /\ r[2] \in Int
    BY SystemAssumption, BoundAssumption
  <2> QED BY <1>1, <1>4, <2>1 DEF Before
<1> QED BY <1>2, <1>3, <1>4

\* The executions started by one step get distinct new ids.
LEMMA FreshIds ==
    ASSUME NEW S \in SUBSET Pair, execSeq \in Nat
    PROVE  /\ Cardinality(S) \in Nat
           /\ \A p \in S : /\ ExecId(S, p) \in Nat
                           /\ execSeq < ExecId(S, p)
                           /\ ExecId(S, p) <= execSeq + Cardinality(S)
           /\ \A p, r \in S : ExecId(S, p) = ExecId(S, r) => p = r
<1> DEFINE Upto(p) == {q \in S : q = p \/ Before(q, p)}
<1>1. IsFiniteSet(S) /\ Cardinality(S) \in Nat
  BY PairFinite, FS_Subset, FS_CardinalityType
<1>2. ASSUME NEW p \in S
      PROVE  /\ IsFiniteSet(Upto(p))
             /\ Cardinality(Upto(p)) \in Nat
             /\ Cardinality(Upto(p)) <= Cardinality(S)
             /\ 0 < Cardinality(Upto(p))
  <2>1. Upto(p) \in SUBSET S
    OBVIOUS
  <2>2. IsFiniteSet(Upto(p)) /\ Cardinality(Upto(p)) <= Cardinality(S)
    BY <1>1, <2>1, FS_Subset
  <2>3. Cardinality(Upto(p)) \in Nat
    BY <2>2, FS_CardinalityType
  <2>4. Upto(p) # {}
    OBVIOUS
  <2>5. Cardinality(Upto(p)) # 0
    BY <2>2, <2>4, FS_EmptySet
  <2> QED BY <2>2, <2>3, <2>5
<1>3. ASSUME NEW p \in S, NEW r \in S, Before(p, r)
      PROVE  Cardinality(Upto(p)) # Cardinality(Upto(r))
  <2>1. Upto(p) \in SUBSET Upto(r)
    BY <1>3, BeforeOrder
  <2>2. r \in Upto(r) /\ r \notin Upto(p)
    BY <1>3, BeforeOrder
  <2>3. IsFiniteSet(Upto(r))
    BY <1>2
  <2> HIDE DEF Upto
  <2> QED BY <2>1, <2>2, <2>3, FS_Subset
<1>4. ASSUME NEW p \in S, NEW r \in S, Cardinality(Upto(p)) = Cardinality(Upto(r))
      PROVE  p = r
  BY <1>3, <1>4, BeforeOrder
<1> HIDE DEF Upto
<1>5. \A p \in S : ExecId(S, p) = execSeq + Cardinality(Upto(p))
  BY DEF ExecId, Upto
<1>6. \A p \in S : /\ ExecId(S, p) \in Nat
                   /\ execSeq < ExecId(S, p)
                   /\ ExecId(S, p) <= execSeq + Cardinality(S)
  BY <1>1, <1>2, <1>5
<1>7. \A p, r \in S : ExecId(S, p) = ExecId(S, r) => p = r
  BY <1>2, <1>4, <1>5
<1> QED BY <1>1, <1>6, <1>7

(***************************************************************************)
(* Type correctness.                                                       *)
(***************************************************************************)
Exec == [st : Outcome, id : Nat, ops : Seq(Op)]

LEMMA NoExecType == NoExec \in Exec
BY DEF NoExec, Exec, Outcome

LEMMA SawType ==
    ASSUME TypeOK, NEW p \in Pair, NEW b \in BOOLEAN
    PROVE  Saw(p, b) \in [seen : [Component -> SUBSET Token], failed : BOOLEAN]
BY DEF Saw, TypeOK, Pair

\* What a body pushes is an operation on an entity id.
LEMMA ResolveType ==
    ASSUME TypeOK, NEW s \in System, NEW e \in Entity, NEW m \in Menu[s],
           m.kind = "spawn" => nextId <= MaxId
    PROVE  Resolve(m, e) \in Op
<1>1. m \in MenuOp
  BY WorldAssumption
<1>2. nextId \in 1 .. MaxId + 1 /\ MaxId \in Nat
  BY BoundAssumption DEF TypeOK
<1>3. m.kind = "spawn" => nextId \in Entity
  BY <1>2 DEF Entity
<1>4. m.ent # 0 => m.ent \in Entity
  BY <1>1, <1>2 DEF MenuOp, Entity
<1>5. Resolve(m, e).ent \in Entity
  BY <1>3, <1>4 DEF Resolve
<1> QED BY <1>1, <1>5 DEF Resolve, MenuOp, Op

\* Buffered operations are operations, and replay positions are well formed.
LEMMA PositionType ==
    ASSUME TypeOK, NEW k \in Positions
    PROVE  /\ k[1] \in Pair /\ exec[k[1]].st = "ok" /\ k[2] \in Nat
           /\ OpAt(k) \in Op
<1>1. k[1] \in Pair /\ exec[k[1]].st = "ok" /\ k[2] \in 1 .. MaxOps
  BY DEF Positions, OkExecs
<1>2. k[2] \in 1 .. Len(exec[k[1]].ops)
  BY <1>1, WorldAssumption DEF Positions, TypeOK
<1>3. exec[k[1]].ops \in Seq(Op)
  BY <1>1 DEF TypeOK
<1> QED BY <1>1, <1>2, <1>3, WorldAssumption DEF OpAt

\* A staged value consists of committed tokens and of tokens of the
\* successful executions that wrote it.
LEMMA StagedTokens ==
    ASSUME TypeOK, NEW e \in Entity, NEW c \in Component, NEW K \in SUBSET Positions,
           NEW t \in Staged(e, c, K)
    PROVE  \/ t \in comps[e][c]
           \/ \E k \in K \cap Landed :
                 /\ Touches(k, e, c)
                 /\ OpAt(k).kind # "remove"
                 /\ t = <<exec[k[1]].id, k[1][1], k[1][2]>>
BY DEF Staged, Content

LEMMA StagedType ==
    ASSUME TypeOK, NEW e \in Entity, NEW c \in Component, NEW K \in SUBSET Positions
    PROVE  Staged(e, c, K) \in SUBSET Token
<1> SUFFICES ASSUME NEW t \in Staged(e, c, K) PROVE t \in Token
  OBVIOUS
<1>1. CASE t \in comps[e][c]
  BY <1>1 DEF TypeOK
<1>2. ASSUME NEW k \in K, t = <<exec[k[1]].id, k[1][1], k[1][2]>> PROVE t \in Token
  <2>1. k[1] \in Pair
    BY PositionType
  <2>2. exec[k[1]].id \in Nat
    BY <2>1 DEF TypeOK
  <2>3. k[1][1] \in System /\ k[1][2] \in Nat
    BY <2>1, BoundAssumption DEF Pair, Entity
  <2> QED BY <1>2, <2>2, <2>3 DEF Token
<1> QED BY <1>1, <1>2, StagedTokens

LEMMA NextCompsType ==
    ASSUME TypeOK
    PROVE  NextComps \in [Entity -> [Component -> SUBSET Token]]
<1>1. \A e \in Entity, c \in Component : Staged(e, c, Positions) \in SUBSET Token
  BY StagedType
<1>2. \A s \in System : <<stepCount + 1, s, 0>> \in Token
  BY DEF Token, TypeOK
<1>3. \A e \in Entity : WithRecords(e) \in SUBSET Token
  BY <1>1, <1>2 DEF WithRecords, FailedOn, Component, Builtin
<1> QED BY <1>1, <1>3 DEF NextComps, NoComps

\* Init has its type, and every action keeps it.
LEMMA InitType == Init => TypeOK
<1> SUFFICES ASSUME Init PROVE TypeOK
  OBVIOUS
<1>1. NoComps \in [Component -> SUBSET Token]
  BY DEF NoComps
<1>2. NoExec \in [st : Outcome, id : Nat, ops : Seq(Op)]
  BY DEF NoExec, Outcome
<1>3. exec \in [Pair -> [st : Outcome, id : Nat, ops : Seq(Op)]]
  BY <1>2 DEF Init
<1>4. last \in [Pair -> [seen : [Component -> SUBSET Token], failed : BOOLEAN]]
  BY <1>1 DEF Init
<1>5. comps \in [Entity -> [Component -> SUBSET Token]]
  BY <1>1 DEF Init
<1>6. nextId \in 1 .. MaxId + 1
  BY BoundAssumption DEF Init
<1>7. registered \subseteq System
  BY WorldAssumption DEF Init
<1> QED BY <1>3, <1>4, <1>5, <1>6, <1>7 DEF Init, TypeOK, Phase, Status

\* The committed state keeps its type: one step per way of committing.
LEMMA StateStep ==
    ASSUME TypeOK, [Next]_vars
    PROVE  StateOK'
<1> USE DEF stateVars
<1>0. StateOK
  BY DEF TypeOK, StateOK
<1>t. \A n \in Nat : {<<n, "external", 0>>} \in SUBSET Token
  BY StepToken
<1>1. ASSUME NEW s \in System, Use(s) PROVE StateOK'
  <2>1. Commit(alive, comps, registered \cup {s}, {}, dirt, {})
    BY <1>1 DEF Use
  <2> QED BY <2>1, <1>0, CommitType DEF StateOK
<1>2. ASSUME NEW item \in SpawnItems, SpawnExternal(item) PROVE StateOK'
  <2> DEFINE value == [c \in Component |->
                        IF c \in item[1] THEN {<<stepCount, "external", 0>>} ELSE {}]
             cs == [comps EXCEPT ![nextId] = value]
  <2>1. Commit(alive \cup {nextId}, cs, registered \cup item[2],
                 {<<nextId, c, External>> : c \in item[1]}, dirt, {})
    BY <1>2 DEF SpawnExternal
  <2>2. nextId \in Entity
    BY <1>2, BoundAssumption DEF SpawnExternal, TypeOK, Entity
  <2>3. value \in [Component -> SUBSET Token]
    BY <1>t DEF TypeOK
  <2>4. item[2] \subseteq System
    BY WorldAssumption
  <2> HIDE DEF value
  <2>5. cs \in [Entity -> [Component -> SUBSET Token]]
    BY <2>2, <2>3, <1>0 DEF StateOK
  <2> HIDE DEF cs
  <2> QED BY <2>1, <2>2, <2>4, <2>5, <1>0, CommitType DEF StateOK
<1>3. ASSUME NEW e \in Entity, NEW c \in ExternalWrites, NEW mode \in {"add", "set"},
             WriteExternal(e, c, mode)
      PROVE  StateOK'
  <2> DEFINE kept == IF mode = "add" /\ c \in Reducer THEN comps[e][c] ELSE {}
             value == kept \cup {<<stepCount, "external", 0>>}
             cs == [comps EXCEPT ![e][c] = value]
  <2>1. Commit(alive, cs, registered, {<<e, c, External>>}, dirt, {})
    BY <1>3 DEF WriteExternal
  <2>2. c \in Component
    BY WorldAssumption
  <2>3. value \in SUBSET Token
    BY <1>t, <1>0, <2>2 DEF TypeOK, StateOK
  <2> HIDE DEF value
  <2>4. cs \in [Entity -> [Component -> SUBSET Token]]
    BY <2>2, <2>3, <1>0 DEF StateOK
  <2> HIDE DEF cs
  <2> QED BY <2>1, <2>4, <1>0, CommitType DEF StateOK
<1>4. ASSUME NEW e \in Entity, NEW c \in ExternalWrites, RemoveExternal(e, c) PROVE StateOK'
  <2> DEFINE cs == [comps EXCEPT ![e][c] = {}]
  <2>1. Commit(alive, cs, registered, {<<e, c, External>>}, dirt, {})
    BY <1>4 DEF RemoveExternal
  <2>2. cs \in [Entity -> [Component -> SUBSET Token]]
    BY <1>0 DEF StateOK
  <2> HIDE DEF cs
  <2> QED BY <2>1, <2>2, <1>0, CommitType DEF StateOK
<1>5. ASSUME NEW e \in Entity, DespawnExternal(e) PROVE StateOK'
  <2>1. NoComps \in [Component -> SUBSET Token]
    BY DEF NoComps
  <2> QED BY <1>0, <1>5, <2>1 DEF DespawnExternal, StateOK
<1>6. CASE CancelIdle
  BY <1>0, <1>6, StampType DEF CancelIdle, TypeOK
<1>7. CASE StampStep
  <2>1. stepCount + 1 \in Nat
    BY DEF TypeOK
  <2> QED BY <1>0, <1>7, <2>1, StampType DEF StampStep
<1>8. CASE LateStamp
  <2>1. stepCount + 1 \in Nat
    BY DEF TypeOK
  <2> QED BY <1>0, <1>8, <2>1, StampType DEF LateStamp
<1>9. CASE AllVetoed
  BY <1>0, <1>9 DEF AllVetoed, StateOK
<1>10. CASE BarrierCommit
  <2>1. Commit((alive \cup Shells) \ Despawning, NextComps, registered \cup NewSystems,
              OpChanges \cup EngineChanges, BaseDirt, Invalidations)
    BY <1>10 DEF BarrierCommit
  <2>2. \A k \in Positions : OpAt(k).ent \in Entity /\ OpAt(k).sys \in SUBSET System
    BY PositionType DEF Op
  <2>3. (alive \cup Shells) \ Despawning \in SUBSET Entity
    BY <2>2, <1>0 DEF StateOK, Shells
  <2>4. registered \cup NewSystems \in SUBSET System
    BY <2>2, <1>0 DEF StateOK, NewSystems
  <2>5. BaseDirt \in [System -> SUBSET Entity]
    BY <1>0 DEF StateOK, BaseDirt
  <2>6. NextComps \in [Entity -> [Component -> SUBSET Token]]
    BY NextCompsType
  <2> QED BY <2>1, <2>3, <2>4, <2>5, <2>6, CommitType
<1>11. CASE UNCHANGED stateVars
  BY <1>0, <1>11 DEF StateOK
<1>12. ASSUME NEW p \in Pair,
              PushOp(p) \/ Return(p) \/ Throw(p) \/ ThrowAbort(p) \/ Timeout(p)
       PROVE  UNCHANGED stateVars
  BY <1>12 DEF PushOp, Return, Throw, ThrowAbort, Timeout, Settle
<1>13. ASSUME NEW z \in zombies, ZombieSpawn(z) \/ ZombieSettle(z)
       PROVE  UNCHANGED stateVars
  BY <1>13 DEF ZombieSpawn, ZombieSettle
<1>14. ASSUME CancelMidRun \/ Run \/ Quiescent \/ LimitBreak \/ StepStart \/ BarrierReject
              \/ CadenceSave \/ FinalSave \/ LateSave \/ SaveFails \/ RunEnd \/ UNCHANGED vars
       PROVE  UNCHANGED stateVars
  BY <1>14 DEF CancelMidRun, Run, Quiescent, LimitBreak, StepStart, BarrierReject,
               CadenceSave, FinalSave, LateSave, SaveFails, RunEnd, vars
<1>15. ASSUME NEW s \in System, UseFails(s) PROVE StateOK'
  BY <1>0, <1>15 DEF UseFails, StateOK
<1>16. ASSUME NEW item \in SpawnItems, NEW set, NEW systems \in SUBSET item[2],
              SpawnFails(item, set, systems)
       PROVE  StateOK'
  <2> DEFINE value == [c \in Component |->
                        IF c \in set THEN {<<stepCount, "external", 0>>} ELSE {}]
  <2>1. nextId \in Entity
    BY <1>16, BoundAssumption DEF SpawnFails, TypeOK, Entity
  <2>2. value \in [Component -> SUBSET Token]
    BY <1>t DEF TypeOK
  <2>3. systems \subseteq System
    BY WorldAssumption
  <2>4. comps' = [comps EXCEPT ![nextId] = value]
    BY <1>16 DEF SpawnFails
  <2> HIDE DEF value
  <2>5. comps' \in [Entity -> [Component -> SUBSET Token]]
    BY <2>1, <2>2, <2>4, <1>0 DEF StateOK
  <2> QED BY <1>0, <1>16, <2>1, <2>3, <2>5 DEF SpawnFails, StateOK
<1> QED
  BY <1>1, <1>2, <1>3, <1>4, <1>5, <1>6, <1>7, <1>8, <1>9, <1>10, <1>11, <1>12, <1>13, <1>14,
     <1>15, <1>16
     DEF Next, Application, Bodies, Zombies, Loop

\* The loop's own variables keep their types.
LoopOK ==
    /\ nextId \in 1 .. MaxId + 1
    /\ stepCount \in Nat
    /\ changed \in BOOLEAN
    /\ phase \in Phase
    /\ steps \in Nat
    /\ limitHit \in BOOLEAN
    /\ cancelSeen \in BOOLEAN
    /\ pendingCancel \in BOOLEAN
    /\ status \in Status
    /\ runCounter \in Nat

\* The executions and the history variables keep theirs.
ExecOK ==
    /\ exec \in [Pair -> Exec]
    /\ execSeq \in Nat
    /\ zombies \subseteq Nat
    /\ discarded \subseteq Nat
    /\ last \in [Pair -> [seen : [Component -> SUBSET Token], failed : BOOLEAN]]

LEMMA LoopStep ==
    ASSUME TypeOK, [Next]_vars
    PROVE  LoopOK'
<1>0. LoopOK /\ MaxId \in Nat
  BY BoundAssumption DEF TypeOK, LoopOK
<1> USE <1>0 DEF LoopOK, Phase
<1>1. ASSUME NEW s \in System, Use(s) PROVE LoopOK'
  BY <1>1 DEF Use, runVars
<1>2. ASSUME NEW item \in SpawnItems, SpawnExternal(item) PROVE LoopOK'
  BY <1>2 DEF SpawnExternal, runVars
<1>3. ASSUME NEW e, NEW c, NEW mode, WriteExternal(e, c, mode) PROVE LoopOK'
  BY <1>3 DEF WriteExternal, runVars
<1>4. ASSUME NEW e, NEW c, RemoveExternal(e, c) PROVE LoopOK'
  BY <1>4 DEF RemoveExternal, runVars
<1>5. ASSUME NEW e, DespawnExternal(e) PROVE LoopOK'
  BY <1>5 DEF DespawnExternal, runVars
<1>6. CASE CancelIdle
  BY <1>6 DEF CancelIdle, runVars
<1>7. CASE CancelMidRun
  BY <1>7 DEF CancelMidRun
<1>8. CASE Run
  <2>1. runCounter' \in Nat /\ steps' \in Nat
    BY <1>8 DEF Run
  <2> QED BY <1>8, <2>1 DEF Run
<1>9. CASE StampStep \/ LateStamp
  <2>1. stepCount' \in Nat /\ pendingCancel' = FALSE /\ changed' = TRUE
    BY <1>9 DEF StampStep, LateStamp
  <2> QED BY <1>9, <2>1 DEF StampStep, LateStamp
<1>10. CASE Quiescent \/ LimitBreak \/ AllVetoed
  BY <1>10 DEF Quiescent, LimitBreak, AtLimit, AllVetoed, runVars
<1>11. CASE StepStart
  BY <1>11 DEF StepStart
<1>12. ASSUME NEW p \in Pair, PushOp(p) PROVE LoopOK'
  BY <1>12 DEF PushOp, AfterSpawn, runVars
<1>13. ASSUME NEW p \in Pair, NEW o, Settle(p, o) PROVE LoopOK'
  BY <1>13 DEF Settle, runVars
<1>14. ASSUME NEW z, ZombieSpawn(z) \/ ZombieSettle(z) PROVE LoopOK'
  BY <1>14 DEF ZombieSpawn, ZombieSettle, AfterSpawn, runVars
<1>15. CASE BarrierCommit \/ BarrierReject
  <2>1. CASE BarrierCommit
    <3>1. stepCount' \in Nat /\ changed' = TRUE
      BY <2>1 DEF BarrierCommit
    <3>2. phase' \in {"saving", "loop"}
      BY <2>1 DEF BarrierCommit
    <3> QED BY <2>1, <3>1, <3>2 DEF BarrierCommit, runVars
  <2>2. CASE BarrierReject
    BY <2>2 DEF BarrierReject, runVars
  <2> QED BY <1>15, <2>1, <2>2
<1>16. CASE CadenceSave \/ SaveFails \/ RunEnd
  BY <1>16 DEF CadenceSave, SaveFails, RunEnd, Persisted, runVars
<1>17. CASE FinalSave \/ LateSave
  <2>1. StatusNow \in Status
    BY DEF StatusNow, Status
  <2> QED BY <1>17, <2>1 DEF FinalSave, LateSave, Persisted
<1>18. CASE UNCHANGED vars
  BY <1>18 DEF vars, runVars
<1>19. ASSUME NEW s, UseFails(s) PROVE LoopOK'
  BY <1>19 DEF UseFails, runVars
<1>20. ASSUME NEW item, NEW set, NEW systems, SpawnFails(item, set, systems) PROVE LoopOK'
  BY <1>20 DEF SpawnFails, runVars
<1> QED
  BY <1>1, <1>2, <1>3, <1>4, <1>5, <1>6, <1>7, <1>8, <1>9, <1>10, <1>11, <1>12, <1>13,
     <1>14, <1>15, <1>16, <1>17, <1>18, <1>19, <1>20
     DEF Next, Application, Bodies, Zombies, Loop, Return, Throw, ThrowAbort, Timeout

LEMMA ExecStep ==
    ASSUME TypeOK, [Next]_vars
    PROVE  ExecOK'
<1>0. ExecOK
  BY DEF TypeOK, ExecOK, Exec
<1>1. CASE AllVetoed
  <2>1. \A p \in Pair : Saw(p, last[p].failed) \in
                          [seen : [Component -> SUBSET Token], failed : BOOLEAN]
    BY <1>0, SawType DEF ExecOK
  <2> QED BY <1>0, <1>1, <2>1 DEF AllVetoed, ExecOK, execVars
<1>2. CASE StepStart
  <2>1. PICK v \in Verdicts :
         LET started == {p \in Candidates : v[p] = "pass"}
             outcome(p) == IF v[p] = "veto" THEN "vetoed" ELSE "failed"
         IN /\ exec' = [p \in Pair |->
                  IF p \in started THEN [st |-> "running", id |-> ExecId(started, p), ops |-> <<>>]
                  ELSE IF p \in Candidates THEN [st |-> outcome(p), id |-> 0, ops |-> <<>>]
                  ELSE NoExec]
            /\ execSeq' = execSeq + Cardinality(started)
    BY <1>2 DEF StepStart
  <2> DEFINE started == {p \in Candidates : v[p] = "pass"}
  <2>2. started \in SUBSET Pair
    BY DEF Candidates
  <2>3. Cardinality(started) \in Nat /\ \A p \in started : ExecId(started, p) \in Nat
    BY <2>2, FreshIds, <1>0 DEF ExecOK
  <2> HIDE DEF started
  <2>4. exec' = [p \in Pair |->
                  IF p \in started THEN [st |-> "running", id |-> ExecId(started, p), ops |-> <<>>]
                  ELSE IF p \in Candidates
                       THEN [st |-> IF v[p] = "veto" THEN "vetoed" ELSE "failed",
                             id |-> 0, ops |-> <<>>]
                  ELSE NoExec]
    BY <2>1 DEF started
  <2>5. \A p \in started : [st |-> "running", id |-> ExecId(started, p), ops |-> <<>>] \in Exec
    BY <2>3 DEF Exec, Outcome
  <2>6. \A o \in {"vetoed", "failed"} : [st |-> o, id |-> 0, ops |-> <<>>] \in Exec
    BY DEF Exec, Outcome
  <2>7. exec' \in [Pair -> Exec]
    BY <2>4, <2>5, <2>6, NoExecType
  <2>8. execSeq' \in Nat
    BY <2>1, <2>3, <1>0 DEF started, ExecOK
  <2> QED BY <1>0, <1>2, <2>7, <2>8 DEF StepStart, ExecOK, history
<1>3. ASSUME NEW p \in Pair, PushOp(p) PROVE ExecOK'
  <2>1. PICK m \in Menu[p[1]] :
          /\ m.kind = "spawn" => nextId <= MaxId
          /\ exec' = [exec EXCEPT ![p].ops = Append(@, Resolve(m, p[2]))]
    BY <1>3 DEF PushOp
  <2>2. Resolve(m, p[2]) \in Op
    BY <2>1, ResolveType DEF Pair
  <2>3. exec[p] \in Exec
    BY <1>0 DEF ExecOK
  <2>4. Append(exec[p].ops, Resolve(m, p[2])) \in Seq(Op)
    BY <2>2, <2>3 DEF Exec
  <2>5. exec' \in [Pair -> Exec]
    BY <2>1, <2>3, <2>4, <1>0 DEF ExecOK, Exec
  <2> QED BY <1>0, <1>3, <2>5 DEF PushOp, ExecOK, history
<1>4. ASSUME NEW p \in Pair, NEW o \in {"ok", "failed", "aborted", "timedOut"}, Settle(p, o),
             zombies' = zombies \/ zombies' = zombies \cup {exec[p].id}
      PROVE  ExecOK'
  <2>1. exec[p] \in Exec /\ o \in Outcome
    BY <1>0 DEF ExecOK, Outcome
  <2>2. exec[p].id \in Nat
    BY <2>1 DEF Exec
  <2>3. [exec[p] EXCEPT !.st = o, !.ops = IF o = "ok" THEN @ ELSE <<>>] \in Exec
    <3>1. <<>> \in Seq(Op)
      OBVIOUS
    <3> QED BY <2>1, <3>1 DEF Exec
  <2>4. exec' = [exec EXCEPT ![p] = [exec[p] EXCEPT !.st = o, !.ops = IF o = "ok" THEN @ ELSE <<>>]]
    BY <1>0, <1>4, <2>1 DEF Settle, ExecOK, Exec
  <2>5. exec' \in [Pair -> Exec]
    BY <1>0, <2>3, <2>4 DEF ExecOK
  <2> QED BY <1>0, <1>4, <2>2, <2>5 DEF Settle, ExecOK
<1>5. ASSUME NEW z, ZombieSpawn(z) \/ ZombieSettle(z) PROVE ExecOK'
  BY <1>0, <1>5 DEF ZombieSpawn, ZombieSettle, ExecOK, execVars, history
<1>6. CASE BarrierCommit
  <2>1. exec' \in [Pair -> Exec]
    BY <1>6, NoExecType DEF BarrierCommit
  <2>2. \A p \in Pair, b \in BOOLEAN :
           Saw(p, b) \in [seen : [Component -> SUBSET Token], failed : BOOLEAN]
    BY SawType
  <2>3. \A p \in Pair : (exec[p].st # "ok") \in BOOLEAN /\ last[p].failed \in BOOLEAN
    BY <1>0 DEF ExecOK
  <2>4. last' \in [Pair -> [seen : [Component -> SUBSET Token], failed : BOOLEAN]]
    BY <1>0, <1>6, <2>2, <2>3 DEF BarrierCommit, ExecOK
  <2> QED BY <1>0, <1>6, <2>1, <2>4 DEF BarrierCommit, ExecOK
<1>7. CASE BarrierReject
  <2>1. exec' \in [Pair -> Exec]
    BY <1>7, NoExecType DEF BarrierReject
  <2>2. discarded' \subseteq Nat
    BY <1>0, <1>7 DEF BarrierReject, ExecOK, Exec, Scheduled
  <2> QED BY <1>0, <1>7, <2>1, <2>2 DEF BarrierReject, ExecOK
<1>8. CASE UNCHANGED <<execVars, history>>
  BY <1>0, <1>8 DEF ExecOK, execVars, history
<1>9. ASSUME NEW s, Use(s) PROVE UNCHANGED <<execVars, history>>
  BY <1>9 DEF Use
<1>10. ASSUME NEW item, SpawnExternal(item) PROVE UNCHANGED <<execVars, history>>
  BY <1>10 DEF SpawnExternal
<1>11. ASSUME NEW e, NEW c, NEW mode, WriteExternal(e, c, mode) PROVE UNCHANGED <<execVars, history>>
  BY <1>11 DEF WriteExternal
<1>12. ASSUME NEW e, NEW c, RemoveExternal(e, c) PROVE UNCHANGED <<execVars, history>>
  BY <1>12 DEF RemoveExternal
<1>13. ASSUME NEW e, DespawnExternal(e) PROVE UNCHANGED <<execVars, history>>
  BY <1>13 DEF DespawnExternal
<1>14. ASSUME \/ CancelIdle \/ CancelMidRun \/ Run \/ StampStep \/ LateStamp \/ Quiescent
              \/ LimitBreak \/ CadenceSave \/ FinalSave \/ LateSave \/ SaveFails \/ RunEnd
              \/ UNCHANGED vars
       PROVE  UNCHANGED <<execVars, history>>
  BY <1>14 DEF CancelIdle, CancelMidRun, Run, StampStep, LateStamp, Quiescent, LimitBreak,
               CadenceSave, FinalSave, LateSave, SaveFails, RunEnd, vars
<1>15. ASSUME NEW p \in Pair, Return(p) \/ Throw(p) \/ ThrowAbort(p) \/ Timeout(p)
       PROVE  ExecOK'
  BY <1>4, <1>15 DEF Return, Throw, ThrowAbort, Timeout
<1>16. ASSUME NEW s, UseFails(s) PROVE UNCHANGED <<execVars, history>>
  BY <1>16 DEF UseFails
<1>17. ASSUME NEW item, NEW set, NEW systems, SpawnFails(item, set, systems)
       PROVE  UNCHANGED <<execVars, history>>
  BY <1>17 DEF SpawnFails
<1> QED
  BY <1>1, <1>2, <1>3, <1>5, <1>6, <1>7, <1>8, <1>9, <1>10, <1>11, <1>12, <1>13, <1>14, <1>15,
     <1>16, <1>17
     DEF Next, Application, Bodies, Zombies, Loop

\* Every reachable state is well typed.
THEOREM TypeCorrect == Spec => []TypeOK
<1>1. TypeOK /\ [Next]_vars => TypeOK'
  BY StateStep, LoopStep, ExecStep DEF TypeOK, StateOK, LoopOK, ExecOK, Exec
<1> QED BY InitType, <1>1, PTL DEF Spec

-----------------------------------------------------------------------------
(* The safety invariants.                                                    *)

(***************************************************************************)
(* Steps that commit nothing leave the committed state alone.              *)
(***************************************************************************)
LEMMA CommitCases ==
    ASSUME [Next]_vars
    PROVE  \/ \E s \in System : Use(s)
           \/ \E item \in SpawnItems : SpawnExternal(item)
           \/ \E e \in Entity, c \in ExternalWrites, mode \in {"add", "set"} : WriteExternal(e, c, mode)
           \/ \E e \in Entity, c \in ExternalWrites : RemoveExternal(e, c)
           \/ \E e \in Entity : DespawnExternal(e)
           \/ CancelIdle \/ StampStep \/ LateStamp
           \/ \E s \in System : UseFails(s)
           \/ \E item \in SpawnItems : \E set \in SUBSET item[1], systems \in SUBSET item[2] :
                 SpawnFails(item, set, systems)
           \/ AllVetoed
           \/ BarrierCommit
           \/ UNCHANGED stateVars
<1>1. ASSUME NEW p \in Pair,
             PushOp(p) \/ Return(p) \/ Throw(p) \/ ThrowAbort(p) \/ Timeout(p)
      PROVE  UNCHANGED stateVars
  BY <1>1 DEF PushOp, Return, Throw, ThrowAbort, Timeout, Settle
<1>2. ASSUME NEW z \in zombies, ZombieSpawn(z) \/ ZombieSettle(z)
      PROVE  UNCHANGED stateVars
  BY <1>2 DEF ZombieSpawn, ZombieSettle
<1>3. ASSUME CancelMidRun \/ Run \/ Quiescent \/ LimitBreak \/ StepStart \/ BarrierReject
              \/ CadenceSave \/ FinalSave \/ LateSave \/ SaveFails \/ RunEnd \/ UNCHANGED vars
      PROVE  UNCHANGED stateVars
  BY <1>3 DEF CancelMidRun, Run, Quiescent, LimitBreak, StepStart, BarrierReject,
               CadenceSave, FinalSave, LateSave, SaveFails, RunEnd, vars
<1> QED
  BY <1>1, <1>2, <1>3 DEF Next, Application, Bodies, Zombies, Loop

\* The history of what pairs saw changes only when dirt is consumed.
LEMMA LastCases ==
    ASSUME [Next]_vars
    PROVE  last' = last \/ BarrierCommit \/ AllVetoed
<1>1. ASSUME NEW p \in Pair,
             PushOp(p) \/ Return(p) \/ Throw(p) \/ ThrowAbort(p) \/ Timeout(p)
      PROVE  last' = last
  BY <1>1 DEF PushOp, Return, Throw, ThrowAbort, Timeout, Settle, history
<1>2. ASSUME NEW z \in zombies, ZombieSpawn(z) \/ ZombieSettle(z) PROVE last' = last
  BY <1>2 DEF ZombieSpawn, ZombieSettle, history
<1>3. ASSUME CancelMidRun \/ Run \/ Quiescent \/ LimitBreak \/ StepStart \/ BarrierReject
              \/ CadenceSave \/ FinalSave \/ LateSave \/ SaveFails \/ RunEnd \/ UNCHANGED vars
              \/ CancelIdle \/ StampStep \/ LateStamp
      PROVE  last' = last
  BY <1>3 DEF CancelMidRun, Run, Quiescent, LimitBreak, StepStart, BarrierReject, CadenceSave,
              FinalSave, LateSave, SaveFails, RunEnd, CancelIdle, StampStep, LateStamp, vars, history
<1>4. ASSUME NEW s, Use(s) PROVE last' = last
  BY <1>4 DEF Use, history
<1>5. ASSUME NEW item, SpawnExternal(item) PROVE last' = last
  BY <1>5 DEF SpawnExternal, history
<1>6. ASSUME NEW e, NEW c, NEW mode, WriteExternal(e, c, mode) PROVE last' = last
  BY <1>6 DEF WriteExternal, history
<1>7. ASSUME NEW e, NEW c, RemoveExternal(e, c) PROVE last' = last
  BY <1>7 DEF RemoveExternal, history
<1>8. ASSUME NEW e, DespawnExternal(e) PROVE last' = last
  BY <1>8 DEF DespawnExternal, history
<1>9. ASSUME NEW s, UseFails(s) PROVE last' = last
  BY <1>9 DEF UseFails, history
<1>10. ASSUME NEW item, NEW set, NEW systems, SpawnFails(item, set, systems) PROVE last' = last
  BY <1>10 DEF SpawnFails, history
<1> QED
  BY <1>1, <1>2, <1>3, <1>4, <1>5, <1>6, <1>7, <1>8, <1>9, <1>10
     DEF Next, Application, Bodies, Zombies, Loop

(***************************************************************************)
(* Entity ids.                                                             *)
(***************************************************************************)
\* Steps that create no entity and buffer nothing keep the ids fresh.
LEMMA FreshKept ==
    ASSUME FreshSpawns, nextId' = nextId, alive' \subseteq alive,
           \/ exec' = exec
           \/ \A p \in Pair : exec'[p].ops = exec[p].ops \/ exec'[p].ops = <<>>
    PROVE  FreshSpawns'
<1>1. ASSUME NEW p \in Pair, NEW i \in 1 .. Len(exec'[p].ops)
      PROVE  i \in 1 .. Len(exec[p].ops) /\ exec'[p].ops[i] = exec[p].ops[i]
  <2>1. CASE exec'[p].ops = exec[p].ops
    BY <2>1
  <2>2. CASE exec'[p].ops = <<>>
    BY <2>2
  <2> QED
    BY <2>1, <2>2
<1>2. \A e \in alive' : e < nextId'
  BY DEF FreshSpawns
<1>3. ASSUME NEW p \in Pair, NEW q \in Pair,
             NEW i \in 1 .. Len(exec'[p].ops), NEW j \in 1 .. Len(exec'[q].ops),
             exec'[p].ops[i].kind = "spawn"
      PROVE  /\ exec'[p].ops[i].ent \notin alive' /\ exec'[p].ops[i].ent < nextId'
             /\ exec'[q].ops[j].kind = "spawn" /\ exec'[q].ops[j].ent = exec'[p].ops[i].ent
                  => <<p, i>> = <<q, j>>
  <2>1. /\ i \in 1 .. Len(exec[p].ops) /\ exec'[p].ops[i] = exec[p].ops[i]
        /\ j \in 1 .. Len(exec[q].ops) /\ exec'[q].ops[j] = exec[q].ops[j]
    BY <1>1
  <2> QED
    BY <1>3, <2>1 DEF FreshSpawns
<1> QED
  BY <1>2, <1>3 DEF FreshSpawns

LEMMA BufferedIds ==
    ASSUME TypeOK, NEW p \in Pair, NEW i \in 1 .. Len(exec[p].ops)
    PROVE  exec[p].ops[i].ent \in Nat
<1>1. exec[p].ops \in Seq(Op)
  BY DEF TypeOK
<1>2. exec[p].ops[i] \in Op
  BY <1>1
<1>3. exec[p].ops[i].ent \in 1 .. MaxId
  BY <1>2 DEF Op, Entity
<1> QED BY <1>3, BoundAssumption

LEMMA FreshStep ==
    ASSUME TypeOK, FreshSpawns, [Next]_vars
    PROVE  FreshSpawns'
<1>0. MaxId \in Nat /\ nextId \in Nat /\ alive \subseteq Nat
  BY BoundAssumption DEF TypeOK, Entity
<1>1. ASSUME alive' = alive \cup {nextId}, nextId' = nextId + 1, exec' = exec PROVE FreshSpawns'
  <2>1. \A p \in Pair : \A i \in 1 .. Len(exec[p].ops) : exec[p].ops[i].ent \in Nat
    BY BufferedIds
  <2> QED BY <1>0, <1>1, <2>1 DEF FreshSpawns
<1>2. ASSUME NEW s, Use(s) \/ UseFails(s) PROVE FreshSpawns'
  BY <1>2, FreshKept DEF Use, UseFails, Commit, execVars
<1>3. ASSUME NEW item, SpawnExternal(item) PROVE FreshSpawns'
  BY <1>1, <1>3 DEF SpawnExternal, Commit, execVars
<1>4. ASSUME NEW item, NEW set, NEW systems, SpawnFails(item, set, systems) PROVE FreshSpawns'
  BY <1>1, <1>4 DEF SpawnFails, execVars
<1>5. ASSUME NEW e, NEW c, NEW mode, WriteExternal(e, c, mode) PROVE FreshSpawns'
  BY <1>5, FreshKept DEF WriteExternal, Commit, execVars
<1>6. ASSUME NEW e, NEW c, RemoveExternal(e, c) PROVE FreshSpawns'
  BY <1>6, FreshKept DEF RemoveExternal, Commit, execVars
<1>7. ASSUME NEW e, DespawnExternal(e) PROVE FreshSpawns'
  BY <1>7, FreshKept DEF DespawnExternal, execVars
<1>8. CASE CancelIdle \/ StampStep \/ LateStamp
  BY <1>8, FreshKept DEF CancelIdle, StampStep, LateStamp, StampCancelled, Commit, execVars
<1>9. CASE CancelMidRun \/ Run \/ Quiescent \/ LimitBreak \/ AllVetoed \/ CadenceSave
           \/ FinalSave \/ LateSave \/ SaveFails \/ RunEnd \/ UNCHANGED vars
  BY <1>9, FreshKept DEF CancelMidRun, Run, Quiescent, LimitBreak, AllVetoed, CadenceSave,
        FinalSave, LateSave, SaveFails, RunEnd, vars, stateVars, execVars
<1>10. CASE StepStart
  <2>1. \A p \in Pair : exec'[p].ops = <<>>
    BY <1>10 DEF StepStart, NoExec
  <2> QED BY <1>10, <2>1, FreshKept DEF StepStart, stateVars
<1>11. ASSUME NEW p \in Pair, PushOp(p) PROVE FreshSpawns'
  <2>1. PICK m \in Menu[p[1]] :
          /\ exec' = [exec EXCEPT ![p].ops = Append(@, Resolve(m, p[2]))]
          /\ nextId' = IF m.kind = "spawn" THEN AfterSpawn(FALSE) ELSE nextId
    BY <1>11 DEF PushOp
  <2>2. nextId' \in Nat /\ nextId <= nextId'
        /\ (m.kind = "spawn" => nextId' = nextId + 1)
    BY <1>0, <2>1 DEF AfterSpawn
  <2> DEFINE n == Len(exec[p].ops)
             new == Resolve(m, p[2])
  <2>3. /\ exec[p].ops \in Seq(Op) /\ n \in Nat
        /\ \A q \in Pair \ {p} : exec'[q].ops = exec[q].ops
        /\ exec'[p].ops = Append(exec[p].ops, new)
    BY <2>1 DEF TypeOK
  <2>4. /\ Len(exec'[p].ops) = n + 1
        /\ exec'[p].ops[n + 1] = new
        /\ \A i \in 1 .. n : exec'[p].ops[i] = exec[p].ops[i]
    BY <2>3
  <2>5. new.kind = m.kind /\ (m.kind = "spawn" => new.ent = nextId)
    BY DEF Resolve
  <2> HIDE DEF n, new
  <2>6. ASSUME NEW q \in Pair, NEW i \in 1 .. Len(exec'[q].ops)
        PROVE  \/ /\ i \in 1 .. Len(exec[q].ops)
                  /\ exec'[q].ops[i] = exec[q].ops[i]
               \/ q = p /\ i = n + 1 /\ exec'[q].ops[i] = new
    BY <2>3, <2>4, <2>6 DEF n
  <2>7. alive' = alive
    BY <1>11 DEF PushOp, stateVars
  <2>8. \A e \in alive' : e < nextId'
    BY <1>0, <2>2, <2>7 DEF FreshSpawns
  <2>9. ASSUME NEW q \in Pair, NEW i \in 1 .. Len(exec'[q].ops), exec'[q].ops[i].kind = "spawn"
        PROVE  /\ exec'[q].ops[i].ent \notin alive'
               /\ exec'[q].ops[i].ent < nextId'
    <3>1. CASE i \in 1 .. Len(exec[q].ops) /\ exec'[q].ops[i] = exec[q].ops[i]
      <4>1. exec[q].ops[i].ent \in Nat
        BY <3>1, BufferedIds
      <4> QED BY <1>0, <2>2, <2>7, <2>9, <3>1, <4>1 DEF FreshSpawns
    <3>2. CASE exec'[q].ops[i] = new
      BY <1>0, <2>2, <2>5, <2>7, <2>9, <3>2 DEF FreshSpawns
    <3> QED BY <2>6, <3>1, <3>2
  <2>10. ASSUME NEW q \in Pair, NEW r \in Pair,
                NEW i \in 1 .. Len(exec'[q].ops), NEW j \in 1 .. Len(exec'[r].ops),
                exec'[q].ops[i].kind = "spawn", exec'[r].ops[j].kind = "spawn",
                exec'[r].ops[j].ent = exec'[q].ops[i].ent
         PROVE  <<q, i>> = <<r, j>>
    <3>1. CASE /\ i \in 1 .. Len(exec[q].ops) /\ exec'[q].ops[i] = exec[q].ops[i]
               /\ j \in 1 .. Len(exec[r].ops) /\ exec'[r].ops[j] = exec[r].ops[j]
      BY <2>10, <3>1 DEF FreshSpawns
    <3>2. CASE /\ q = p /\ i = n + 1 /\ exec'[q].ops[i] = new
               /\ j \in 1 .. Len(exec[r].ops) /\ exec'[r].ops[j] = exec[r].ops[j]
      <4>1. exec[r].ops[j].ent < nextId
        BY <2>10, <3>2 DEF FreshSpawns
      <4> QED BY <1>0, <2>5, <2>10, <3>2, <4>1
    <3>3. CASE /\ i \in 1 .. Len(exec[q].ops) /\ exec'[q].ops[i] = exec[q].ops[i]
               /\ r = p /\ j = n + 1 /\ exec'[r].ops[j] = new
      <4>1. exec[q].ops[i].ent < nextId
        BY <2>10, <3>3 DEF FreshSpawns
      <4> QED BY <1>0, <2>5, <2>10, <3>3, <4>1
    <3> QED BY <2>6, <3>1, <3>2, <3>3
  <2> QED BY <2>8, <2>9, <2>10 DEF FreshSpawns
<1>12. ASSUME NEW p \in Pair, NEW o, Settle(p, o) PROVE FreshSpawns'
  <2>1. \A q \in Pair : exec'[q].ops = exec[q].ops \/ exec'[q].ops = <<>>
    BY <1>12 DEF Settle, TypeOK
  <2> QED BY <1>12, <2>1, FreshKept DEF Settle, stateVars
<1>13. ASSUME NEW z, ZombieSpawn(z) \/ ZombieSettle(z) PROVE FreshSpawns'
  BY <1>13, FreshKept DEF ZombieSpawn, ZombieSettle, AfterSpawn, stateVars, execVars
<1>14. CASE BarrierReject
  <2>1. \A p \in Pair : exec'[p].ops = <<>>
    BY <1>14 DEF BarrierReject, NoExec
  <2> QED BY <1>14, <2>1, FreshKept DEF BarrierReject, stateVars
<1>15. CASE BarrierCommit
  <2>1. alive' \subseteq alive \cup Shells /\ nextId' = nextId
    BY <1>15 DEF BarrierCommit, Commit
  <2>2. \A e \in Shells : e < nextId
    <3>1. \A k \in Positions : k[1] \in Pair /\ k[2] \in 1 .. Len(exec[k[1]].ops)
      <4>1. \A k \in Positions : k[1] \in Pair /\ k[2] \in 1 .. MaxOps
                                 /\ k[2] <= Len(exec[k[1]].ops)
        BY DEF Positions, OkExecs
      <4>2. \A p \in Pair : Len(exec[p].ops) \in Nat
        BY DEF TypeOK
      <4> QED BY <4>1, <4>2, WorldAssumption
    <3> QED BY <3>1 DEF Shells, OpAt, FreshSpawns
  <2>3. \A p \in Pair : exec'[p].ops = <<>>
    BY <1>15 DEF BarrierCommit, NoExec
  <2> QED BY <2>1, <2>2, <2>3 DEF FreshSpawns
<1> QED
  BY <1>2, <1>3, <1>4, <1>5, <1>6, <1>7, <1>8, <1>9, <1>10, <1>11, <1>12, <1>13, <1>14, <1>15
     DEF Next, Application, Bodies, Zombies, Loop, Return, Throw, ThrowAbort, Timeout

\* An id, once allocated, is never allocated again: not by the application, not
\* by two bodies that spawn concurrently, not after a despawn (R13, R29).
THEOREM IdsAreNeverReused == Spec => []FreshSpawns
<1>1. Init => FreshSpawns
  BY DEF Init, FreshSpawns, NoExec
<1>2. TypeOK /\ FreshSpawns /\ [Next]_vars => FreshSpawns'
  BY FreshStep
<1> QED BY <1>1, <1>2, TypeCorrect, PTL DEF Spec

(***************************************************************************)
(* Pending pairs and match sets name entities that exist.                  *)
(***************************************************************************)
LEMMA CommitPhantom ==
    ASSUME NEW al, NEW cs, NEW reg, NEW changes,
           NEW base \in [System -> SUBSET al], NEW marks,
           Commit(al, cs, reg, changes, base, marks)
    PROVE  NoPhantomDirt'
BY DEF Commit, NoPhantomDirt, MatchSet

LEMMA PhantomStep ==
    ASSUME TypeOK, NoPhantomDirt, [Next]_vars
    PROVE  NoPhantomDirt'
<1>0. dirt \in [System -> SUBSET alive]
  BY DEF TypeOK, NoPhantomDirt
<1>1. ASSUME NEW s \in System, Use(s) PROVE NoPhantomDirt'
  BY <1>0, <1>1, CommitPhantom DEF Use
<1>2. ASSUME NEW item \in SpawnItems, SpawnExternal(item) PROVE NoPhantomDirt'
  <2>1. dirt \in [System -> SUBSET (alive \cup {nextId})]
    BY <1>0
  <2> QED BY <1>2, <2>1, CommitPhantom DEF SpawnExternal
<1>3. ASSUME NEW e, NEW c, NEW mode, WriteExternal(e, c, mode) PROVE NoPhantomDirt'
  BY <1>0, <1>3, CommitPhantom DEF WriteExternal
<1>4. ASSUME NEW e, NEW c, RemoveExternal(e, c) PROVE NoPhantomDirt'
  BY <1>0, <1>4, CommitPhantom DEF RemoveExternal
<1>5. ASSUME NEW e \in Entity, DespawnExternal(e) PROVE NoPhantomDirt'
  BY <1>5 DEF DespawnExternal, NoPhantomDirt
<1>6. CASE CancelIdle \/ StampStep \/ LateStamp
  BY <1>0, <1>6, CommitPhantom DEF CancelIdle, StampStep, LateStamp, StampCancelled
<1>7. CASE AllVetoed
  BY <1>7 DEF AllVetoed, NoPhantomDirt
<1>8. CASE BarrierCommit
  <2>1. BaseDirt \in [System -> SUBSET ((alive \cup Shells) \ Despawning)]
    BY <1>0 DEF BaseDirt
  <2> QED BY <1>8, <2>1, CommitPhantom DEF BarrierCommit
<1>9. CASE UNCHANGED stateVars
  BY <1>9 DEF stateVars, NoPhantomDirt
<1>10. ASSUME NEW s, UseFails(s) PROVE NoPhantomDirt'
  BY <1>10 DEF UseFails, NoPhantomDirt
<1>11. ASSUME NEW item, NEW set, NEW systems, SpawnFails(item, set, systems) PROVE NoPhantomDirt'
  BY <1>11 DEF SpawnFails, NoPhantomDirt
<1> QED
  BY <1>1, <1>2, <1>3, <1>4, <1>5, <1>6, <1>7, <1>8, <1>9, <1>10, <1>11, CommitCases

\* No pending pair and no match set ever names an entity that does not exist,
\* whatever despawns, rejections and failures happened (R24, R35).
THEOREM PendingPairsExist == Spec => []NoPhantomDirt
<1>1. Init => NoPhantomDirt
  BY DEF Init, NoPhantomDirt
<1>2. TypeOK /\ NoPhantomDirt /\ [Next]_vars => NoPhantomDirt'
  BY PhantomStep
<1> QED BY <1>1, <1>2, TypeCorrect, PTL DEF Spec

(***************************************************************************)
(* Match sets are current, if no external call throws half-way.            *)
(***************************************************************************)
LEMMA CommitCurrent ==
    ASSUME NEW al, NEW cs, NEW reg, NEW changes, NEW base, NEW marks,
           Commit(al, cs, reg, changes, base, marks)
    PROVE  MatchedCurrent'
BY DEF Commit, MatchedCurrent, MatchSet, MatchesQuery

LEMMA CurrentStep ==
    ASSUME ~ExternalMayThrow, TypeOK, MatchedCurrent, [Next]_vars
    PROVE  MatchedCurrent'
<1>1. ASSUME NEW s \in System, Use(s) PROVE MatchedCurrent'
  BY <1>1, CommitCurrent DEF Use
<1>2. ASSUME NEW item \in SpawnItems, SpawnExternal(item) PROVE MatchedCurrent'
  BY <1>2, CommitCurrent DEF SpawnExternal
<1>3. ASSUME NEW e, NEW c, NEW mode, WriteExternal(e, c, mode) PROVE MatchedCurrent'
  BY <1>3, CommitCurrent DEF WriteExternal
<1>4. ASSUME NEW e, NEW c, RemoveExternal(e, c) PROVE MatchedCurrent'
  BY <1>4, CommitCurrent DEF RemoveExternal
<1>5. ASSUME NEW e \in Entity, DespawnExternal(e) PROVE MatchedCurrent'
  <2>1. \A f \in alive \ {e} : comps'[f] = comps[f]
    BY <1>5 DEF DespawnExternal, TypeOK
  <2>2. ASSUME NEW s \in System
        PROVE  MatchSet(s, registered', alive', comps') = MatchSet(s, registered, alive, comps) \ {e}
    BY <1>5, <2>1 DEF DespawnExternal, MatchSet, MatchesQuery
  <2> QED BY <1>5, <2>2 DEF DespawnExternal, MatchedCurrent
<1>6. CASE CancelIdle \/ StampStep \/ LateStamp
  BY <1>6, CommitCurrent DEF CancelIdle, StampStep, LateStamp, StampCancelled
<1>7. CASE AllVetoed
  BY <1>7 DEF AllVetoed, MatchedCurrent, MatchSet, MatchesQuery
<1>8. CASE BarrierCommit
  BY <1>8, CommitCurrent DEF BarrierCommit
<1>9. CASE UNCHANGED stateVars
  BY <1>9 DEF stateVars, MatchedCurrent, MatchSet, MatchesQuery
<1> QED
  BY <1>1, <1>2, <1>3, <1>4, <1>5, <1>6, <1>7, <1>8, <1>9, CommitCases DEF UseFails, SpawnFails

\* Match sets are always those of the committed components (R26), as long as
\* no external spawn or registration throws half-way.
THEOREM MatchSetsAreCurrent ==
    ASSUME ~ExternalMayThrow
    PROVE  Spec => []MatchedCurrent
<1>1. Init => MatchedCurrent
  BY DEF Init, MatchedCurrent, MatchSet
<1>2. TypeOK /\ MatchedCurrent /\ [Next]_vars => MatchedCurrent'
  BY CurrentStep
<1> QED BY <1>1, <1>2, TypeCorrect, PTL DEF Spec

(***************************************************************************)
(* No missed input.                                                        *)
(*                                                                         *)
(* The invariant is inductive relative to the types: a commit either keeps *)
(* a pair pending, or what it shows to a clean pair was there when the     *)
(* pair's dirt was consumed, or a foreign change record makes it pending.  *)
(***************************************************************************)
\* A value written without a foreign record was there before or is the pair's.
Explained(cs, changes) ==
    \A s \in System, e \in Entity, c \in Component : \A t \in cs[e][c] :
        \/ t \in comps[e][c]
        \/ <<t[2], t[3]>> = <<s, e>>
        \/ \E w \in Writer : w # <<s, e>> /\ <<e, c, w>> \in changes

\* What a pair must have seen when a commit drops it from the pending pairs.
Witnessed(base) ==
    \A s \in System, e \in Entity : e \in matched[s] /\ e \notin base[s] =>
        \A c \in Include[s] : \A t \in comps[e][c] :
            t \in last'[<<s, e>>].seen[c] \/ <<t[2], t[3]>> = <<s, e>>

LEMMA CommitMissesNothing ==
    ASSUME NEW al \in SUBSET Entity, NEW cs, NEW reg, NEW changes, NEW base, NEW marks,
           Commit(al, cs, reg, changes, base, marks),
           Explained(cs, changes), Witnessed(base)
    PROVE  NoMissedInput'
<1> SUFFICES ASSUME NEW s \in System, NEW e \in Entity, e \in matched'[s], e \notin dirt'[s],
                    NEW c \in Include[s], NEW t \in comps'[e][c]
             PROVE  t \in last'[<<s, e>>].seen[c] \/ <<t[2], t[3]>> = <<s, e>>
  BY DEF NoMissedInput
<1>1. e \in MatchSet(s, reg, al, cs) /\ t \in cs[e][c]
  BY DEF Commit
<1>2. ~Wakes(changes, s, e) /\ e \notin base[s]
  BY <1>1 DEF Commit
<1>3. e \in matched[s] /\ ~ForeignChange(changes, s, e)
  BY <1>2 DEF Wakes
<1>4. ASSUME NEW w \in Writer, w # <<s, e>> PROVE <<e, c, w>> \notin changes
  BY <1>3, <1>4 DEF ForeignChange
<1>5. e \in Entity /\ c \in Component
  BY <1>1, QueryAssumption DEF MatchSet
<1>6. t \in comps[e][c] \/ <<t[2], t[3]>> = <<s, e>>
  BY <1>1, <1>4, <1>5 DEF Explained
<1>7. CASE t \in comps[e][c]
  BY <1>2, <1>3, <1>7 DEF Witnessed
<1> QED BY <1>6, <1>7

LEMMA ExternalIsForeign ==
    /\ External \in Writer /\ Engine \in Writer
    /\ \A s \in System, e \in Entity : External # <<s, e>> /\ Engine # <<s, e>>
BY SystemAssumption DEF External, Engine, Writer

\* When the history does not change, the pending pairs dropped are none.
LEMMA WitnessedByNow ==
    ASSUME NoMissedInput, last' = last
    PROVE  Witnessed(dirt)
BY DEF NoMissedInput, Witnessed

LEMMA StampMissesNothing ==
    ASSUME TypeOK, NoMissedInput, last' = last, NEW n, NEW w \in {External, Engine},
           StampCancelled(n, w)
    PROVE  NoMissedInput'
<1> DEFINE cs == [e \in Entity |-> IF e \in alive
                                THEN [comps[e] EXCEPT ![Cancelled] = {<<n, w[1], 0>>}]
                                ELSE comps[e]]
           changes == {<<e, Cancelled, w>> : e \in alive}
<1>1. Commit(alive, cs, registered, changes, dirt, {})
  BY DEF StampCancelled
<1>2. \A e \in Entity, c \in Component :
         cs[e][c] = comps[e][c] \/ (e \in alive /\ c = Cancelled)
  BY DEF TypeOK
<1>3. Explained(cs, changes)
  BY <1>2, ExternalIsForeign DEF Explained
<1>4. alive \in SUBSET Entity
  BY DEF TypeOK
<1> HIDE DEF cs, changes
<1> QED BY <1>1, <1>3, <1>4, CommitMissesNothing, WitnessedByNow

\* At the barrier every new token comes with the change record of its writer.
LEMMA BarrierExplained ==
    ASSUME TypeOK
    PROVE  Explained(NextComps, OpChanges \cup EngineChanges)
<1> SUFFICES ASSUME NEW s \in System, NEW e \in Entity, NEW c \in Component,
                    NEW t \in NextComps[e][c], t \notin comps[e][c], <<t[2], t[3]>> # <<s, e>>
             PROVE  \E w \in Writer : w # <<s, e>> /\ <<e, c, w>> \in OpChanges \cup EngineChanges
  BY DEF Explained
<1>1. Survives(e)
  BY DEF NextComps, NoComps
<1>2. t \in Staged(e, c, Positions) \/ (c = SystemError /\ FailedOn(e) # {})
  BY <1>1 DEF NextComps, WithRecords
<1>3. CASE t \in Staged(e, c, Positions)
  <2>1. PICK k \in Landed : /\ Touches(k, e, c)
                            /\ OpAt(k).kind # "remove"
                            /\ t = <<exec[k[1]].id, k[1][1], k[1][2]>>
    BY <1>3, StagedTokens
  <2>2. k \in Positions
    BY DEF Landed
  <2>3. k[1] \in Pair /\ k[1] # <<s, e>>
    BY <2>1, <2>2, PositionType
  <2>4. OpAt(k).ent = e /\ c \in OpAt(k).comps
    BY <2>1 DEF Touches
  <2>5. <<e, c, k[1]>> \in OpChanges
    BY <2>1, <2>4 DEF OpChanges
  <2> QED BY <2>3, <2>5 DEF Writer
<1>4. CASE c = SystemError /\ FailedOn(e) # {}
  BY <1>1, <1>4, ExternalIsForeign DEF EngineChanges
<1> QED BY <1>2, <1>3, <1>4

\* The dirt the barrier consumes is that of pairs whose guard or body has just
\* looked at the committed state, which no one has changed since.
LEMMA BarrierWitnessed ==
    ASSUME TypeOK, NoMissedInput, BarrierCommit
    PROVE  \A s \in System, e \in Entity :
             e \in matched[s] /\ e \notin BaseDirt[s] /\ e \notin Despawning =>
               \A c \in Include[s] : \A t \in comps[e][c] :
                  t \in last'[<<s, e>>].seen[c] \/ <<t[2], t[3]>> = <<s, e>>
<1> SUFFICES ASSUME NEW s \in System, NEW e \in Entity,
                    e \in matched[s], e \notin BaseDirt[s], e \notin Despawning,
                    NEW c \in Include[s], NEW t \in comps[e][c]
             PROVE  t \in last'[<<s, e>>].seen[c] \/ <<t[2], t[3]>> = <<s, e>>
  OBVIOUS
<1> DEFINE p == <<s, e>>
<1>1. p \in Pair /\ p[1] = s /\ p[2] = e
  BY DEF Pair
<1>2. exec[p].st \in Outcome /\ exec[p].st # "running"
  BY <1>1 DEF TypeOK, BarrierCommit, BarrierReady, Running
<1>3. CASE exec[p].st \in {"ok", "failed", "timedOut", "vetoed"}
  <2>1. last'[p].seen = comps[e]
    BY <1>1, <1>3 DEF BarrierCommit, Saw
  <2> QED BY <2>1
<1>4. CASE exec[p].st \in {"none", "aborted"}
  <2>1. last'[p] = last[p]
    BY <1>1, <1>4 DEF BarrierCommit
  <2>2. p \notin Consumed
    BY <1>4 DEF Consumed
  <2>3. e \notin dirt[s]
    BY <2>2 DEF BaseDirt
  <2> QED BY <2>1, <2>3 DEF NoMissedInput
<1> QED BY <1>2, <1>3, <1>4 DEF Outcome

LEMMA MissesNothingStep ==
    ASSUME TypeOK, FreshSpawns, NoPhantomDirt, NoMissedInput, [Next]_vars
    PROVE  NoMissedInput'
<1>0. comps \in [Entity -> [Component -> SUBSET Token]] /\ alive \in SUBSET Entity
  BY DEF TypeOK
<1>1. ASSUME NEW s \in System, Use(s) PROVE NoMissedInput'
  <2>1. Commit(alive, comps, registered \cup {s}, {}, dirt, {}) /\ last' = last
    BY <1>1 DEF Use, history
  <2>2. Explained(comps, {})
    BY DEF Explained
  <2> QED BY <1>0, <2>1, <2>2, CommitMissesNothing, WitnessedByNow
<1>2. ASSUME NEW item \in SpawnItems, SpawnExternal(item) PROVE NoMissedInput'
  <2> DEFINE value == [c \in Component |->
                        IF c \in item[1] THEN {<<stepCount, "external", 0>>} ELSE {}]
             cs == [comps EXCEPT ![nextId] = value]
             changes == {<<nextId, c, External>> : c \in item[1]}
  <2>1. Commit(alive \cup {nextId}, cs, registered \cup item[2], changes, dirt, {})
    BY <1>2 DEF SpawnExternal
  <2>2. nextId \in Entity
    BY <1>2, BoundAssumption DEF SpawnExternal, TypeOK, Entity
  <2>3. \A e \in Entity, c \in Component :
           cs[e][c] = comps[e][c] \/ cs[e][c] = {} \/ (e = nextId /\ c \in item[1])
    BY <1>0
  <2>4. Explained(cs, changes)
    BY <2>3, ExternalIsForeign DEF Explained
  <2>5. last' = last
    BY <1>2 DEF SpawnExternal, history
  <2> HIDE DEF cs, changes
  <2> QED BY <1>0, <2>1, <2>2, <2>4, <2>5, CommitMissesNothing, WitnessedByNow
<1>3. ASSUME NEW e \in Entity, NEW c \in ExternalWrites, NEW mode, WriteExternal(e, c, mode)
      PROVE  NoMissedInput'
  <2> DEFINE kept == IF mode = "add" /\ c \in Reducer THEN comps[e][c] ELSE {}
             cs == [comps EXCEPT ![e][c] = kept \cup {<<stepCount, "external", 0>>}]
  <2>1. Commit(alive, cs, registered, {<<e, c, External>>}, dirt, {}) /\ last' = last
    BY <1>3 DEF WriteExternal, history
  <2>2. \A f \in Entity, d \in Component : cs[f][d] = comps[f][d] \/ (f = e /\ d = c)
    BY <1>0
  <2>3. Explained(cs, {<<e, c, External>>})
    BY <2>2, ExternalIsForeign DEF Explained
  <2> HIDE DEF cs
  <2> QED BY <1>0, <2>1, <2>3, CommitMissesNothing, WitnessedByNow
<1>4. ASSUME NEW e \in Entity, NEW c \in ExternalWrites, RemoveExternal(e, c)
      PROVE  NoMissedInput'
  <2> DEFINE cs == [comps EXCEPT ![e][c] = {}]
  <2>1. Commit(alive, cs, registered, {<<e, c, External>>}, dirt, {}) /\ last' = last
    BY <1>4 DEF RemoveExternal, history
  <2>2. \A f \in Entity, d \in Component : cs[f][d] = comps[f][d] \/ cs[f][d] = {}
    BY <1>0
  <2>3. Explained(cs, {<<e, c, External>>})
    BY <2>2 DEF Explained
  <2> HIDE DEF cs
  <2> QED BY <1>0, <2>1, <2>3, CommitMissesNothing, WitnessedByNow
<1>5. ASSUME NEW e \in Entity, DespawnExternal(e) PROVE NoMissedInput'
  <2>1. \A f \in Entity \ {e} : comps'[f] = comps[f]
    BY <1>0, <1>5 DEF DespawnExternal
  <2>2. \A s \in System : /\ matched'[s] = matched[s] \ {e}
                          /\ dirt'[s] = dirt[s] \ {e}
    BY <1>5 DEF DespawnExternal
  <2>3. last' = last
    BY <1>5 DEF DespawnExternal, history
  <2> QED BY <2>1, <2>2, <2>3 DEF NoMissedInput
<1>6. CASE CancelIdle \/ StampStep \/ LateStamp
  <2>1. last' = last
    BY <1>6 DEF CancelIdle, StampStep, LateStamp, history
  <2> QED BY <1>6, <2>1, StampMissesNothing DEF CancelIdle, StampStep, LateStamp
<1>7. CASE AllVetoed
  <2> SUFFICES ASSUME NEW s \in System, NEW e \in Entity, e \in matched'[s], e \notin dirt'[s],
                      NEW c \in Include[s], NEW t \in comps'[e][c]
               PROVE  t \in last'[<<s, e>>].seen[c] \/ <<t[2], t[3]>> = <<s, e>>
    BY DEF NoMissedInput
  <2>1. matched' = matched /\ comps' = comps
    BY <1>7 DEF AllVetoed
  <2>2. <<s, e>> \in Pair
    BY DEF Pair
  <2>3. CASE <<s, e>> \in Candidates
    <3>1. last'[<<s, e>>].seen = comps[e]
      BY <1>7, <2>2, <2>3 DEF AllVetoed, Saw
    <3> QED BY <2>1, <3>1
  <2>4. CASE <<s, e>> \notin Candidates
    <3>1. last'[<<s, e>>] = last[<<s, e>>] /\ e \notin dirt[s]
      BY <1>7, <2>2, <2>4 DEF AllVetoed
    <3> QED BY <2>1, <3>1 DEF NoMissedInput
  <2> QED BY <2>3, <2>4
<1>8. CASE BarrierCommit
  <2> SUFFICES ASSUME NEW s \in System, NEW e \in Entity, e \in matched'[s], e \notin dirt'[s],
                      NEW c \in Include[s], NEW t \in comps'[e][c]
               PROVE  t \in last'[<<s, e>>].seen[c] \/ <<t[2], t[3]>> = <<s, e>>
    BY DEF NoMissedInput
  <2> DEFINE al == (alive \cup Shells) \ Despawning
             changes == OpChanges \cup EngineChanges
  <2>1. Commit(al, NextComps, registered \cup NewSystems, changes, BaseDirt, Invalidations)
    BY <1>8 DEF BarrierCommit
  <2>2. e \in MatchSet(s, registered \cup NewSystems, al, NextComps) /\ t \in NextComps[e][c]
    BY <2>1 DEF Commit
  <2>3. e \notin Despawning
    BY <2>2 DEF MatchSet
  <2> HIDE DEF al, changes
  <2>4. ~Wakes(changes, s, e) /\ e \notin BaseDirt[s]
    BY <2>1, <2>2 DEF Commit
  <2>5. e \in matched[s] /\ ~ForeignChange(changes, s, e)
    BY <2>4 DEF Wakes
  <2>6. ASSUME NEW w \in Writer, w # <<s, e>> PROVE <<e, c, w>> \notin changes
    BY <2>5, <2>6 DEF ForeignChange
  <2>7. t \in comps[e][c] \/ <<t[2], t[3]>> = <<s, e>>
    <3>1. c \in Component
      BY QueryAssumption
    <3> QED BY <2>2, <2>6, <3>1, BarrierExplained DEF Explained, changes
  <2> QED BY <1>8, <2>3, <2>4, <2>5, <2>7, BarrierWitnessed
<1>9. CASE UNCHANGED stateVars
  <2>1. last' = last \/ BarrierCommit \/ AllVetoed
    BY LastCases
  <2> QED BY <1>7, <1>8, <1>9, <2>1 DEF stateVars, NoMissedInput
<1>10. ASSUME NEW s, UseFails(s) PROVE NoMissedInput'
  BY <1>10 DEF UseFails, history, NoMissedInput
<1>11. ASSUME NEW item, NEW set, NEW systems, SpawnFails(item, set, systems) PROVE NoMissedInput'
  <2>1. nextId \notin alive
    BY DEF FreshSpawns, TypeOK
  <2>2. \A f \in alive : comps'[f] = comps[f]
    BY <1>11, <2>1 DEF SpawnFails, TypeOK
  <2>3. \A s \in System : matched[s] \subseteq alive
    BY DEF NoPhantomDirt
  <2> QED BY <1>11, <2>2, <2>3 DEF SpawnFails, history, NoMissedInput
<1> QED
  BY <1>1, <1>2, <1>3, <1>4, <1>5, <1>6, <1>7, <1>8, <1>9, <1>10, <1>11, CommitCases

\* A pair that matches and is not pending has seen everything others wrote to
\* its positive components, when it last ran or was vetoed (R26, R50).
THEOREM NothingIsMissed == Spec => []NoMissedInput
<1>1. Init => NoMissedInput
  BY DEF Init, NoMissedInput
<1>2. TypeOK /\ FreshSpawns /\ NoPhantomDirt /\ NoMissedInput /\ [Next]_vars => NoMissedInput'
  BY MissesNothingStep
<1> QED BY <1>1, <1>2, TypeCorrect, IdsAreNeverReused, PendingPairsExist, PTL DEF Spec

(***************************************************************************)
(* No effect of a discarded execution.                                     *)
(*                                                                         *)
(* NoDiscardedEffect is not inductive: an execution id may only become     *)
(* discarded if no committed value shows it yet, and what a barrier        *)
(* commits must not be discarded.  The strengthening says where each id    *)
(* can be.                                                                 *)
(***************************************************************************)
Shown(i) == \E e \in Entity, c \in Component : \E t \in comps[e][c] : t[3] # 0 /\ t[1] = i

Live(p) == exec[p].st \in {"running", "ok"}

IdsInv ==
    /\ \A e \in Entity, c \in Component : \A t \in comps[e][c] :
          t[3] # 0 => 0 < t[1] /\ t[1] <= execSeq /\ t[1] \notin discarded
    /\ \A i \in discarded : i <= execSeq
    /\ \A p \in Pair : Live(p) =>
          /\ 0 < exec[p].id /\ exec[p].id <= execSeq
          /\ exec[p].id \notin discarded
          /\ ~Shown(exec[p].id)
    /\ \A p, q \in Pair : Live(p) /\ Live(q) /\ exec[p].id = exec[q].id => p = q
    /\ \A p \in Pair : ~Live(p) => exec[p].id \in discarded \cup {0}

\* Steps that only write tokens of mutations from outside or of stamps.
LEMMA NoEffectCommit ==
    ASSUME TypeOK, IdsInv, UNCHANGED execVars, discarded' = discarded,
           \A e \in Entity, c \in Component : \A t \in comps'[e][c] :
              t \in comps[e][c] \/ t[3] = 0
    PROVE  IdsInv'
<1>1. exec' = exec /\ execSeq' = execSeq
  BY DEF execVars
<1>2. \A i : Shown(i)' => Shown(i)
  BY DEF Shown
<1> QED BY <1>1, <1>2 DEF IdsInv, Live

LEMMA StampEffect ==
    ASSUME TypeOK, NEW n, NEW w, StampCancelled(n, w)
    PROVE  \A e \in Entity, c \in Component : \A t \in comps'[e][c] :
              t \in comps[e][c] \/ t[3] = 0
<1>1. comps' = [e \in Entity |-> IF e \in alive
                                THEN [comps[e] EXCEPT ![Cancelled] = {<<n, w[1], 0>>}]
                                ELSE comps[e]]
  BY DEF StampCancelled, Commit
<1>2. \A e \in Entity, c \in Component :
         comps'[e][c] = comps[e][c] \/ comps'[e][c] = {<<n, w[1], 0>>}
  BY <1>1 DEF TypeOK
<1> QED BY <1>2

LEMMA IdsStep ==
    ASSUME TypeOK, TypeOK', IdsInv, [Next]_vars
    PROVE  IdsInv'
<1>0. comps \in [Entity -> [Component -> SUBSET Token]]
  BY DEF TypeOK
<1>1. ASSUME NEW s, Use(s) PROVE IdsInv'
  BY <1>1, NoEffectCommit DEF Use, Commit, history
<1>2. ASSUME NEW item, SpawnExternal(item) PROVE IdsInv'
  <2>1. comps' = [comps EXCEPT ![nextId] =
            [c \in Component |-> IF c \in item[1] THEN {<<stepCount, "external", 0>>} ELSE {}]]
    BY <1>2 DEF SpawnExternal, Commit
  <2>2. \A e \in Entity, c \in Component :
           \/ comps'[e][c] = comps[e][c] \/ comps'[e][c] = {}
           \/ comps'[e][c] = {<<stepCount, "external", 0>>}
    BY <2>1, <1>0
  <2> QED BY <1>2, <2>2, NoEffectCommit DEF SpawnExternal, history
<1>3. ASSUME NEW e \in Entity, NEW c, NEW mode, WriteExternal(e, c, mode) PROVE IdsInv'
  <2>1. comps' = [comps EXCEPT ![e][c] =
            (IF mode = "add" /\ c \in Reducer THEN comps[e][c] ELSE {})
            \cup {<<stepCount, "external", 0>>}]
    BY <1>3 DEF WriteExternal, Commit
  <2>2. \A f \in Entity, d \in Component :
           comps'[f][d] \subseteq comps[f][d] \cup {<<stepCount, "external", 0>>}
    BY <2>1, <1>0
  <2> QED BY <1>3, <2>2, NoEffectCommit DEF WriteExternal, history
<1>4. ASSUME NEW e \in Entity, NEW c, RemoveExternal(e, c) PROVE IdsInv'
  <2>1. comps' = [comps EXCEPT ![e][c] = {}]
    BY <1>4 DEF RemoveExternal, Commit
  <2>2. \A f \in Entity, d \in Component : comps'[f][d] \subseteq comps[f][d]
    BY <2>1, <1>0
  <2> QED BY <1>4, <2>2, NoEffectCommit DEF RemoveExternal, history
<1>5. ASSUME NEW e \in Entity, DespawnExternal(e) PROVE IdsInv'
  <2>1. \A f \in Entity, d \in Component : comps'[f][d] \subseteq comps[f][d]
    BY <1>5, <1>0 DEF DespawnExternal, NoComps
  <2> QED BY <1>5, <2>1, NoEffectCommit DEF DespawnExternal, history
<1>6. CASE CancelIdle \/ StampStep \/ LateStamp
  BY <1>6, StampEffect, NoEffectCommit DEF CancelIdle, StampStep, LateStamp, history
<1>7. ASSUME UNCHANGED execVars, discarded' = discarded, comps' = comps PROVE IdsInv'
  BY <1>7, NoEffectCommit
<1>8. CASE AllVetoed \/ CancelMidRun \/ Run \/ Quiescent \/ LimitBreak \/ CadenceSave
           \/ FinalSave \/ LateSave \/ SaveFails \/ RunEnd \/ UNCHANGED vars
  BY <1>7, <1>8 DEF AllVetoed, CancelMidRun, Run, Quiescent, LimitBreak, CadenceSave,
              FinalSave, LateSave, SaveFails, RunEnd, vars, stateVars, history
<1>9. CASE StepStart
  <2>1. PICK v \in Verdicts :
         LET started == {p \in Candidates : v[p] = "pass"}
             outcome(p) == IF v[p] = "veto" THEN "vetoed" ELSE "failed"
         IN /\ exec' = [p \in Pair |->
                  IF p \in started THEN [st |-> "running", id |-> ExecId(started, p), ops |-> <<>>]
                  ELSE IF p \in Candidates THEN [st |-> outcome(p), id |-> 0, ops |-> <<>>]
                  ELSE NoExec]
            /\ execSeq' = execSeq + Cardinality(started)
    BY <1>9 DEF StepStart
  <2> DEFINE started == {p \in Candidates : v[p] = "pass"}
  <2>2. started \in SUBSET Pair
    BY DEF Candidates
  <2>3. /\ Cardinality(started) \in Nat
        /\ \A p \in started : /\ ExecId(started, p) \in Nat
                              /\ execSeq < ExecId(started, p)
                              /\ ExecId(started, p) <= execSeq + Cardinality(started)
        /\ \A p, r \in started : ExecId(started, p) = ExecId(started, r) => p = r
    BY <2>2, FreshIds DEF TypeOK
  <2>4. /\ \A p \in started : exec'[p].st = "running" /\ exec'[p].id = ExecId(started, p)
        /\ \A p \in Pair \ started : exec'[p].st \in {"vetoed", "failed", "none"} /\ exec'[p].id = 0
    BY <2>1, <2>2 DEF NoExec
  <2>5. execSeq' = execSeq + Cardinality(started)
    BY <2>1
  <2> HIDE DEF started
  <2>6. comps' = comps /\ discarded' = discarded /\ execSeq \in Nat /\ execSeq <= execSeq'
    BY <1>9, <2>3, <2>5 DEF StepStart, stateVars, history, TypeOK
  <2>7. \A i : Shown(i)' <=> Shown(i)
    BY <2>6 DEF Shown
  <2>8. \A e \in Entity, c \in Component : \A t \in comps[e][c] : t[1] \in Nat
    BY <1>0 DEF Token
  <2>9. \A i \in discarded : i \in Nat
    BY DEF TypeOK
  <2>10. \A p \in Pair : Live(p)' <=> p \in started
    BY <2>4, <2>2 DEF Live
  <2>11. \A p \in started : ~Shown(ExecId(started, p))
    BY <2>3, <2>6, <2>8 DEF Shown, IdsInv
  <2>12. \A p \in started : ExecId(started, p) \notin discarded
    BY <2>3, <2>6, <2>9 DEF IdsInv
  <2>13. ASSUME NEW p \in started
         PROVE  /\ 0 < exec'[p].id /\ exec'[p].id <= execSeq'
                /\ exec'[p].id \notin discarded'
                /\ \A e \in Entity, c \in Component : \A t \in comps'[e][c] :
                      t[3] # 0 => t[1] # exec'[p].id
    <3>1. exec'[p].id = ExecId(started, p)
      BY <2>4, <2>13
    <3>2. 0 < exec'[p].id /\ exec'[p].id <= execSeq'
      BY <3>1, <2>3, <2>5, <2>6, <2>13
    <3>3. exec'[p].id \notin discarded'
      BY <3>1, <2>6, <2>12, <2>13
    <3>4. ~Shown(exec'[p].id)
      BY <3>1, <2>11, <2>13
    <3> QED BY <3>2, <3>3, <3>4, <2>6 DEF Shown
  <2>14. \A p, q \in Pair : Live(p)' /\ Live(q)' /\ exec'[p].id = exec'[q].id => p = q
    BY <2>3, <2>4, <2>10
  <2>15. \A p \in Pair : ~Live(p)' => exec'[p].id \in discarded' \cup {0}
    BY <2>4, <2>10
  <2>16. \A e \in Entity, c \in Component : \A t \in comps'[e][c] :
          t[3] # 0 => 0 < t[1] /\ t[1] <= execSeq' /\ t[1] \notin discarded'
    BY <2>6, <2>8, <2>5, <2>3 DEF IdsInv
  <2>17. ASSUME NEW i \in discarded' PROVE i <= execSeq'
    <3>1. i \in Nat /\ i <= execSeq
      BY <2>6, <2>9 DEF IdsInv
    <3> QED BY <3>1, <2>6, <2>5, <2>3
  <2>18. \A p \in Pair : Live(p)' =>
          /\ 0 < exec'[p].id /\ exec'[p].id <= execSeq'
          /\ exec'[p].id \notin discarded'
          /\ ~Shown(exec[p].id)'
    BY <2>10, <2>13 DEF Shown
  <2> QED BY <2>18, <2>14, <2>15, <2>16, <2>17 DEF IdsInv, Live
<1>10. ASSUME NEW p \in Pair, PushOp(p) PROVE IdsInv'
  <2>1. /\ \A q \in Pair : exec'[q].st = exec[q].st /\ exec'[q].id = exec[q].id
        /\ comps' = comps /\ execSeq' = execSeq /\ discarded' = discarded
    BY <1>10 DEF PushOp, stateVars, history, TypeOK
  <2> QED BY <2>1 DEF IdsInv, Live, Shown
<1>11. ASSUME NEW p \in Pair, NEW o \in {"ok", "failed", "aborted", "timedOut"}, Settle(p, o)
       PROVE  IdsInv'
  <2>1. /\ \A q \in Pair : exec'[q].id = exec[q].id
        /\ \A q \in Pair \ {p} : exec'[q].st = exec[q].st
        /\ exec'[p].st = o
        /\ comps' = comps /\ execSeq' = execSeq
        /\ Live(p)
    BY <1>11 DEF Settle, Running, stateVars, TypeOK, Live
  <2>2. \A i : Shown(i)' <=> Shown(i)
    BY <2>1 DEF Shown
  <2>3. CASE o = "ok"
    <3>1. discarded' = discarded /\ \A q \in Pair : Live(q)' <=> Live(q)
      BY <1>11, <2>1, <2>3 DEF Settle, Live
    <3> QED BY <2>1, <2>2, <3>1 DEF IdsInv, Live, Shown
  <2>4. CASE o # "ok"
    <3>1. discarded' = discarded \cup {exec[p].id}
      BY <1>11, <2>4 DEF Settle
    <3>2. ~Live(p)' /\ \A q \in Pair \ {p} : Live(q)' <=> Live(q)
      BY <2>1, <2>4 DEF Live
    <3>3. ~Shown(exec[p].id) /\ exec[p].id <= execSeq
      BY <2>1 DEF IdsInv
    <3>4. \A q \in Pair \ {p} : Live(q) => exec[q].id # exec[p].id
      BY <2>1 DEF IdsInv
    <3>5. ASSUME NEW q \in Pair, Live(q)'
          PROVE  /\ 0 < exec'[q].id /\ exec'[q].id <= execSeq'
                 /\ exec'[q].id \notin discarded'
                 /\ ~Shown(exec[q].id)'
      <4>1. q # p /\ Live(q)
        BY <3>2, <3>5
      <4>2. exec'[q].id = exec[q].id /\ execSeq' = execSeq
        BY <2>1
      <4>3. ~Shown(exec[q].id) /\ exec[q].id \notin discarded
            /\ 0 < exec[q].id /\ exec[q].id <= execSeq
        BY <4>1 DEF IdsInv
      <4>4. ~Shown(exec'[q].id)
        BY <4>2, <4>3
      <4>5. ~Shown(exec[q].id)'
        BY <4>4, <2>1 DEF Shown
      <4> QED BY <4>1, <4>2, <4>3, <4>5, <3>1, <3>4
    <3>6. \A q, r \in Pair : Live(q)' /\ Live(r)' /\ exec'[q].id = exec'[r].id => q = r
      BY <2>1, <3>2 DEF IdsInv
    <3>7. \A q \in Pair : ~Live(q)' => exec'[q].id \in discarded' \cup {0}
      BY <2>1, <3>1, <3>2 DEF IdsInv
    <3>8. \A e \in Entity, c \in Component : \A t \in comps'[e][c] :
          t[3] # 0 => 0 < t[1] /\ t[1] <= execSeq' /\ t[1] \notin discarded'
      BY <2>1, <3>1, <3>3 DEF IdsInv, Shown
    <3>9. \A i \in discarded' : i <= execSeq'
      <4>1. \A i \in discarded : i <= execSeq
        BY DEF IdsInv
      <4> QED BY <2>1, <3>1, <3>3, <4>1
    <3> QED BY <3>5, <3>6, <3>7, <3>8, <3>9 DEF IdsInv, Live
  <2> QED BY <2>3, <2>4
<1>12. ASSUME NEW z, ZombieSpawn(z) \/ ZombieSettle(z) PROVE IdsInv'
  <2>1. comps' = comps /\ exec' = exec /\ execSeq' = execSeq /\ discarded' = discarded
    BY <1>12 DEF ZombieSpawn, ZombieSettle, stateVars, execVars, history
  <2> QED BY <2>1 DEF IdsInv, Live, Shown
<1>13. CASE BarrierCommit
  <2>1. /\ exec' = [p \in Pair |-> NoExec] /\ execSeq' = execSeq /\ discarded' = discarded
        /\ comps' = NextComps
    BY <1>13 DEF BarrierCommit, Commit
  <2>2. ASSUME NEW e \in Entity, NEW c \in Component, NEW t \in NextComps[e][c], t[3] # 0
        PROVE  0 < t[1] /\ t[1] <= execSeq /\ t[1] \notin discarded
    <3>1. t \in Staged(e, c, Positions) \/ t[3] = 0
      BY DEF NextComps, NoComps, WithRecords
    <3>2. CASE t \in comps[e][c]
      BY <2>2, <3>2 DEF IdsInv
    <3>3. ASSUME NEW k \in Positions, t = <<exec[k[1]].id, k[1][1], k[1][2]>>
          PROVE  0 < t[1] /\ t[1] <= execSeq /\ t[1] \notin discarded
      <4>1. k[1] \in Pair /\ Live(k[1])
        BY PositionType DEF Live
      <4> QED BY <3>3, <4>1 DEF IdsInv
    <3> QED BY <2>2, <3>1, <3>2, <3>3, StagedTokens
  <2>3. \A p \in Pair : exec'[p].id = 0 /\ ~Live(p)'
    BY <2>1 DEF NoExec, Live
  <2>4. \A i \in discarded : i <= execSeq
    BY DEF IdsInv
  <2> QED BY <2>1, <2>2, <2>3, <2>4 DEF IdsInv, Live, Shown
<1>14. CASE BarrierReject
  <2>1. /\ exec' = [p \in Pair |-> NoExec] /\ execSeq' = execSeq /\ comps' = comps
        /\ discarded' = discarded \cup {exec[p].id : p \in Scheduled}
    BY <1>14 DEF BarrierReject, stateVars
  <2>2. \A p \in Pair : exec'[p].id = 0 /\ ~Live(p)'
    BY <2>1 DEF NoExec, Live
  <2>3. ASSUME NEW p \in Pair
        PROVE  /\ exec[p].id <= execSeq
               /\ \A e \in Entity, c \in Component : \A t \in comps[e][c] :
                     t[3] # 0 => t[1] # exec[p].id
    <3>1. execSeq \in Nat
      BY DEF TypeOK
    <3>2. CASE Live(p)
      BY <3>2 DEF IdsInv, Shown
    <3>3. CASE ~Live(p)
      BY <3>1, <3>3 DEF IdsInv
    <3> QED BY <3>2, <3>3
  <2>4. \A p \in Scheduled : p \in Pair
    BY DEF Scheduled
  <2>5. \A i \in discarded' : i <= execSeq'
    BY <2>1, <2>3, <2>4 DEF IdsInv
  <2>6. \A e \in Entity, c \in Component : \A t \in comps'[e][c] :
          t[3] # 0 => 0 < t[1] /\ t[1] <= execSeq' /\ t[1] \notin discarded'
    BY <2>1, <2>3, <2>4 DEF IdsInv
  <2> QED BY <2>2, <2>5, <2>6 DEF IdsInv, Live, Shown
<1>15. ASSUME NEW p \in Pair, Return(p) \/ Throw(p) \/ ThrowAbort(p) \/ Timeout(p)
       PROVE  IdsInv'
  BY <1>11, <1>15 DEF Return, Throw, ThrowAbort, Timeout
<1>16. ASSUME NEW s, UseFails(s) PROVE IdsInv'
  BY <1>7, <1>16 DEF UseFails, history
<1>17. ASSUME NEW item, NEW set, NEW systems, SpawnFails(item, set, systems) PROVE IdsInv'
  <2>1. comps' = [comps EXCEPT ![nextId] =
            [c \in Component |-> IF c \in set THEN {<<stepCount, "external", 0>>} ELSE {}]]
    BY <1>17 DEF SpawnFails
  <2>2. \A e \in Entity, c \in Component :
           \/ comps'[e][c] = comps[e][c] \/ comps'[e][c] = {}
           \/ comps'[e][c] = {<<stepCount, "external", 0>>}
    BY <2>1, <1>0
  <2> QED BY <1>17, <2>2, NoEffectCommit DEF SpawnFails, history
<1> QED
  BY <1>1, <1>2, <1>3, <1>4, <1>5, <1>6, <1>8, <1>9, <1>10, <1>12, <1>13, <1>14, <1>15, <1>16, <1>17
     DEF Next, Application, Bodies, Zombies, Loop

\* Nothing a discarded execution buffered is ever committed (R25, R31, R52).
THEOREM DiscardedLeavesNoTrace == Spec => []NoDiscardedEffect
<1>1. Init => IdsInv
  BY DEF Init, IdsInv, Live, Shown, NoComps, NoExec
<1>2. TypeOK /\ TypeOK' /\ IdsInv /\ [Next]_vars => IdsInv'
  BY IdsStep
<1>3. IdsInv => NoDiscardedEffect
  BY DEF IdsInv, NoDiscardedEffect
<1> QED BY <1>1, <1>2, <1>3, TypeCorrect, PTL DEF Spec

(***************************************************************************)
(* The run loop: what a resolved run reports about itself.                 *)
(***************************************************************************)
\* The actions of the loop and of a cancellation; all others end the run, or leave
\* the loop where it is.
LEMMA LoopCases ==
    ASSUME [Next]_vars
    PROVE  \/ phase' \in {"idle", "rejected"}
           \/ CancelMidRun \/ Run \/ StampStep \/ Quiescent \/ LimitBreak \/ AllVetoed
           \/ StepStart \/ BarrierCommit \/ CadenceSave \/ FinalSave \/ LateStamp \/ LateSave
           \/ UNCHANGED <<stateVars, stepCount, phase, runVars>>
<1>1. ASSUME NEW p \in Pair,
             PushOp(p) \/ Return(p) \/ Throw(p) \/ ThrowAbort(p) \/ Timeout(p)
      PROVE  UNCHANGED <<stateVars, stepCount, phase, runVars>>
  BY <1>1 DEF PushOp, Return, Throw, ThrowAbort, Timeout, Settle
<1>2. ASSUME NEW z \in zombies, ZombieSpawn(z) \/ ZombieSettle(z)
      PROVE  UNCHANGED <<stateVars, stepCount, phase, runVars>>
  BY <1>2 DEF ZombieSpawn, ZombieSettle
<1>3. CASE UNCHANGED vars
  BY <1>3 DEF vars
<1>4. ASSUME NEW s, Use(s) \/ UseFails(s) PROVE phase' = "idle"
  BY <1>4 DEF Use, UseFails
<1>5. ASSUME NEW item, SpawnExternal(item) PROVE phase' = "idle"
  BY <1>5 DEF SpawnExternal
<1>6. ASSUME NEW item, NEW set, NEW systems, SpawnFails(item, set, systems) PROVE phase' = "idle"
  BY <1>6 DEF SpawnFails
<1>7. ASSUME NEW e, NEW c, NEW mode, WriteExternal(e, c, mode) PROVE phase' = "idle"
  BY <1>7 DEF WriteExternal
<1>8. ASSUME NEW e, NEW c, RemoveExternal(e, c) PROVE phase' = "idle"
  BY <1>8 DEF RemoveExternal
<1>9. ASSUME NEW e, DespawnExternal(e) PROVE phase' = "idle"
  BY <1>9 DEF DespawnExternal
<1>10. ASSUME CancelIdle \/ RunEnd \/ BarrierReject \/ SaveFails PROVE phase' \in {"idle", "rejected"}
  BY <1>10 DEF CancelIdle, RunEnd, BarrierReject, SaveFails
<1> QED
  BY <1>1, <1>2, <1>3, <1>4, <1>5, <1>6, <1>7, <1>8, <1>9, <1>10
     DEF Next, Application, Bodies, Zombies, Loop

\* A stamp reaches every entity.
LEMMA StampReachesAll ==
    ASSUME TypeOK, NEW n, NEW w, StampCancelled(n, w)
    PROVE  Stamped' /\ alive' = alive
<1>1. /\ alive' = alive
      /\ comps' = [e \in Entity |-> IF e \in alive
                                THEN [comps[e] EXCEPT ![Cancelled] = {<<n, w[1], 0>>}]
                                ELSE comps[e]]
  BY DEF StampCancelled, Commit
<1>2. Cancelled \in Component
  BY DEF Component, Builtin
<1>3. \A e \in alive : comps'[e][Cancelled] = {<<n, w[1], 0>>}
  BY <1>1, <1>2 DEF TypeOK
<1> QED BY <1>1, <1>3 DEF Stamped

\* Where a cancellation of the run can be: waiting to be stamped while steps may
\* still run, and stamped on every entity before the run reports it.
StampInv ==
    /\ phase \in {"loop", "exec", "saving"} => (cancelSeen <=> pendingCancel)
    /\ phase = "final" => (pendingCancel => cancelSeen)
    /\ phase = "final" => (cancelSeen /\ ~pendingCancel => Stamped)
    /\ phase = "late" => cancelSeen /\ Stamped
    /\ CancelledMeansStamped

\* Where the loop can stop with work left: at the limit, or for a cancellation.
RestInv ==
    /\ phase = "final" => cancelSeen \/ limitHit \/ Candidates = {}
    /\ QuiescentStatus

LEMMA StampInvStep ==
    ASSUME TypeOK, StampInv, [Next]_vars
    PROVE  StampInv'
<1> USE DEF StampInv
<1>1. CASE phase' \in {"idle", "rejected"}
  BY <1>1 DEF CancelledMeansStamped
<1>2. CASE CancelMidRun
  BY <1>2 DEF CancelMidRun, CancelledMeansStamped, stateVars, Stamped, TypeOK, Phase
<1>3. CASE Run
  BY <1>3 DEF Run, CancelledMeansStamped
<1>4. CASE StampStep \/ LateStamp
  <2>1. Stamped'
    BY <1>4, StampReachesAll DEF StampStep, LateStamp
  <2>2. phase' \in {"final", "late"} /\ ~pendingCancel'
    BY <1>4 DEF StampStep, LateStamp
  <2>3. cancelSeen'
    BY <1>4 DEF StampStep, LateStamp
  <2> QED BY <2>1, <2>2, <2>3 DEF CancelledMeansStamped
<1>5. CASE Quiescent \/ LimitBreak \/ AllVetoed
  BY <1>5 DEF Quiescent, LimitBreak, AllVetoed, Continues, runVars, CancelledMeansStamped
<1>6. CASE StepStart
  BY <1>6 DEF StepStart, Continues, CancelledMeansStamped
<1>7. CASE BarrierCommit
  BY <1>7 DEF BarrierCommit, BarrierReady, runVars, CancelledMeansStamped
<1>8. CASE CadenceSave
  BY <1>8 DEF CadenceSave, runVars, CancelledMeansStamped
<1>9. CASE FinalSave \/ LateSave
  <2>1. /\ phase' = "resolved" /\ status' = StatusNow
        /\ UNCHANGED <<alive, comps, steps, cancelSeen>>
        /\ cancelSeen => Stamped
    BY <1>9 DEF FinalSave, LateSave, Uncancelled, stateVars
  <2>2. status' = "cancelled" => Stamped \/ (steps = 0 /\ \E e \in alive : comps[e][Cancelled] # {})
    BY <2>1 DEF StatusNow
  <2> QED BY <2>1, <2>2 DEF CancelledMeansStamped, Stamped
<1>10. CASE UNCHANGED <<stateVars, stepCount, phase, runVars>>
  BY <1>10 DEF stateVars, runVars, CancelledMeansStamped, Stamped
<1> QED
  BY <1>1, <1>2, <1>3, <1>4, <1>5, <1>6, <1>7, <1>8, <1>9, <1>10, LoopCases

LEMMA StampInvHolds == Spec => []StampInv
<1>1. Init => StampInv
  BY DEF Init, StampInv, CancelledMeansStamped
<1>2. TypeOK /\ StampInv /\ [Next]_vars => StampInv'
  BY StampInvStep
<1> QED BY <1>1, <1>2, TypeCorrect, PTL DEF Spec

LEMMA RestInvStep ==
    ASSUME TypeOK, StampInv, RestInv, [Next]_vars
    PROVE  RestInv'
<1> USE DEF RestInv, QuiescentStatus
<1>1. CASE phase' \in {"idle", "rejected"}
  BY <1>1
<1>2. CASE CancelMidRun
  BY <1>2 DEF CancelMidRun, stateVars, Candidates
<1>3. CASE Run \/ StepStart \/ CadenceSave
  BY <1>3 DEF Run, StepStart, CadenceSave
<1>4. CASE StampStep \/ LateStamp
  BY <1>4 DEF StampStep, LateStamp, TypeOK, StampInv
<1>5. CASE Quiescent
  BY <1>5 DEF Quiescent, stateVars, Candidates
<1>6. CASE LimitBreak
  BY <1>6 DEF LimitBreak, AtLimit
<1>7. CASE AllVetoed
  <2>1. /\ matched' = matched
        /\ dirt' = [s \in System |-> dirt[s] \ {e \in Entity : <<s, e>> \in Candidates}]
    BY <1>7 DEF AllVetoed
  <2>2. ASSUME NEW p \in Pair, p[2] \in matched'[p[1]] \cap dirt'[p[1]] PROVE FALSE
    <3>1. p = <<p[1], p[2]>> /\ p[1] \in System /\ p[2] \in Entity
      BY DEF Pair
    <3>2. p[2] \in matched[p[1]] /\ p[2] \in dirt[p[1]] /\ <<p[1], p[2]>> \notin Candidates
      BY <2>1, <2>2, <3>1
    <3> QED BY <3>1, <3>2 DEF Candidates
  <2>3. Candidates' = {}
    BY <2>2 DEF Candidates
  <2> QED BY <1>7, <2>3 DEF AllVetoed
<1>8. CASE BarrierCommit
  BY <1>8 DEF BarrierCommit
<1>9. CASE FinalSave \/ LateSave
  <2>1. /\ phase' = "resolved" /\ status' = StatusNow
        /\ UNCHANGED <<matched, dirt>>
        /\ cancelSeen \/ limitHit \/ Candidates = {}
    BY <1>9 DEF FinalSave, LateSave, Uncancelled, stateVars, StampInv
  <2>2. status' \in {"idle", "done", "error", "pending"} => ~cancelSeen /\ ~limitHit
    BY <2>1 DEF StatusNow
  <2> QED BY <2>1, <2>2 DEF Candidates
<1>10. CASE UNCHANGED <<stateVars, stepCount, phase, runVars>>
  BY <1>10 DEF stateVars, runVars, Candidates
<1> QED
  BY <1>1, <1>2, <1>3, <1>4, <1>5, <1>6, <1>7, <1>8, <1>9, <1>10, LoopCases

\* A run that reports 'cancelled' has stamped the cancellation, also one that came
\* during the run-end save, and a run that reports it came to rest has left
\* nothing that could still be scheduled (R25, R28, R50).
THEOREM StatusTellsTheTruth == Spec => []StatusIsTrue
<1>1. Init => RestInv
  BY DEF Init, RestInv, QuiescentStatus
<1>2. TypeOK /\ StampInv /\ RestInv /\ [Next]_vars => RestInv'
  BY RestInvStep
<1>3. StampInv /\ RestInv => StatusIsTrue
  BY DEF StampInv, RestInv, StatusIsTrue
<1> QED BY <1>1, <1>2, <1>3, TypeCorrect, StampInvHolds, PTL DEF Spec

\* A requested cancellation is stamped before another step can start: the run
\* executes nothing more (R50).
THEOREM CancelledRunsStartNothing == Spec => CancelStopsScheduling
<1>1. ASSUME TypeOK, StampInv, [Next]_vars
      PROVE  cancelSeen /\ cancelSeen' => steps' = steps
  <2>1. CASE StepStart
    BY <1>1, <2>1 DEF StepStart, Continues, StampInv
  <2>2. CASE Run
    BY <2>2 DEF Run
  <2>3. CASE ~StepStart /\ ~Run
    <3>1. ASSUME NEW p \in Pair,
                 PushOp(p) \/ Return(p) \/ Throw(p) \/ ThrowAbort(p) \/ Timeout(p)
          PROVE  steps' = steps
      BY <3>1 DEF PushOp, Return, Throw, ThrowAbort, Timeout, Settle, runVars
    <3>2. ASSUME NEW z \in zombies, ZombieSpawn(z) \/ ZombieSettle(z) PROVE steps' = steps
      BY <3>2 DEF ZombieSpawn, ZombieSettle, runVars
    <3>3. ASSUME NEW s, Use(s) \/ UseFails(s) PROVE steps' = steps
      BY <3>3 DEF Use, UseFails, runVars
    <3>4. ASSUME NEW item, SpawnExternal(item) PROVE steps' = steps
      BY <3>4 DEF SpawnExternal, runVars
    <3>5. ASSUME NEW item, NEW set, NEW systems, SpawnFails(item, set, systems)
          PROVE  steps' = steps
      BY <3>5 DEF SpawnFails, runVars
    <3>6. ASSUME NEW e, NEW c, NEW mode, WriteExternal(e, c, mode) PROVE steps' = steps
      BY <3>6 DEF WriteExternal, runVars
    <3>7. ASSUME NEW e, NEW c, RemoveExternal(e, c) PROVE steps' = steps
      BY <3>7 DEF RemoveExternal, runVars
    <3>8. ASSUME NEW e, DespawnExternal(e) PROVE steps' = steps
      BY <3>8 DEF DespawnExternal, runVars
    <3>9. ASSUME \/ CancelIdle \/ CancelMidRun \/ StampStep \/ Quiescent \/ LimitBreak
                 \/ AllVetoed \/ BarrierCommit \/ BarrierReject \/ CadenceSave
                 \/ FinalSave \/ LateStamp \/ LateSave \/ SaveFails \/ RunEnd \/ UNCHANGED vars
          PROVE  steps' = steps
      BY <3>9 DEF CancelIdle, CancelMidRun, StampStep, Quiescent, LimitBreak, AllVetoed,
                  BarrierCommit, BarrierReject, CadenceSave, FinalSave, LateStamp, LateSave,
                  SaveFails, RunEnd, vars, runVars
    <3> QED
      BY <1>1, <2>3, <3>1, <3>2, <3>3, <3>4, <3>5, <3>6, <3>7, <3>8, <3>9
         DEF Next, Application, Bodies, Zombies, Loop
  <2> QED BY <2>1, <2>2, <2>3
<1>2. TypeOK /\ StampInv /\ [Next]_vars
        => [cancelSeen /\ cancelSeen' => steps' = steps]_vars
  BY <1>1
<1> QED BY <1>2, TypeCorrect, StampInvHolds, PTL DEF Spec, CancelStopsScheduling

(***************************************************************************)
(* What a barrier leaves behind.                                           *)
(***************************************************************************)
\* The step counter moves by one, at a barrier and at a stamp only.
LEMMA StepCountCases ==
    ASSUME [Next]_vars
    PROVE  \/ stepCount' = stepCount
           \/ stepCount' = stepCount + 1 /\ (BarrierCommit \/ StampStep \/ LateStamp)
<1>1. ASSUME NEW p \in Pair,
             PushOp(p) \/ Return(p) \/ Throw(p) \/ ThrowAbort(p) \/ Timeout(p)
      PROVE  stepCount' = stepCount
  BY <1>1 DEF PushOp, Return, Throw, ThrowAbort, Timeout, Settle
<1>2. ASSUME NEW z \in zombies, ZombieSpawn(z) \/ ZombieSettle(z) PROVE stepCount' = stepCount
  BY <1>2 DEF ZombieSpawn, ZombieSettle
<1>3. ASSUME CancelMidRun \/ Run \/ Quiescent \/ LimitBreak \/ StepStart \/ BarrierReject
              \/ CadenceSave \/ FinalSave \/ LateSave \/ SaveFails \/ RunEnd \/ UNCHANGED vars
              \/ CancelIdle \/ AllVetoed
      PROVE  stepCount' = stepCount
  BY <1>3 DEF CancelMidRun, Run, Quiescent, LimitBreak, StepStart, BarrierReject, CadenceSave,
              FinalSave, LateSave, SaveFails, RunEnd, CancelIdle, AllVetoed, vars
<1>4. ASSUME NEW s, Use(s) \/ UseFails(s) PROVE stepCount' = stepCount
  BY <1>4 DEF Use, UseFails
<1>5. ASSUME NEW e, NEW c, NEW mode, WriteExternal(e, c, mode) PROVE stepCount' = stepCount
  BY <1>5 DEF WriteExternal
<1>6. ASSUME NEW e, NEW c, RemoveExternal(e, c) PROVE stepCount' = stepCount
  BY <1>6 DEF RemoveExternal
<1>7. ASSUME NEW e, DespawnExternal(e) PROVE stepCount' = stepCount
  BY <1>7 DEF DespawnExternal
<1>8. ASSUME NEW item, SpawnExternal(item) PROVE stepCount' = stepCount
  BY <1>8 DEF SpawnExternal
<1>9. ASSUME NEW item, NEW set, NEW systems, SpawnFails(item, set, systems)
      PROVE  stepCount' = stepCount
  BY <1>9 DEF SpawnFails
<1>10. BarrierCommit \/ StampStep \/ LateStamp => stepCount' = stepCount + 1
  BY DEF BarrierCommit, StampStep, LateStamp
<1> QED
  BY <1>1, <1>2, <1>3, <1>4, <1>5, <1>6, <1>7, <1>8, <1>9, <1>10
     DEF Next, Application, Bodies, Zombies, Loop

LEMMA CommittingIsBarrier ==
    ASSUME TypeOK, [Next]_vars, Committing
    PROVE  BarrierCommit
<1>1. stepCount' # stepCount
  BY DEF Committing, TypeOK
<1> QED BY <1>1, StepCountCases DEF Committing, StampStep, LateStamp

\* An entity that exists after a barrier survived its step.
LEMMA BarrierSurvivors ==
    ASSUME TypeOK, BarrierCommit, NEW e \in alive', NEW c \in Component
    PROVE  /\ e \in Entity /\ Survives(e)
           /\ comps'[e][c] = IF c = SystemError THEN WithRecords(e) \ Cleared(e)
                             ELSE Staged(e, c, Positions)
<1>1. alive' = (alive \cup Shells) \ Despawning /\ comps' = NextComps
  BY DEF BarrierCommit, Commit
<1>2. Shells \subseteq Entity
  BY PositionType DEF Shells, Op
<1>3. e \in Entity /\ Survives(e)
  BY <1>1, <1>2 DEF Survives, TypeOK
<1> QED BY <1>1, <1>3 DEF NextComps

\* A merge that a barrier committed is in the value it merged into, unless the
\* step also overwrote, removed or spawned that value (R25, R30).
THEOREM MergesLand == Spec => MergesAllLand
<1>1. ASSUME TypeOK, [Next]_vars, Committing,
             NEW k \in Positions, NEW c \in (OpAt(k).comps \cap Reducer) \ {SystemError},
             OpAt(k).kind = "add", OpAt(k).ent \in alive'
      PROVE  \/ <<exec[k[1]].id, k[1][1], k[1][2]>> \in comps'[OpAt(k).ent][c]
             \/ \E l \in Positions : /\ OpAt(l).ent = OpAt(k).ent
                                     /\ OpAt(l).kind \in {"set", "remove", "spawn"}
                                     /\ c \in OpAt(l).comps
  <2> DEFINE e == OpAt(k).ent
             L == {l \in Positions \cap Landed : Touches(l, e, c)}
             R == {l \in L : Resets(l, c)}
             visible == {l \in L : \A r \in R : ~Earlier(l, r)}
  <2>1. c \in Component
    BY <1>1, ReducerAssumption
  <2>2. Survives(e) /\ comps'[e][c] = Staged(e, c, Positions)
    BY <1>1, <2>1, CommittingIsBarrier, BarrierSurvivors
  <2>3. k \in L
    BY <1>1, <2>2 DEF Landed, Touches
  <2>4. CASE \A r \in R : ~Earlier(k, r)
    <3>1. k \in visible
      BY <2>3, <2>4
    <3>2. Content(k) = {<<exec[k[1]].id, k[1][1], k[1][2]>>}
      BY <1>1 DEF Content
    <3>3. Content(k) \subseteq Staged(e, c, Positions)
      BY <3>1 DEF Staged
    <3> QED BY <2>2, <3>2, <3>3
  <2>5. ASSUME NEW r \in R
        PROVE  \E l \in Positions : /\ OpAt(l).ent = e
                                    /\ OpAt(l).kind \in {"set", "remove", "spawn"}
                                    /\ c \in OpAt(l).comps
    <3>1. r \in Positions /\ Touches(r, e, c) /\ Resets(r, c)
      OBVIOUS
    <3>2. OpAt(r).ent = e /\ c \in OpAt(r).comps
          /\ OpAt(r).kind \in {"add", "set", "remove", "spawn"}
      BY <3>1 DEF Touches
    <3>3. OpAt(r).kind # "add"
      BY <1>1, <3>1 DEF Resets
    <3> QED BY <3>1, <3>2, <3>3
  <2> QED BY <2>4, <2>5
<1>2. TypeOK /\ [Next]_vars
        => [Committing =>
              \A k \in Positions : \A c \in (OpAt(k).comps \cap Reducer) \ {SystemError} :
                 OpAt(k).kind = "add" /\ OpAt(k).ent \in alive' =>
                    \/ <<exec[k[1]].id, k[1][1], k[1][2]>> \in comps'[OpAt(k).ent][c]
                    \/ \E l \in Positions : /\ OpAt(l).ent = OpAt(k).ent
                                            /\ OpAt(l).kind \in {"set", "remove", "spawn"}
                                            /\ c \in OpAt(l).comps]_vars
  BY <1>1
<1> QED BY <1>2, TypeCorrect, PTL DEF Spec, MergesAllLand

(***************************************************************************)
(* Error records.                                                          *)
(***************************************************************************)
\* The tokens that carry no entity, those of the engine and of the application,
\* name a step that is over.
StampsPast ==
    \A e \in Entity, c \in Component : \A t \in comps[e][c] : t[3] = 0 => t[1] <= stepCount

LEMMA StampsPastStep ==
    ASSUME TypeOK, StampsPast, [Next]_vars
    PROVE  StampsPast'
<1>0. /\ comps \in [Entity -> [Component -> SUBSET Token]]
      /\ stepCount \in Nat /\ stepCount' \in Nat /\ stepCount <= stepCount'
  BY StepCountCases DEF TypeOK
<1>1. ASSUME \A e \in Entity, c \in Component : \A t \in comps'[e][c] :
                t \in comps[e][c] \/ t[1] <= stepCount' \/ t[3] # 0
      PROVE  StampsPast'
  <2> SUFFICES ASSUME NEW e \in Entity, NEW c \in Component, NEW t \in comps'[e][c], t[3] = 0
               PROVE  t[1] <= stepCount'
    BY DEF StampsPast
  <2>1. CASE t \in comps[e][c]
    <3>1. t[1] \in Nat /\ t[1] <= stepCount
      BY <1>0, <2>1 DEF Token, StampsPast
    <3> QED BY <1>0, <3>1
  <2> QED BY <1>1, <2>1
<1>2. ASSUME NEW s \in System, Use(s) \/ UseFails(s) PROVE StampsPast'
  BY <1>1, <1>2 DEF Use, UseFails, Commit
<1>3. ASSUME NEW item, SpawnExternal(item) PROVE StampsPast'
  <2>1. comps' = [comps EXCEPT ![nextId] = [c \in Component |->
                     IF c \in item[1] THEN {<<stepCount, "external", 0>>} ELSE {}]]
        /\ stepCount' = stepCount
    BY <1>3 DEF SpawnExternal, Commit
  <2>2. \A e \in Entity, c \in Component :
           comps'[e][c] \in {comps[e][c], {<<stepCount, "external", 0>>}, {}}
    BY <1>0, <2>1
  <2>3. \A e \in Entity, c \in Component : \A t \in comps'[e][c] :
           t \in comps[e][c] \/ t = <<stepCount, "external", 0>>
    BY <2>2
  <2> QED BY <1>0, <1>1, <2>1, <2>3
<1>4. ASSUME NEW item, NEW set, NEW systems, SpawnFails(item, set, systems) PROVE StampsPast'
  <2>1. comps' = [comps EXCEPT ![nextId] = [c \in Component |->
                     IF c \in set THEN {<<stepCount, "external", 0>>} ELSE {}]]
        /\ stepCount' = stepCount
    BY <1>4 DEF SpawnFails
  <2>2. \A e \in Entity, c \in Component :
           comps'[e][c] \in {comps[e][c], {<<stepCount, "external", 0>>}, {}}
    BY <1>0, <2>1
  <2>3. \A e \in Entity, c \in Component : \A t \in comps'[e][c] :
           t \in comps[e][c] \/ t = <<stepCount, "external", 0>>
    BY <2>2
  <2> QED BY <1>0, <1>1, <2>1, <2>3
<1>5. ASSUME NEW f, NEW d, NEW mode, WriteExternal(f, d, mode) PROVE StampsPast'
  <2> DEFINE kept == IF mode = "add" /\ d \in Reducer THEN comps[f][d] ELSE {}
             value == kept \cup {<<stepCount, "external", 0>>}
  <2>1. comps' = [comps EXCEPT ![f][d] = value] /\ stepCount' = stepCount
    BY <1>5 DEF WriteExternal, Commit
  <2>2. ASSUME NEW e \in Entity, NEW c \in Component
        PROVE  comps'[e][c] = comps[e][c] \/ (e = f /\ c = d /\ comps'[e][c] = value)
    BY <1>0, <2>1
  <2>3. \A e \in Entity, c \in Component : \A t \in comps'[e][c] :
           t \in comps[e][c] \/ t = <<stepCount, "external", 0>>
    BY <2>2
  <2> QED BY <1>0, <1>1, <2>1, <2>3
<1>6. ASSUME NEW f, NEW d, RemoveExternal(f, d) PROVE StampsPast'
  <2>1. comps' = [comps EXCEPT ![f][d] = {}]
    BY <1>6 DEF RemoveExternal, Commit
  <2>2. \A e \in Entity, c \in Component : comps'[e][c] \in {comps[e][c], {}}
    BY <1>0, <2>1
  <2> QED BY <1>1, <2>2
<1>7. ASSUME NEW f, DespawnExternal(f) PROVE StampsPast'
  <2>1. \A e \in Entity, c \in Component : comps'[e][c] \in {comps[e][c], {}}
    BY <1>0, <1>7 DEF DespawnExternal, NoComps
  <2> QED BY <1>1, <2>1
<1>8. ASSUME NEW n, NEW w, StampCancelled(n, w), n = stepCount' PROVE StampsPast'
  <2>1. comps' = [e \in Entity |-> IF e \in alive
                                THEN [comps[e] EXCEPT ![Cancelled] = {<<n, w[1], 0>>}]
                                ELSE comps[e]]
    BY <1>8 DEF StampCancelled, Commit
  <2>2. \A e \in Entity, c \in Component :
           comps'[e][c] = comps[e][c] \/ comps'[e][c] = {<<n, w[1], 0>>}
    BY <1>0, <2>1
  <2>3. \A e \in Entity, c \in Component : \A t \in comps'[e][c] :
           t \in comps[e][c] \/ t = <<n, w[1], 0>>
    BY <2>2
  <2> QED BY <1>0, <1>1, <1>8, <2>3
<1>9. CASE CancelIdle \/ StampStep \/ LateStamp
  BY <1>8, <1>9 DEF CancelIdle, StampStep, LateStamp
<1>10. CASE BarrierCommit
  <2>1. comps' = NextComps /\ stepCount' = stepCount + 1
    BY <1>10 DEF BarrierCommit, Commit
  <2>2. ASSUME NEW e \in Entity, NEW c \in Component, NEW t \in NextComps[e][c]
        PROVE  t \in comps[e][c] \/ t[1] <= stepCount' \/ t[3] # 0
    <3>1. \/ t \in Staged(e, c, Positions)
          \/ \E s \in FailedOn(e) : t = <<stepCount + 1, s, 0>>
      BY <2>2 DEF NextComps, NoComps, WithRecords
    <3>2. ASSUME NEW k \in Positions, t = <<exec[k[1]].id, k[1][1], k[1][2]>> PROVE t[3] # 0
      BY <3>2, PositionType DEF Pair, Entity
    <3>3. CASE t \in Staged(e, c, Positions)
      BY <3>2, <3>3, StagedTokens DEF Landed
    <3>4. ASSUME NEW s, t = <<stepCount + 1, s, 0>> PROVE t[1] <= stepCount'
      BY <1>0, <2>1, <3>4
    <3> QED BY <3>1, <3>3, <3>4
  <2> QED BY <1>1, <2>1, <2>2
<1>11. CASE AllVetoed
  BY <1>1, <1>11 DEF AllVetoed
<1>12. CASE UNCHANGED stateVars
  BY <1>1, <1>12 DEF stateVars
<1> QED
  BY <1>2, <1>3, <1>4, <1>5, <1>6, <1>7, <1>9, <1>10, <1>11, <1>12, CommitCases

LEMMA StampsPastHolds == Spec => []StampsPast
<1>1. Init => StampsPast
  BY DEF Init, StampsPast, NoComps
<1>2. TypeOK /\ StampsPast /\ [Next]_vars => StampsPast'
  BY StampsPastStep
<1> QED BY <1>1, <1>2, TypeCorrect, PTL DEF Spec

\* After a barrier the error records of that step are exactly those of the pairs
\* that failed or timed out on an entity that still exists: no failure goes
\* unrecorded and no aborted pair is blamed (R31, R50, R52).
THEOREM FailuresAreRecorded == Spec => FailureRecorded
<1>1. ASSUME TypeOK, StampsPast, [Next]_vars, Committing, NEW p \in Pair, p[2] \in alive'
      PROVE  exec[p].st \in {"failed", "timedOut"}
               <=> <<stepCount', p[1], 0>> \in comps'[p[2]][SystemError]
  <2> DEFINE s == p[1]
             e == p[2]
             t == <<stepCount + 1, s, 0>>
  <2>1. SystemError \in Component /\ s \in System /\ p = <<s, e>>
    BY DEF Component, Builtin, Pair
  <2>2. /\ e \in Entity /\ comps'[e][SystemError] = WithRecords(e) \ Cleared(e)
        /\ stepCount' = stepCount + 1 /\ stepCount \in Nat
    BY <1>1, <2>1, CommittingIsBarrier, BarrierSurvivors DEF Committing, TypeOK
  <2>3. ASSUME exec[p].st \in {"failed", "timedOut"} PROVE t \in WithRecords(e) \ Cleared(e)
    <3>1. s \in FailedOn(e) /\ s \notin OkOn(e)
      BY <2>1, <2>3 DEF FailedOn, OkOn
    <3> QED BY <3>1 DEF WithRecords, Cleared
  <2>4. ASSUME t \in WithRecords(e) PROVE exec[p].st \in {"failed", "timedOut"}
    <3>1. t \notin comps[e][SystemError]
      <4>1. t[1] = stepCount + 1 /\ t[3] = 0
        OBVIOUS
      <4> QED BY <1>1, <2>1, <2>2, <4>1 DEF StampsPast
    <3>2. ASSUME NEW k \in Positions PROVE t # <<exec[k[1]].id, k[1][1], k[1][2]>>
      BY <1>1, PositionType DEF Pair, Entity
    <3>3. t \notin Staged(e, SystemError, Positions)
      BY <1>1, <2>1, <2>2, <3>1, <3>2, StagedTokens DEF Landed
    <3>4. s \in FailedOn(e)
      BY <2>4, <3>3 DEF WithRecords
    <3> QED BY <2>1, <3>4 DEF FailedOn
  <2> QED BY <2>2, <2>3, <2>4
<1>2. TypeOK /\ StampsPast /\ [Next]_vars
        => [Committing =>
              \A p \in Pair : p[2] \in alive' =>
                 (exec[p].st \in {"failed", "timedOut"}
                    <=> <<stepCount', p[1], 0>> \in comps'[p[2]][SystemError])]_vars
  BY <1>1
<1> QED BY <1>2, TypeCorrect, StampsPastHolds, PTL DEF Spec, FailureRecorded

(***************************************************************************)
(* Error records of other systems.  The engine alone writes SystemError:   *)
(* the program may remove it in a body, and nothing else.                  *)
(***************************************************************************)
Puts(kind) == kind \in {"add", "set", "spawn"}

EngineOwnsErrors ==
    /\ SystemError \notin ExternalWrites
    /\ \A item \in SpawnItems : SystemError \notin item[1]
    /\ \A s \in System : \A m \in Menu[s] : Puts(m.kind) => SystemError \notin m.comps

\* What is buffered comes from the menus.
BufferInv ==
    \A p \in Pair : \A i \in 1 .. Len(exec[p].ops) :
        Puts(exec[p].ops[i].kind) => SystemError \notin exec[p].ops[i].comps

\* A committed error record is that of a system whose latest execution failed.
ErrorInv ==
    \A e \in Entity : \A t \in comps[e][SystemError] :
        t[2] \in System /\ last[<<t[2], e>>].failed

\* Steps that buffer nothing.
LEMMA BufferCases ==
    ASSUME TypeOK, [Next]_vars
    PROVE  \/ \E p \in Pair : PushOp(p)
           \/ \A p \in Pair : exec'[p].ops = exec[p].ops \/ exec'[p].ops = <<>>
<1>1. ASSUME NEW p \in Pair, NEW o, Settle(p, o)
      PROVE  \A q \in Pair : exec'[q].ops = exec[q].ops \/ exec'[q].ops = <<>>
  BY <1>1 DEF Settle, TypeOK
<1>2. ASSUME NEW z \in zombies, ZombieSpawn(z) \/ ZombieSettle(z) PROVE exec' = exec
  BY <1>2 DEF ZombieSpawn, ZombieSettle, execVars
<1>3. ASSUME CancelMidRun \/ Run \/ Quiescent \/ LimitBreak
              \/ CadenceSave \/ FinalSave \/ LateSave \/ SaveFails \/ RunEnd \/ UNCHANGED vars
              \/ CancelIdle \/ StampStep \/ LateStamp \/ AllVetoed
      PROVE  exec' = exec
  BY <1>3 DEF CancelMidRun, Run, Quiescent, LimitBreak, CadenceSave,
              FinalSave, LateSave, SaveFails, RunEnd, CancelIdle, StampStep, LateStamp,
              AllVetoed, execVars, vars
<1>4. ASSUME NEW s, Use(s) \/ UseFails(s) PROVE exec' = exec
  BY <1>4 DEF Use, UseFails, execVars
<1>5. ASSUME NEW e, NEW c, NEW mode, WriteExternal(e, c, mode) PROVE exec' = exec
  BY <1>5 DEF WriteExternal, execVars
<1>6. ASSUME NEW e, NEW c, RemoveExternal(e, c) PROVE exec' = exec
  BY <1>6 DEF RemoveExternal, execVars
<1>7. ASSUME NEW e, DespawnExternal(e) PROVE exec' = exec
  BY <1>7 DEF DespawnExternal, execVars
<1>8. ASSUME NEW item, SpawnExternal(item) PROVE exec' = exec
  BY <1>8 DEF SpawnExternal, execVars
<1>9. ASSUME NEW item, NEW set, NEW systems, SpawnFails(item, set, systems) PROVE exec' = exec
  BY <1>9 DEF SpawnFails, execVars
<1>10. CASE StepStart
  BY <1>10 DEF StepStart, NoExec
<1>11. CASE BarrierCommit \/ BarrierReject
  <2>1. exec' = [p \in Pair |-> NoExec]
    BY <1>11 DEF BarrierCommit, BarrierReject
  <2> QED BY <2>1 DEF NoExec
<1> QED
  BY <1>1, <1>2, <1>3, <1>4, <1>5, <1>6, <1>7, <1>8, <1>9, <1>10, <1>11
     DEF Next, Application, Bodies, Zombies, Loop, Return, Throw, ThrowAbort, Timeout

LEMMA BufferStep ==
    ASSUME EngineOwnsErrors, TypeOK, BufferInv, [Next]_vars
    PROVE  BufferInv'
<1>1. ASSUME NEW p \in Pair, PushOp(p) PROVE BufferInv'
  <2>1. PICK m \in Menu[p[1]] :
          exec' = [exec EXCEPT ![p].ops = Append(@, Resolve(m, p[2]))]
    BY <1>1 DEF PushOp
  <2> DEFINE new == Resolve(m, p[2])
  <2>2. p[1] \in System /\ new.kind = m.kind /\ new.comps = m.comps
    BY DEF Resolve, Pair
  <2>3. Puts(new.kind) => SystemError \notin new.comps
    BY <2>2 DEF EngineOwnsErrors
  <2>4. /\ exec[p].ops \in Seq(Op)
        /\ \A q \in Pair \ {p} : exec'[q].ops = exec[q].ops
        /\ exec'[p].ops = Append(exec[p].ops, new)
    BY <2>1 DEF TypeOK
  <2> HIDE DEF new
  <2>5. ASSUME NEW i \in 1 .. Len(exec'[p].ops)
        PROVE  \/ i \in 1 .. Len(exec[p].ops) /\ exec'[p].ops[i] = exec[p].ops[i]
               \/ exec'[p].ops[i] = new
    BY <2>4
  <2> QED BY <2>3, <2>4, <2>5 DEF BufferInv
<1>2. ASSUME \A p \in Pair : exec'[p].ops = exec[p].ops \/ exec'[p].ops = <<>>
      PROVE  BufferInv'
  BY <1>2 DEF BufferInv
<1> QED BY <1>1, <1>2, BufferCases

\* Outside a barrier an entity's error records stay or go, and what pairs did
\* last stays.
LEMMA ErrorKept ==
    ASSUME ErrorInv,
           \A e \in Entity : comps'[e][SystemError] \subseteq comps[e][SystemError],
           \A p \in Pair : last'[p].failed = last[p].failed
    PROVE  ErrorInv'
BY DEF ErrorInv, Pair

LEMMA ErrorStep ==
    ASSUME EngineOwnsErrors, TypeOK, BufferInv, ErrorInv, [Next]_vars
    PROVE  ErrorInv'
<1>0. /\ comps \in [Entity -> [Component -> SUBSET Token]]
      /\ SystemError \in Component /\ SystemError # Cancelled
  BY DEF TypeOK, Component, Builtin, SystemError, Cancelled
<1>1. ASSUME ~BarrierCommit, ~AllVetoed PROVE \A p \in Pair : last'[p].failed = last[p].failed
  BY <1>1, LastCases
<1>2. ASSUME NEW s \in System, Use(s) \/ UseFails(s)
      PROVE  \A e \in Entity : comps'[e][SystemError] \subseteq comps[e][SystemError]
  BY <1>2 DEF Use, UseFails, Commit
<1>3. ASSUME NEW item \in SpawnItems, SpawnExternal(item)
      PROVE  \A e \in Entity : comps'[e][SystemError] \subseteq comps[e][SystemError]
  <2>1. SystemError \notin item[1]
    BY DEF EngineOwnsErrors
  <2>2. comps' = [comps EXCEPT ![nextId] = [c \in Component |->
                     IF c \in item[1] THEN {<<stepCount, "external", 0>>} ELSE {}]]
    BY <1>3 DEF SpawnExternal, Commit
  <2> QED BY <1>0, <2>1, <2>2
<1>4. ASSUME NEW item \in SpawnItems, NEW set \in SUBSET item[1], NEW systems,
             SpawnFails(item, set, systems)
      PROVE  \A e \in Entity : comps'[e][SystemError] \subseteq comps[e][SystemError]
  <2>1. SystemError \notin set
    BY DEF EngineOwnsErrors
  <2>2. comps' = [comps EXCEPT ![nextId] = [c \in Component |->
                     IF c \in set THEN {<<stepCount, "external", 0>>} ELSE {}]]
    BY <1>4 DEF SpawnFails
  <2> QED BY <1>0, <2>1, <2>2
<1>5. ASSUME NEW f, NEW d \in ExternalWrites, NEW mode, WriteExternal(f, d, mode)
      PROVE  \A e \in Entity : comps'[e][SystemError] \subseteq comps[e][SystemError]
  <2>1. d # SystemError
    BY DEF EngineOwnsErrors
  <2> QED BY <1>0, <1>5, <2>1 DEF WriteExternal, Commit
<1>6. ASSUME NEW f, NEW d, RemoveExternal(f, d)
      PROVE  \A e \in Entity : comps'[e][SystemError] \subseteq comps[e][SystemError]
  BY <1>0, <1>6 DEF RemoveExternal, Commit
<1>7. ASSUME NEW f, DespawnExternal(f)
      PROVE  \A e \in Entity : comps'[e][SystemError] \subseteq comps[e][SystemError]
  BY <1>0, <1>7 DEF DespawnExternal, NoComps
<1>8. ASSUME NEW n, NEW w, StampCancelled(n, w)
      PROVE  \A e \in Entity : comps'[e][SystemError] \subseteq comps[e][SystemError]
  BY <1>0, <1>8 DEF StampCancelled, Commit
<1>9. ASSUME CancelIdle \/ StampStep \/ LateStamp
      PROVE  \A e \in Entity : comps'[e][SystemError] \subseteq comps[e][SystemError]
  BY <1>8, <1>9 DEF CancelIdle, StampStep, LateStamp
<1>10. CASE AllVetoed
  <2>1. \A p \in Pair : last'[p].failed = last[p].failed
    BY <1>10 DEF AllVetoed, Saw
  <2>2. comps' = comps
    BY <1>10 DEF AllVetoed
  <2> QED BY <2>1, <2>2, ErrorKept
<1>11. CASE BarrierCommit
  <2> SUFFICES ASSUME NEW e \in Entity, NEW t \in NextComps[e][SystemError]
               PROVE  t[2] \in System /\ last'[<<t[2], e>>].failed
    BY <1>11 DEF ErrorInv, BarrierCommit, Commit
  <2>2. t \in WithRecords(e) /\ (t[2] \in System => t[2] \notin OkOn(e))
    BY <1>0 DEF NextComps, NoComps, Cleared
  <2>3. \A p \in Pair :
           last'[p] = IF exec[p].st \in {"ok", "failed", "timedOut"} THEN Saw(p, exec[p].st # "ok")
                      ELSE IF exec[p].st = "vetoed" THEN Saw(p, last[p].failed)
                      ELSE last[p]
    BY <1>11 DEF BarrierCommit
  <2>4. CASE \E s \in FailedOn(e) : t = <<stepCount + 1, s, 0>>
    <3>1. PICK s \in FailedOn(e) : t = <<stepCount + 1, s, 0>>
      BY <2>4
    <3>2. t[2] = s /\ s \in System /\ exec[<<s, e>>].st \in {"failed", "timedOut"}
      BY <3>1 DEF FailedOn
    <3>3. <<s, e>> \in Pair
      BY <3>2 DEF Pair
    <3>4. last'[<<s, e>>] = Saw(<<s, e>>, TRUE)
      BY <2>3, <3>2, <3>3
    <3> QED BY <3>2, <3>4 DEF Saw
  <2>5. ASSUME NEW k \in Landed, Touches(k, e, SystemError), OpAt(k).kind # "remove"
        PROVE  FALSE
    <3>1. k \in Positions
      BY DEF Landed
    <3>2. k[1] \in Pair /\ k[2] \in 1 .. Len(exec[k[1]].ops)
      <4>1. k[1] \in Pair /\ k[2] \in 1 .. MaxOps /\ k[2] <= Len(exec[k[1]].ops)
        BY <3>1 DEF Positions, OkExecs
      <4>2. Len(exec[k[1]].ops) \in Nat
        BY <4>1 DEF TypeOK
      <4> QED BY <4>1, <4>2, WorldAssumption
    <3> QED BY <2>5, <3>2 DEF BufferInv, OpAt, Touches, Puts
  <2>6. CASE t \in comps[e][SystemError]
    <3>1. t[2] \in System /\ last[<<t[2], e>>].failed /\ <<t[2], e>> \in Pair
      BY <2>6 DEF ErrorInv, Pair
    <3>2. exec[<<t[2], e>>].st # "ok"
      BY <2>2, <3>1 DEF OkOn
    <3> DEFINE p == <<t[2], e>>
    <3>3. \/ last'[p] = Saw(p, TRUE) \/ last'[p] = Saw(p, last[p].failed) \/ last'[p] = last[p]
      BY <2>3, <3>1, <3>2
    <3>4. last'[p].failed
      BY <3>1, <3>3 DEF Saw
    <3> QED BY <3>1, <3>4
  <2>7. t \in Staged(e, SystemError, Positions) \/ \E s \in FailedOn(e) : t = <<stepCount + 1, s, 0>>
    BY <2>2 DEF WithRecords
  <2>8. CASE t \in Staged(e, SystemError, Positions)
    <3>1. t \in comps[e][SystemError] \/ \E k \in Landed :
             Touches(k, e, SystemError) /\ OpAt(k).kind # "remove"
      BY <1>0, <2>8, StagedTokens
    <3> QED BY <2>5, <2>6, <3>1
  <2> QED BY <2>4, <2>7, <2>8
<1>12. CASE UNCHANGED stateVars /\ ~BarrierCommit /\ ~AllVetoed
  BY <1>1, <1>12, ErrorKept DEF stateVars
<1> QED
  BY <1>1, <1>2, <1>3, <1>4, <1>5, <1>6, <1>7, <1>9, <1>10, <1>11, <1>12, CommitCases, ErrorKept

\* As long as the program does not write error records itself, none outlives its
\* cause: a system that succeeds on an entity, or never failed there, has none (R32).
THEOREM ErrorsAreCurrent ==
    ASSUME EngineOwnsErrors
    PROVE  Spec => []NoStaleError
<1>1. Init => BufferInv /\ ErrorInv
  BY DEF Init, BufferInv, ErrorInv, NoComps, NoExec, Component, Builtin
<1>2. TypeOK /\ BufferInv /\ ErrorInv /\ [Next]_vars => (BufferInv /\ ErrorInv)'
  BY BufferStep, ErrorStep
<1>3. ErrorInv => NoStaleError
  BY DEF ErrorInv, NoStaleError
<1> QED BY <1>1, <1>2, <1>3, TypeCorrect, PTL DEF Spec
=============================================================================
