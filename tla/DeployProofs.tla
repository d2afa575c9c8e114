---------------------------- MODULE DeployProofs ----------------------------
(***************************************************************************)
(* Proofs about Deploy, for every set of builds, modules, recipes and      *)
(* migrations.                                                             *)
(***************************************************************************)
EXTENDS Deploy, TLAPS, FiniteSetTheorems, WellFoundedInduction

(***************************************************************************)
(* Partial functions: entities, and the components of one.                 *)
(***************************************************************************)
LEMMA PartialIntro ==
    ASSUME NEW S, NEW T, NEW f, f = [x \in DOMAIN f |-> f[x]],
           DOMAIN f \subseteq S, \A x \in DOMAIN f : f[x] \in T
    PROVE  f \in Partial(S, T)
BY DEF Partial

LEMMA PartialElim ==
    ASSUME NEW S, NEW T, NEW f \in Partial(S, T)
    PROVE  /\ f = [x \in DOMAIN f |-> f[x]]
           /\ DOMAIN f \subseteq S
           /\ \A x \in DOMAIN f : f[x] \in T
BY DEF Partial

LEMMA WithPartial ==
    ASSUME NEW S, NEW T, NEW f \in Partial(S, T), NEW x \in S, NEW v \in T
    PROVE  With(f, x, v) \in Partial(S, T)
<1>1. \A y \in DOMAIN With(f, x, v) : With(f, x, v)[y] \in T
  BY PartialElim DEF With
<1>2. DOMAIN With(f, x, v) \subseteq S
  BY PartialElim DEF With
<1>3. With(f, x, v) = [y \in DOMAIN With(f, x, v) |-> With(f, x, v)[y]]
  BY DEF With
<1> QED BY <1>1, <1>2, <1>3, PartialIntro

LEMMA RestrictPartial ==
    ASSUME NEW S, NEW T, NEW f \in Partial(S, T), NEW D \in SUBSET DOMAIN f
    PROVE  Restrict(f, D) \in Partial(S, T)
<1>1. \A y \in DOMAIN Restrict(f, D) : Restrict(f, D)[y] \in T
  BY PartialElim DEF Restrict
<1>2. DOMAIN Restrict(f, D) \subseteq S
  BY PartialElim DEF Restrict
<1>3. Restrict(f, D) = [y \in DOMAIN Restrict(f, D) |-> Restrict(f, D)[y]]
  BY DEF Restrict
<1> QED BY <1>1, <1>2, <1>3, PartialIntro

LEMMA WithoutPartial ==
    ASSUME NEW S, NEW T, NEW f \in Partial(S, T), NEW gone
    PROVE  Without(f, gone) \in Partial(S, T)
BY RestrictPartial DEF Without

LEMMA NothingPartial ==
    ASSUME NEW S, NEW T
    PROVE  Nothing \in Partial(S, T)
<1>1. DOMAIN Nothing = {} /\ Nothing = [x \in DOMAIN Nothing |-> Nothing[x]]
  BY DEF Nothing
<1> QED BY <1>1, PartialIntro

LEMMA OverPartial ==
    ASSUME NEW S, NEW T, NEW f \in Partial(S, T), NEW g \in Partial(S, T)
    PROVE  Over(f, g) \in Partial(S, T)
<1>1. \A y \in DOMAIN Over(f, g) : Over(f, g)[y] \in T
  BY PartialElim DEF Over
<1>2. DOMAIN Over(f, g) \subseteq S
  BY PartialElim DEF Over
<1>3. Over(f, g) = [y \in DOMAIN Over(f, g) |-> Over(f, g)[y]]
  BY DEF Over
<1> QED BY <1>1, <1>2, <1>3, PartialIntro

\* Splitting a value into what is known and what is not loses nothing.
LEMMA RoundTrip ==
    ASSUME NEW f, f = [x \in DOMAIN f |-> f[x]], NEW K
    PROVE  Over(Restrict(f, DOMAIN f \cap K),
                IF DOMAIN f \ K # {} THEN Restrict(f, DOMAIN f \ K) ELSE Nothing) = f
<1>1. CASE DOMAIN f \ K # {}
  BY <1>1 DEF Over, Restrict
<1>2. CASE DOMAIN f \ K = {}
  BY <1>2 DEF Over, Restrict, Nothing
<1> QED BY <1>1, <1>2

\* Retiring the opaque value under a live write, or under none.
LEMMA WriteOver ==
    ASSUME NEW f, NEW g, NEW c, NEW v
    PROVE  /\ Over(With(f, c, v), Without(g, {c})) = With(Over(f, g), c, v)
           /\ Over(Without(f, {c}), Without(g, {c})) = Without(Over(f, g), {c})
           /\ Over(With(f, c, v), Nothing) = With(Over(f, Nothing), c, v)
BY DEF Over, With, Without, Restrict, Nothing

(***************************************************************************)
(* Snapshots.                                                              *)
(***************************************************************************)
Components == Partial(Component, Value)
Entities == Partial(Id, Components)

Snapshots ==
    {s \in [recipe : 0 .. MaxRecipe, nextId : 1 .. MaxId + 1,
            ents : Entities, pairs : SUBSET (System \X Id)] :
        \A e \in DOMAIN s.ents : e < s.nextId}

(***************************************************************************)
(* The inductive invariant: everything stored and in memory is well typed, *)
(* no entity has an id that is still to be given, and the snapshot a       *)
(* loaded build would take is the world as all changes left it, no older   *)
(* than what is stored.                                                    *)
(***************************************************************************)
DeployInv ==
    /\ TypeOK
    /\ stored \in Snapshots
    /\ preserved \in Entities
    /\ \A e \in DOMAIN entities : e < nextId
    /\ loaded => Snapshot = truth /\ stored.recipe <= Recipe[build]

LEMMA RenamedType ==
    ASSUME NEW f \in Components, NEW from \in 1 .. MaxRecipe, NEW to \in 1 .. MaxRecipe
    PROVE  Renamed(f, from, to) \in Components
<1>1. CalledAt[from] \in Component /\ CalledAt[to] \in Component
  BY DeployAssumptions
<1>2. CASE CalledAt[from] \in DOMAIN f /\ CalledAt[from] # CalledAt[to]
  <2>1. f[CalledAt[from]] \in Value
    BY <1>2, PartialElim DEF Components
  <2>2. Without(f, {CalledAt[from]}) \in Components
    BY WithoutPartial DEF Components
  <2> QED BY <1>1, <1>2, <2>1, <2>2, WithPartial DEF Renamed, Components
<1> QED BY <1>2 DEF Renamed

LEMMA HopType ==
    ASSUME NEW s \in Snapshots, NEW from \in 1 .. MaxRecipe, NEW to \in 1 .. MaxRecipe
    PROVE  Hop(s, from, to) \in Snapshots
<1> DEFINE ents == [e \in DOMAIN s.ents |-> Renamed(s.ents[e], from, to)]
           pairs == {<<IF p[1] = RunAt[from] THEN RunAt[to] ELSE p[1], p[2]>> : p \in s.pairs}
<1>0. /\ s \in [recipe : 0 .. MaxRecipe, nextId : 1 .. MaxId + 1,
                ents : Entities, pairs : SUBSET (System \X Id)]
      /\ \A e \in DOMAIN s.ents : e < s.nextId
  BY DEF Snapshots
<1>1. MaxRecipe \in Nat /\ 0 \in 0 .. MaxRecipe /\ to \in 0 .. MaxRecipe
  BY DeployAssumptions
<1>2. ents \in Entities
  <2>1. \A e \in DOMAIN ents : ents[e] \in Components
    BY <1>0, PartialElim, RenamedType DEF Entities
  <2>2. DOMAIN ents \subseteq Id
    BY <1>0, PartialElim DEF Entities
  <2>3. ents = [e \in DOMAIN ents |-> ents[e]]
    OBVIOUS
  <2> HIDE DEF ents
  <2> QED BY <2>1, <2>2, <2>3, PartialIntro DEF Entities
<1>3. pairs \in SUBSET (System \X Id)
  <2>1. RunAt[to] \in System
    BY DeployAssumptions DEF System
  <2> QED BY <1>0, <2>1
<1>4. Hop(s, from, to) \in {[s EXCEPT !.recipe = 0],
                            [s EXCEPT !.recipe = to, !.ents = ents, !.pairs = pairs]}
  BY DEF Hop, Thrown
<1>5. DOMAIN ents = DOMAIN s.ents
  OBVIOUS
<1> HIDE DEF ents, pairs
<1>6. [s EXCEPT !.recipe = 0] \in Snapshots
  BY <1>0, <1>1 DEF Snapshots
<1>7. [s EXCEPT !.recipe = to, !.ents = ents, !.pairs = pairs] \in Snapshots
  BY <1>0, <1>1, <1>2, <1>3, <1>5 DEF Snapshots
<1> QED BY <1>4, <1>6, <1>7

LEMMA HoppedType ==
    ASSUME TypeOK, NEW s \in Snapshots
    PROVE  Hopped(s) \in Snapshots
<1>1. ASSUME s.recipe \in DOMAIN migrations
      PROVE  s.recipe \in 1 .. MaxRecipe /\ migrations[s.recipe] \in 1 .. MaxRecipe
  <2>1. Recipe[build] \in 1 .. MaxRecipe /\ MaxRecipe \in Nat
    BY DeployAssumptions DEF TypeOK
  <2> QED BY <1>1, <2>1 DEF TypeOK
<1> QED BY <1>1, HopType DEF Hopped

(***************************************************************************)
(* Migrating hop after hop: the recursive function is there, and it stays  *)
(* among the snapshots.                                                    *)
(***************************************************************************)
\* A set of naturals that has a member has a least one.
LEMMA Least ==
    ASSUME NEW B \in SUBSET Nat, B # {}
    PROVE  \E m \in B : m = 0 \/ (m - 1 \in Nat /\ m - 1 \notin B)
<1>1. PICK m \in B : \A y \in B : ~ (<<y, m>> \in OpToRel(<, Nat))
  BY WFMin, NatLessThanWellFounded
<1>2. \A y \in B : ~ (y < m)
  BY <1>1 DEF OpToRel
<1> QED BY <1>2

\* Iterating a function on a set from one of its members.
Iterates(S, F, x, n) ==
    \E f \in [0 .. n -> S] : f[0] = x /\ \A h \in 1 .. n : f[h] = F[f[h - 1]]

LEMMA Iteration ==
    ASSUME NEW S, NEW F \in [S -> S], NEW x \in S, NEW n \in Nat
    PROVE  Iterates(S, F, x, n)
<1> USE DEF Iterates
<1> DEFINE Reaches(m) == \E f \in [0 .. m -> S] : f[0] = x /\ \A h \in 1 .. m : f[h] = F[f[h - 1]]
           Bad == {m \in Nat : ~ Reaches(m)}
<1> SUFFICES ASSUME Bad # {} PROVE FALSE
  OBVIOUS
<1>1. PICK m \in Bad : m = 0 \/ (m - 1 \in Nat /\ m - 1 \notin Bad)
  <2>1. Bad \in SUBSET Nat
    OBVIOUS
  <2> HIDE DEF Bad
  <2> QED BY <2>1, Least
<1>2. CASE m = 0
  <2> DEFINE f == [i \in 0 .. 0 |-> x]
  <2>1. f \in [0 .. 0 -> S] /\ f[0] = x /\ \A h \in 1 .. 0 : f[h] = F[f[h - 1]]
    OBVIOUS
  <2>2. Reaches(0)
    BY <2>1
  <2> QED BY <1>2, <2>2
<1>3. CASE m - 1 \in Nat /\ m - 1 \notin Bad
  <2>1. m \in Nat
    OBVIOUS
  <2>2. PICK f \in [0 .. m - 1 -> S] : f[0] = x /\ \A h \in 1 .. m - 1 : f[h] = F[f[h - 1]]
    BY <1>3
  <2> DEFINE g == [i \in 0 .. m |-> IF i = m THEN F[f[m - 1]] ELSE f[i]]
  <2>3. F[f[m - 1]] \in S
    BY <1>3, <2>1
  <2>4. g \in [0 .. m -> S] /\ g[0] = x
    BY <1>3, <2>1, <2>2, <2>3
  <2>5. ASSUME NEW h \in 1 .. m PROVE g[h] = F[g[h - 1]]
    <3>1. CASE h = m
      BY <1>3, <2>1, <3>1
    <3>2. CASE h # m
      BY <1>3, <2>1, <2>2, <3>2
    <3> QED BY <3>1, <3>2
  <2>6. Reaches(m)
    BY <2>4, <2>5
  <2> QED BY <2>6
<1> QED BY <1>1, <1>2, <1>3

LEMMA MigrateChainType ==
    ASSUME TypeOK, NEW snapshot \in Snapshots
    PROVE  MigrateChain(snapshot) \in Snapshots
<1> DEFINE n == Cardinality(DOMAIN migrations)
           Body(f) == [hops \in 0 .. n |-> IF hops = 0 THEN snapshot ELSE Hopped(f[hops - 1])]
           after == CHOOSE f : f = Body(f)
<1>1. n \in Nat
  <2>1. IsFiniteSet(1 .. MaxRecipe)
    BY DeployAssumptions, FS_Interval
  <2>2. IsFiniteSet(DOMAIN migrations)
    BY <2>1, FS_Subset DEF TypeOK
  <2> QED BY <2>2, FS_CardinalityType
<1>2. MigrateChain(snapshot) = after[n]
  BY DEF MigrateChain
<1>3. \E f : f = Body(f)
  <2> DEFINE F == [s \in Snapshots |-> Hopped(s)]
  <2>1. F \in [Snapshots -> Snapshots]
    BY HoppedType
  <2> HIDE DEF F
  <2>2. PICK f \in [0 .. n -> Snapshots] : f[0] = snapshot /\ \A h \in 1 .. n : f[h] = F[f[h - 1]]
    <3>1. Iterates(Snapshots, F, snapshot, n)
      BY <1>1, <2>1, Iteration
    <3> QED BY <3>1 DEF Iterates
  <2>3. ASSUME NEW h \in 0 .. n
        PROVE  f[h] = IF h = 0 THEN snapshot ELSE Hopped(f[h - 1])
    <3>1. CASE h = 0
      BY <2>2, <3>1
    <3>2. CASE h # 0
      <4>1. h \in 1 .. n /\ h - 1 \in 0 .. n
        BY <1>1, <3>2
      <4>2. f[h - 1] \in Snapshots
        BY <4>1
      <4> QED BY <2>2, <3>2, <4>1, <4>2 DEF F
    <3> QED BY <3>1, <3>2
  <2>4. f = [h \in 0 .. n |-> f[h]]
    OBVIOUS
  <2>5. f = Body(f)
    BY <2>3, <2>4
  <2> QED BY <2>5
<1>4. after = Body(after)
  BY <1>3
<1> HIDE DEF after, n
<1>5. /\ after[0] = snapshot
      /\ \A h \in 1 .. n : after[h] = Hopped(after[h - 1])
  <2>1. \A h \in 0 .. n : Body(after)[h] = IF h = 0 THEN snapshot ELSE Hopped(after[h - 1])
    OBVIOUS
  <2>2. \A h \in 0 .. n : after[h] = IF h = 0 THEN snapshot ELSE Hopped(after[h - 1])
    BY <1>4, <2>1
  <2> QED BY <1>1, <2>2
<1> DEFINE Bad == {h \in 0 .. n : after[h] \notin Snapshots}
<1>6. Bad = {}
  <2> SUFFICES ASSUME Bad # {} PROVE FALSE
    OBVIOUS
  <2>1. Bad \in SUBSET Nat
    BY <1>1
  <2> HIDE DEF Bad
  <2>2. PICK h \in Bad : h = 0 \/ (h - 1 \in Nat /\ h - 1 \notin Bad)
    BY <2>1, Least
  <2> USE DEF Bad
  <2>3. CASE h = 0
    BY <1>5, <2>3
  <2>4. CASE h - 1 \in Nat /\ h - 1 \notin Bad
    <3>1. h \in 1 .. n /\ h - 1 \in 0 .. n
      BY <1>1, <2>4
    <3>2. after[h - 1] \in Snapshots
      BY <2>4, <3>1
    <3> QED BY <1>5, <3>1, <3>2, HoppedType
  <2> QED BY <2>2, <2>3, <2>4
<1> QED BY <1>1, <1>2, <1>6

(***************************************************************************)
(* The world in memory.                                                    *)
(***************************************************************************)
\* The opaque data an entity carries, and all a snapshot shows of it.
Kept(e) == IF e \in DOMAIN preserved THEN preserved[e] ELSE Nothing
Shown(e) == Over(entities[e], Kept(e))

LEMMA SnapshotIs ==
    Snapshot = [recipe |-> Recipe[build], nextId |-> nextId,
                ents |-> [e \in DOMAIN entities |-> Shown(e)], pairs |-> dirt]
BY DEF Snapshot, Shown, Kept

LEMMA KeptType ==
    ASSUME preserved \in Entities, NEW e
    PROVE  Kept(e) \in Components
BY PartialElim, NothingPartial DEF Kept, Entities, Components

\* What a loaded build saves is a snapshot.
LEMMA SnapshotType ==
    ASSUME DeployInv
    PROVE  Snapshot \in Snapshots
<1>1. /\ entities \in Entities /\ preserved \in Entities
      /\ nextId \in 1 .. MaxId + 1 /\ dirt \in SUBSET (System \X Id)
      /\ Recipe[build] \in 0 .. MaxRecipe
      /\ \A e \in DOMAIN entities : e < nextId
  BY DeployAssumptions DEF DeployInv, TypeOK, Entities, Components
<1> DEFINE ents == [e \in DOMAIN entities |-> Shown(e)]
<1>2. ents \in Entities
  <2>1. \A e \in DOMAIN ents : ents[e] \in Components
    BY <1>1, PartialElim, KeptType, OverPartial DEF Shown, Components, Entities
  <2>2. DOMAIN ents \subseteq Id
    BY <1>1, PartialElim DEF Entities
  <2>3. ents = [e \in DOMAIN ents |-> ents[e]]
    OBVIOUS
  <2> HIDE DEF ents
  <2> QED BY <2>1, <2>2, <2>3, PartialIntro DEF Entities
<1>3. DOMAIN ents = DOMAIN entities
  OBVIOUS
<1> HIDE DEF ents
<1>4. [recipe |-> Recipe[build], nextId |-> nextId, ents |-> ents, pairs |-> dirt] \in Snapshots
  BY <1>1, <1>2, <1>3 DEF Snapshots
<1> QED BY <1>4, SnapshotIs DEF ents

\* Retiring an opaque value retires that one only, and leaves no empty entry.
LEMMA ForgetIs ==
    ASSUME preserved \in Entities, \A e \in DOMAIN preserved : preserved[e] # Nothing,
           NEW e, NEW c, preserved' = ForgetPreserved(e, c)
    PROVE  /\ preserved' \in Entities
           /\ DOMAIN preserved' \subseteq DOMAIN preserved
           /\ \A x \in DOMAIN preserved' : preserved'[x] # Nothing
           /\ \A x : x # e => Kept(x)' = Kept(x)
           /\ Kept(e)' = Without(Kept(e), {c})
<1> DEFINE kept == Without(Kept(e), {c})
<1>0. /\ preserved = [x \in DOMAIN preserved |-> preserved[x]]
      /\ \A x \in DOMAIN preserved : preserved[x] \in Components
  BY PartialElim DEF Entities
<1>1. kept \in Components
  BY KeptType, WithoutPartial DEF Components
<1>2. Without(Nothing, {c}) = Nothing
  BY DEF Without, Restrict, Nothing
<1>3. ForgetPreserved(e, c) = IF kept = Nothing THEN Without(preserved, {e})
                              ELSE [preserved EXCEPT ![e] = kept]
  BY <1>2 DEF ForgetPreserved, Kept
<1>4. CASE kept = Nothing
  <2>1. preserved' = Without(preserved, {e})
    BY <1>3, <1>4
  <2>2. preserved' \in Entities
    BY <2>1, WithoutPartial DEF Entities
  <2>3. DOMAIN preserved' = DOMAIN preserved \ {e}
        /\ \A x \in DOMAIN preserved' : preserved'[x] = preserved[x]
    BY <2>1 DEF Without, Restrict
  <2> QED BY <1>4, <2>2, <2>3 DEF Kept
<1>5. CASE kept # Nothing
  <2>1. preserved' = [preserved EXCEPT ![e] = kept]
    BY <1>3, <1>5
  <2>2. e \in DOMAIN preserved
    BY <1>2, <1>5 DEF Kept
  <2> HIDE DEF kept
  <2>3. /\ DOMAIN preserved' = DOMAIN preserved
        /\ preserved'[e] = kept
        /\ \A x \in DOMAIN preserved : x # e => preserved'[x] = preserved[x]
        /\ preserved' = [x \in DOMAIN preserved' |-> preserved'[x]]
    BY <1>0, <2>1, <2>2
  <2>4. preserved' \in Entities
    <3>1. \A x \in DOMAIN preserved' : preserved'[x] \in Components
      BY <1>0, <1>1, <2>3
    <3>2. DOMAIN preserved' \subseteq Id
      BY <2>3, PartialElim DEF Entities
    <3> QED BY <2>3, <3>1, <3>2, PartialIntro DEF Entities
  <2>5. Kept(e)' = kept /\ \A x : x # e => Kept(x)' = Kept(x)
    BY <2>2, <2>3 DEF Kept
  <2> QED BY <1>5, <2>2, <2>3, <2>4, <2>5 DEF kept
<1> QED BY <1>4, <1>5

(***************************************************************************)
(* What each operation does to the invariant.                              *)
(***************************************************************************)
\* The parts of a snapshot, and of the history when it is one.
LEMMA TruthIs ==
    ASSUME DeployInv, loaded
    PROVE  truth = [recipe |-> Recipe[build], nextId |-> nextId,
                    ents |-> [e \in DOMAIN entities |-> Shown(e)], pairs |-> dirt]
BY SnapshotIs DEF DeployInv

LEMMA InitInv == Init => DeployInv
<1> SUFFICES ASSUME Init PROVE DeployInv
  OBVIOUS
<1>1. Nothing \in Entities /\ DOMAIN Nothing = {}
  BY NothingPartial DEF Entities, Nothing
<1>2. MaxRecipe \in Nat /\ MaxId \in Nat /\ Recipe[build] \in 1 .. MaxRecipe
  BY DeployAssumptions DEF Init
<1>3. stored \in Snapshots
  BY <1>1, <1>2 DEF Init, Snapshots
<1>4. known \subseteq Component
  BY DeployAssumptions DEF Init
<1>5. TypeOK
  BY <1>1, <1>2, <1>4 DEF Init, TypeOK, Entities, Components
<1>6. [e \in DOMAIN entities |-> Shown(e)] = Nothing
  BY <1>1 DEF Init, Nothing
<1>7. Snapshot = truth
  BY <1>6, SnapshotIs DEF Init
<1> QED BY <1>1, <1>2, <1>3, <1>5, <1>7 DEF Init, DeployInv

LEMMA LoadInv ==
    ASSUME DeployInv, NEW strict \in BOOLEAN, Load(strict)
    PROVE  DeployInv'
<1> DEFINE m == MigrateChain(stored)
           own(e) == DOMAIN m.ents[e]
<1>1. m \in Snapshots
  BY MigrateChainType DEF DeployInv
<1> HIDE DEF m
<1>2. /\ m \in [recipe : 0 .. MaxRecipe, nextId : 1 .. MaxId + 1,
                ents : Entities, pairs : SUBSET (System \X Id)]
      /\ \A e \in DOMAIN m.ents : e < m.nextId
  BY <1>1 DEF Snapshots
<1>3. m.recipe = Recipe[build] /\ ~ (stored.recipe > Recipe[build])
  BY DEF Load, LoadError, m
<1>4. /\ entities' = Resolved(m) /\ preserved' = Opaque(m)
      /\ dirt' = Schedulable(m) /\ nextId' = m.nextId
      /\ loaded' = TRUE /\ truth' = [m EXCEPT !.pairs = Schedulable(m)]
      /\ UNCHANGED <<stored, build, known, migrations>>
  BY DEF Load, m
<1>5. /\ m.ents = [e \in DOMAIN m.ents |-> m.ents[e]]
      /\ DOMAIN m.ents \subseteq Id
      /\ \A e \in DOMAIN m.ents : m.ents[e] \in Components
  BY <1>2, PartialElim DEF Entities
<1>6. entities' = [e \in DOMAIN m.ents |-> Restrict(m.ents[e], own(e) \cap known)]
  BY <1>4 DEF Resolved
<1>7. preserved' = [e \in {e \in DOMAIN m.ents : Missing(own(e)) # {}} |->
                       Restrict(m.ents[e], Missing(own(e)))]
  BY <1>4 DEF Opaque
<1>8. \A e \in DOMAIN m.ents :
         /\ Restrict(m.ents[e], own(e) \cap known) \in Components
         /\ Restrict(m.ents[e], Missing(own(e))) \in Components
         /\ DOMAIN Restrict(m.ents[e], own(e) \cap known) = own(e) \cap known
         /\ DOMAIN Restrict(m.ents[e], Missing(own(e))) = own(e) \ known
  BY <1>5, RestrictPartial DEF Components, Missing, Restrict
<1>9. entities' \in Entities /\ preserved' \in Entities
  <2>1. /\ DOMAIN entities' \subseteq Id
        /\ \A e \in DOMAIN entities' : entities'[e] \in Components
        /\ entities' = [e \in DOMAIN entities' |-> entities'[e]]
    BY <1>5, <1>6, <1>8
  <2>2. /\ DOMAIN preserved' \subseteq Id
        /\ \A e \in DOMAIN preserved' : preserved'[e] \in Components
        /\ preserved' = [e \in DOMAIN preserved' |-> preserved'[e]]
    BY <1>5, <1>7, <1>8
  <2> QED BY <2>1, <2>2, PartialIntro DEF Entities
<1>10. /\ DOMAIN preserved' \subseteq DOMAIN entities'
       /\ \A e \in DOMAIN preserved' :
            preserved'[e] # Nothing /\ DOMAIN preserved'[e] \cap DOMAIN entities'[e] = {}
  BY <1>6, <1>7, <1>8 DEF Missing, Nothing
<1>11. dirt' \in SUBSET (System \X Id) /\ nextId' \in 1 .. MaxId + 1
  BY <1>2, <1>4 DEF Schedulable
<1>12. TypeOK'
  BY <1>4, <1>9, <1>10, <1>11 DEF DeployInv, TypeOK, Entities, Components
<1>13. \A e \in DOMAIN entities' : e < nextId'
  BY <1>2, <1>4, <1>6
<1>14. [e \in DOMAIN entities' |-> Shown(e)'] = m.ents
  <2>1. ASSUME NEW e \in DOMAIN m.ents PROVE Shown(e)' = m.ents[e]
    <3>1. m.ents[e] = [x \in own(e) |-> m.ents[e][x]]
      BY <1>5, PartialElim DEF Components
    <3>2. entities'[e] = Restrict(m.ents[e], own(e) \cap known)
      BY <1>6
    <3>3. Kept(e)' = IF own(e) \ known # {} THEN Restrict(m.ents[e], own(e) \ known) ELSE Nothing
      BY <1>7 DEF Kept, Missing
    <3> QED BY <3>1, <3>2, <3>3, RoundTrip DEF Shown
  <2>2. DOMAIN entities' = DOMAIN m.ents
    BY <1>6
  <2> QED BY <1>5, <2>1, <2>2
<1>15. (Snapshot = truth)'
  <2>1. Snapshot' = [recipe |-> Recipe[build]', nextId |-> nextId',
                     ents |-> [e \in DOMAIN entities' |-> Shown(e)'], pairs |-> dirt']
    BY DEF Snapshot, Shown, Kept
  <2>2. Snapshot' = [recipe |-> m.recipe, nextId |-> m.nextId, ents |-> m.ents,
                     pairs |-> Schedulable(m)]
    BY <1>3, <1>4, <1>14, <2>1
  <2> QED BY <1>2, <1>4, <2>2
<1>16. stored' = stored /\ stored'.recipe <= Recipe[build]'
  <2>1. stored.recipe \in 0 .. MaxRecipe /\ Recipe[build] \in 1 .. MaxRecipe /\ MaxRecipe \in Nat
    BY DeployAssumptions DEF DeployInv, Snapshots, TypeOK
  <2> QED BY <1>3, <1>4, <2>1
<1> QED BY <1>9, <1>12, <1>13, <1>15, <1>16 DEF DeployInv

LEMMA DeployedInv ==
    ASSUME DeployInv, NEW b \in Build, Deploy(b)
    PROVE  DeployInv'
<1>1. Nothing \in Entities /\ DOMAIN Nothing = {}
  BY NothingPartial DEF Entities, Nothing
<1>2. MaxRecipe \in Nat /\ MaxId \in Nat
  BY DeployAssumptions
<1>3. known' \subseteq Component
  BY DeployAssumptions DEF Deploy
<1>4. /\ build' \in Build /\ loaded' \in BOOLEAN /\ dirt' \subseteq System \X Id
      /\ entities' = Nothing /\ preserved' = Nothing /\ migrations' = Nothing
      /\ stored' = stored /\ ~ loaded'
  BY DEF Deploy
<1>5. nextId' \in 1 .. MaxId + 1
  BY <1>2 DEF Deploy
<1>6. TypeOK'
  BY <1>1, <1>3, <1>4, <1>5 DEF TypeOK, Entities, Components
<1> QED BY <1>1, <1>4, <1>6 DEF DeployInv

LEMMA MigrationInv ==
    ASSUME DeployInv, NEW from \in 1 .. MaxRecipe, NEW to \in 1 .. MaxRecipe,
           Migration(from, to)
    PROVE  DeployInv'
<1>1. /\ migrations' = With(migrations, from, to)
      /\ from < to /\ to <= Recipe[build] /\ ~ loaded
      /\ UNCHANGED <<stored, build, known, loaded, world, truth>>
  BY DEF Migration
<1>2. DOMAIN migrations' = DOMAIN migrations \union {from}
      /\ \A x \in DOMAIN migrations' : migrations'[x] = IF x = from THEN to ELSE migrations[x]
  BY <1>1 DEF With
<1>3. to \in from + 1 .. Recipe[build]
  BY <1>1, DeployAssumptions DEF DeployInv, TypeOK
<1>4. TypeOK'
  BY <1>1, <1>2, <1>3 DEF DeployInv, TypeOK, world
<1> QED BY <1>1, <1>4 DEF DeployInv, world

LEMMA SaveInv ==
    ASSUME DeployInv, Save
    PROVE  DeployInv'
<1>1. stored' = Snapshot /\ loaded /\ UNCHANGED <<build, known, migrations, loaded, world, truth>>
  BY DEF Save
<1>2. stored' \in Snapshots /\ stored'.recipe = Recipe[build]
  BY <1>1, SnapshotType, SnapshotIs
<1>3. Recipe[build] \in Nat
  BY DeployAssumptions DEF DeployInv, TypeOK
<1>4. Snapshot' = Snapshot /\ TypeOK'
  BY <1>1 DEF DeployInv, TypeOK, Snapshot, world
<1> QED BY <1>1, <1>2, <1>3, <1>4 DEF DeployInv, world

\* A change to one live entity: what a snapshot shows of the others stays.
LEMMA ChangeInv ==
    ASSUME DeployInv, loaded,
           NEW e \in DOMAIN entities, NEW c \in Component, NEW new \in Components,
           entities' = [entities EXCEPT ![e] = new],
           preserved' = ForgetPreserved(e, c),
           DOMAIN new \subseteq DOMAIN entities[e] \union {c},
           UNCHANGED <<stored, build, known, migrations, loaded, nextId>>,
           dirt' \subseteq System \X Id,
           truth' = [truth EXCEPT !.ents[e] = Shown(e)', !.pairs = dirt']
    PROVE  DeployInv'
<1>1. /\ preserved' \in Entities
      /\ DOMAIN preserved' \subseteq DOMAIN preserved
      /\ \A x \in DOMAIN preserved' : preserved'[x] # Nothing
      /\ \A x : x # e => Kept(x)' = Kept(x)
      /\ Kept(e)' = Without(Kept(e), {c})
  BY ForgetIs DEF DeployInv, TypeOK
<1>2. /\ entities \in Entities /\ entities = [x \in DOMAIN entities |-> entities[x]]
      /\ DOMAIN entities \subseteq Id /\ \A x \in DOMAIN entities : entities[x] \in Components
  BY PartialElim DEF DeployInv, TypeOK, Entities, Components
<1>3. /\ DOMAIN entities' = DOMAIN entities /\ entities'[e] = new
      /\ \A x \in DOMAIN entities : x # e => entities'[x] = entities[x]
      /\ entities' = [x \in DOMAIN entities' |-> entities'[x]]
  BY <1>2
<1>4. entities' \in Entities
  <2>1. \A x \in DOMAIN entities' : entities'[x] \in Components
    BY <1>2, <1>3
  <2> QED BY <1>2, <1>3, <2>1, PartialIntro DEF Entities
<1>5. ASSUME NEW x \in DOMAIN preserved'
      PROVE  DOMAIN preserved'[x] \cap DOMAIN entities'[x] = {}
  <2>1. x \in DOMAIN preserved /\ x \in DOMAIN entities
        /\ DOMAIN preserved[x] \cap DOMAIN entities[x] = {}
    BY <1>1 DEF DeployInv, TypeOK
  <2>2. Kept(x)' = preserved'[x] /\ Kept(x) = preserved[x]
    BY <2>1 DEF Kept
  <2>3. CASE x = e
    <3>1. DOMAIN preserved'[e] = DOMAIN preserved[e] \ {c}
      BY <1>1, <2>2, <2>3 DEF Without, Restrict
    <3> QED BY <1>3, <2>1, <2>3, <3>1
  <2>4. CASE x # e
    BY <1>1, <1>3, <2>1, <2>2, <2>4
  <2> QED BY <2>3, <2>4
<1>6. TypeOK'
  BY <1>1, <1>3, <1>4, <1>5 DEF DeployInv, TypeOK, Entities, Components
<1>7. (Snapshot = truth)'
  <2> DEFINE shown == [x \in DOMAIN entities |-> Shown(x)]
  <2>1. Snapshot' = [recipe |-> Recipe[build]', nextId |-> nextId',
                     ents |-> [x \in DOMAIN entities' |-> Shown(x)'], pairs |-> dirt']
    BY DEF Snapshot, Shown, Kept
  <2>2. \A x \in DOMAIN entities : x # e => Shown(x)' = Shown(x)
    BY <1>1, <1>3 DEF Shown
  <2>3. [x \in DOMAIN entities' |-> Shown(x)'] = [shown EXCEPT ![e] = Shown(e)']
    BY <1>3, <2>2
  <2>4. truth = [recipe |-> Recipe[build], nextId |-> nextId, ents |-> shown, pairs |-> dirt]
    BY TruthIs
  <2> HIDE DEF shown
  <2>5. truth' = [recipe |-> Recipe[build], nextId |-> nextId,
                  ents |-> [shown EXCEPT ![e] = Shown(e)'], pairs |-> dirt']
    BY <2>4
  <2> QED BY <2>1, <2>3, <2>5
<1> QED BY <1>1, <1>3, <1>6, <1>7 DEF DeployInv

LEMMA WriteInv ==
    ASSUME DeployInv, NEW e \in DOMAIN entities, NEW c \in Component, NEW v \in Value,
           Write(e, c, v)
    PROVE  DeployInv'
<1> DEFINE new == With(entities[e], c, v)
<1>1. entities[e] \in Components /\ entities \in Entities /\ DOMAIN entities \subseteq Id
  BY PartialElim DEF DeployInv, TypeOK, Entities, Components
<1>2. new \in Components
  BY <1>1, WithPartial DEF Components
<1>3. /\ loaded /\ preserved' = ForgetPreserved(e, c) /\ dirt' = dirt \union Woken(e, c)
      /\ entities' = [entities EXCEPT ![e] = new]
      /\ truth' = [truth EXCEPT !.ents[e] = With(@, c, v), !.pairs = dirt']
      /\ UNCHANGED <<stored, build, known, migrations, loaded, nextId>>
  BY DEF Write
<1>4. Kept(e)' = Without(Kept(e), {c})
  BY <1>3, ForgetIs DEF DeployInv, TypeOK
<1>5. Shown(e)' = With(Shown(e), c, v)
  BY <1>3, <1>4, WriteOver DEF Shown
<1>6. truth.ents[e] = Shown(e)
  BY <1>3, TruthIs
<1>7. truth' = [truth EXCEPT !.ents[e] = Shown(e)', !.pairs = dirt']
  BY <1>3, <1>5, <1>6
<1>8. dirt' \subseteq System \X Id
  <2>1. Registered \subseteq System
    BY DeployAssumptions DEF Registered, System, DeployInv, TypeOK
  <2> QED BY <1>1, <1>3, <2>1 DEF Woken, DeployInv, TypeOK
<1>9. DOMAIN new \subseteq DOMAIN entities[e] \union {c}
  BY DEF With
<1> HIDE DEF new
<1> QED BY <1>2, <1>3, <1>7, <1>8, <1>9, ChangeInv

LEMMA RemoveInv ==
    ASSUME DeployInv, NEW e \in DOMAIN entities, NEW c \in Component, RemoveComponent(e, c)
    PROVE  DeployInv'
<1> DEFINE new == Without(entities[e], {c})
<1>1. entities[e] \in Components
  BY PartialElim DEF DeployInv, TypeOK, Entities, Components
<1>2. new \in Components
  BY <1>1, WithoutPartial DEF Components
<1>3. /\ loaded /\ preserved' = ForgetPreserved(e, c) /\ dirt' = dirt
      /\ entities' = [entities EXCEPT ![e] = new]
      /\ truth' = [truth EXCEPT !.ents[e] = Without(@, {c})]
      /\ UNCHANGED <<stored, build, known, migrations, loaded, nextId>>
  BY DEF RemoveComponent
<1>4. Kept(e)' = Without(Kept(e), {c})
  BY <1>3, ForgetIs DEF DeployInv, TypeOK
<1>5. Shown(e)' = Without(Shown(e), {c})
  <2>1. entities'[e] = Without(entities[e], {c})
    BY <1>3
  <2>2. Over(Without(entities[e], {c}), Without(Kept(e), {c})) = Without(Over(entities[e], Kept(e)), {c})
    BY WriteOver
  <2> QED BY <1>4, <2>1, <2>2 DEF Shown
<1>6. truth.ents[e] = Shown(e) /\ truth.pairs = dirt
  BY <1>3, TruthIs
<1>7. truth' = [truth EXCEPT !.ents[e] = Shown(e)', !.pairs = dirt']
  BY <1>3, <1>5, <1>6, TruthIs
<1>8. dirt' \subseteq System \X Id
  BY <1>3 DEF DeployInv, TypeOK
<1>9. DOMAIN new \subseteq DOMAIN entities[e] \union {c}
  BY DEF Without, Restrict
<1> HIDE DEF new
<1> QED BY <1>2, <1>3, <1>7, <1>8, <1>9, ChangeInv

LEMMA SpawnInv ==
    ASSUME DeployInv, NEW c \in Component, NEW v \in Value, Spawn(c, v)
    PROVE  DeployInv'
<1> DEFINE one == With(Nothing, c, v)
           shown == [x \in DOMAIN entities |-> Shown(x)]
<1>0. /\ nextId \in 1 .. MaxId + 1 /\ MaxId \in Nat /\ nextId <= MaxId
      /\ nextId \in Id /\ nextId + 1 \in 1 .. MaxId + 1
  BY DeployAssumptions DEF DeployInv, TypeOK, Spawn, Id
<1>1. one \in Components
  BY NothingPartial, WithPartial DEF Components
<1>2. one = Over(one, Nothing)
  BY DEF With, Over, Nothing
<1>3. /\ loaded /\ nextId' = nextId + 1 /\ dirt' = dirt \union Woken(nextId, c)
      /\ entities' = With(entities, nextId, one)
      /\ truth' = [truth EXCEPT !.ents = With(@, nextId, one), !.pairs = dirt', !.nextId = nextId']
      /\ UNCHANGED <<stored, build, known, migrations, loaded, preserved>>
  BY DEF Spawn
<1>4. nextId \notin DOMAIN entities /\ nextId \notin DOMAIN preserved
  BY <1>0 DEF DeployInv, TypeOK
<1> HIDE DEF one
<1>5. /\ DOMAIN entities' = DOMAIN entities \union {nextId}
      /\ entities'[nextId] = one
      /\ \A x \in DOMAIN entities : entities'[x] = entities[x]
  BY <1>3, <1>4 DEF With
<1>6. entities' \in Entities
  BY <1>0, <1>1, <1>3, WithPartial DEF DeployInv, TypeOK, Entities, Components
<1>7. dirt' \subseteq System \X Id
  <2>1. Registered \subseteq System
    BY DeployAssumptions DEF Registered, System, DeployInv, TypeOK
  <2> QED BY <1>0, <1>3, <2>1 DEF Woken, DeployInv, TypeOK
<1>8. TypeOK'
  BY <1>0, <1>3, <1>5, <1>6, <1>7 DEF DeployInv, TypeOK, Entities, Components
<1>9. \A x \in DOMAIN entities' : x < nextId'
  <2>1. DOMAIN entities \subseteq Nat
    BY <1>0, PartialElim DEF DeployInv, TypeOK, Id
  <2> QED BY <1>0, <1>3, <1>5, <2>1 DEF DeployInv
<1>10. (Snapshot = truth)'
  <2>1. Snapshot' = [recipe |-> Recipe[build]', nextId |-> nextId',
                     ents |-> [x \in DOMAIN entities' |-> Shown(x)'], pairs |-> dirt']
    BY DEF Snapshot, Shown, Kept
  <2>2. \A x \in DOMAIN entities : Shown(x)' = Shown(x)
    BY <1>3, <1>5 DEF Shown, Kept
  <2>3. ASSUME NEW x, x = nextId PROVE Shown(x)' = one
    <3>1. Kept(x)' = Nothing /\ entities'[x] = one
      BY <1>3, <1>4, <1>5, <2>3 DEF Kept
    <3> QED BY <1>2, <3>1 DEF Shown
  <2>4. [x \in DOMAIN entities' |-> Shown(x)'] = With(shown, nextId, one)
    <3>1. With(shown, nextId, one) =
             [x \in DOMAIN entities \union {nextId} |-> IF x = nextId THEN one ELSE Shown(x)]
      BY <1>4 DEF With
    <3>2. \A x \in DOMAIN entities \union {nextId} :
             Shown(x)' = IF x = nextId THEN one ELSE Shown(x)
      BY <1>4, <2>2, <2>3
    <3> QED BY <1>5, <3>1, <3>2
  <2>5. truth = [recipe |-> Recipe[build], nextId |-> nextId, ents |-> shown, pairs |-> dirt]
    BY <1>3, TruthIs
  <2> HIDE DEF shown
  <2>6. truth' = [recipe |-> Recipe[build], nextId |-> nextId',
                  ents |-> With(shown, nextId, one), pairs |-> dirt']
    BY <1>3, <2>5
  <2> QED BY <1>3, <2>1, <2>4, <2>6
<1> QED BY <1>3, <1>8, <1>9, <1>10 DEF DeployInv

LEMMA DespawnInv ==
    ASSUME DeployInv, NEW e \in DOMAIN entities, Despawn(e)
    PROVE  DeployInv'
<1> DEFINE shown == [x \in DOMAIN entities |-> Shown(x)]
<1>1. /\ loaded /\ entities' = Without(entities, {e}) /\ preserved' = Without(preserved, {e})
      /\ dirt' = {p \in dirt : p[2] # e}
      /\ truth' = [truth EXCEPT !.ents = Without(@, {e}), !.pairs = dirt']
      /\ UNCHANGED <<stored, build, known, migrations, loaded, nextId>>
  BY DEF Despawn
<1>2. /\ DOMAIN entities' = DOMAIN entities \ {e}
      /\ \A x \in DOMAIN entities' : entities'[x] = entities[x]
      /\ DOMAIN preserved' = DOMAIN preserved \ {e}
      /\ \A x \in DOMAIN preserved' : preserved'[x] = preserved[x]
  BY <1>1 DEF Without, Restrict
<1>3. entities' \in Entities /\ preserved' \in Entities
  BY <1>1, WithoutPartial DEF DeployInv, TypeOK, Entities, Components
<1>4. TypeOK'
  BY <1>1, <1>2, <1>3 DEF DeployInv, TypeOK, Entities, Components
<1>5. (Snapshot = truth)'
  <2>1. Snapshot' = [recipe |-> Recipe[build]', nextId |-> nextId',
                     ents |-> [x \in DOMAIN entities' |-> Shown(x)'], pairs |-> dirt']
    BY DEF Snapshot, Shown, Kept
  <2>2. \A x \in DOMAIN entities' : Shown(x)' = Shown(x)
    BY <1>2 DEF Shown, Kept
  <2>3. [x \in DOMAIN entities' |-> Shown(x)'] = Without(shown, {e})
    BY <1>2, <2>2 DEF Without, Restrict
  <2>4. truth = [recipe |-> Recipe[build], nextId |-> nextId, ents |-> shown, pairs |-> dirt]
    BY <1>1, TruthIs
  <2> HIDE DEF shown
  <2>5. truth' = [recipe |-> Recipe[build], nextId |-> nextId,
                  ents |-> Without(shown, {e}), pairs |-> dirt']
    BY <1>1, <2>4
  <2> QED BY <1>1, <2>1, <2>3, <2>5
<1> QED BY <1>1, <1>2, <1>3, <1>4, <1>5 DEF DeployInv

LEMMA ExecuteInv ==
    ASSUME DeployInv, NEW p \in dirt, Execute(p)
    PROVE  DeployInv'
<1>1. /\ dirt' = dirt \ {p} /\ truth' = [truth EXCEPT !.pairs = @ \ {p}]
      /\ UNCHANGED <<stored, build, known, migrations, loaded, entities, preserved, nextId>>
  BY DEF Execute
<1>2. TypeOK'
  BY <1>1 DEF DeployInv, TypeOK
<1>3. ASSUME loaded PROVE (Snapshot = truth)'
  <2> DEFINE shown == [x \in DOMAIN entities |-> Shown(x)]
  <2>1. Snapshot' = [recipe |-> Recipe[build], nextId |-> nextId, ents |-> shown, pairs |-> dirt']
    BY <1>1 DEF Snapshot, Shown, Kept
  <2>2. truth = [recipe |-> Recipe[build], nextId |-> nextId, ents |-> shown, pairs |-> dirt]
    BY <1>3, TruthIs
  <2> HIDE DEF shown
  <2> QED BY <1>1, <2>1, <2>2
<1> QED BY <1>1, <1>2, <1>3 DEF DeployInv

LEMMA DeployStep ==
    ASSUME DeployInv, [Next]_vars
    PROVE  DeployInv'
<1>1. ASSUME NEW c \in Component, DefineComponent(c) PROVE DeployInv'
  <2>1. known' = known \union {c} /\ UNCHANGED <<stored, build, migrations, loaded, world, truth>>
    BY <1>1 DEF DefineComponent
  <2>2. TypeOK' /\ Snapshot' = Snapshot
    BY <2>1 DEF DeployInv, TypeOK, Snapshot, world
  <2> QED BY <2>1, <2>2 DEF DeployInv, world
<1>2. CASE UNCHANGED vars
  <2>1. TypeOK' /\ Snapshot' = Snapshot
    BY <1>2 DEF DeployInv, TypeOK, Snapshot, vars, world
  <2> QED BY <1>2, <2>1 DEF DeployInv, vars, world
<1> QED
  BY <1>1, <1>2, SaveInv, MigrationInv, LoadInv, DeployedInv, RemoveInv, WriteInv,
     SpawnInv, DespawnInv, ExecuteInv DEF Next

LEMMA DeployInvHolds == Spec => []DeployInv
BY InitInv, DeployStep, PTL DEF Spec

\* Whatever builds took turns at the stored world, a build that has loaded it would
\* save it as all changes left it: it forgets nothing it does not know, and brings
\* nothing back (R55).
THEOREM NothingIsForgotten == Spec => []NothingForgotten
<1>1. DeployInv => NothingForgotten
  BY DEF DeployInv, NothingForgotten
<1> QED BY <1>1, DeployInvHolds, PTL

\* canLoad and load agree, for every migration chain and every set of modules: the
\* gate in front of a deploy lets through what loads, and blames what is to blame (R56).
THEOREM TheGateTellsTruth == Spec => []GateTellsTruth
<1>1. GateTellsTruth
  <2> DEFINE m == MigrateChain(stored)
             late == stored.recipe > Recipe[build]
             odd == Missing(Names(m)) # {}
             lost == Owners(m) \ Registered # {}
  <2>1. CanLoad(stored) = IF late THEN "recipeVersion"
                          ELSE IF m.recipe = Thrown THEN "migrationFailed"
                          ELSE IF m.recipe # Recipe[build] THEN "missingMigration"
                          ELSE IF odd \/ lost THEN "unresolved" ELSE "ok"
    BY DEF CanLoad
  <2>2. ASSUME NEW strict \in BOOLEAN
        PROVE  LoadError(stored, strict) =
                    IF late THEN "RecipeVersionError"
                    ELSE IF m.recipe = Thrown THEN "migration"
                    ELSE IF m.recipe # Recipe[build] THEN "RecipeVersionError"
                    ELSE IF strict /\ odd THEN "UnknownComponentError"
                    ELSE IF strict /\ lost THEN "UnknownSystemError"
                    ELSE "none"
    BY DEF LoadError
  <2> HIDE DEF m, late, odd, lost
  <2> QED BY <2>1, <2>2 DEF GateTellsTruth
<1> QED BY <1>1, PTL

\* No build, old or new, ever replaces a stored world by one of an older recipe.
THEOREM RecipesOnlyAscend == Spec => RecipesAscend
<1>1. ASSUME DeployInv, [Next]_vars, stored' # stored
      PROVE  stored'.recipe >= stored.recipe
  <2>1. Save
    BY <1>1 DEF Next, Migration, Load, Deploy, DefineComponent, RemoveComponent, Write, Spawn,
               Despawn, Execute, vars
  <2>2. stored'.recipe = Recipe[build] /\ stored.recipe <= Recipe[build]
    BY <1>1, <2>1, SnapshotIs DEF Save, DeployInv
  <2>3. stored.recipe \in Nat /\ Recipe[build] \in Nat
    BY <1>1, DeployAssumptions DEF DeployInv, TypeOK, Snapshots
  <2> QED BY <2>2, <2>3
<1>2. DeployInv /\ [Next]_vars => [stored'.recipe >= stored.recipe]_stored
  BY <1>1
<1> QED BY <1>2, DeployInvHolds, PTL DEF Spec, RecipesAscend
=============================================================================
