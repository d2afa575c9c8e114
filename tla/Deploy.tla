------------------------------- MODULE Deploy -------------------------------
(***************************************************************************)
(* Rolling deploys (packages/core/src/world.ts: snapshot, migration,       *)
(* canLoad, load): builds that know different components and systems take  *)
(* turns at one stored world.  A build migrates what it loads to its own   *)
(* recipeVersion; a load that is not strict keeps the components it cannot *)
(* resolve as opaque data, and the next snapshot writes them back.         *)
(*                                                                         *)
(* Values are opaque tokens: serialize, deserialize and the JSON round     *)
(* trip give back what they were given (a hook that throws is the subject  *)
(* of Durability).  X_Variant is X with a plausible defect; nothing uses   *)
(* it.                                                                     *)
(***************************************************************************)
EXTENDS Integers, FiniteSets, Functions

CONSTANTS
    Build,          \* the program versions that are deployed
    Component,      \* component names
    Value,          \* values of a component
    Defines,        \* [Build -> components its modules define]
    Uses,           \* [Build -> systems it registers]
    Reads,          \* [system -> the component of its query]
    Recipe,         \* [Build -> its recipeVersion]
    CalledAt,       \* [1 .. MaxRecipe -> what the renamed component is called]
    RunAt,          \* [1 .. MaxRecipe -> what the renamed system is called]
    Broken,         \* [Build -> its migrations that throw, as <<from, to>>]
    MaxRecipe,      \* bound: recipe versions
    MaxId           \* bound: entity ids

ASSUME DeployAssumptions ==
    /\ MaxRecipe \in Nat /\ MaxId \in Nat
    /\ Defines \in [Build -> SUBSET Component]
    /\ Uses \in [Build -> SUBSET DOMAIN Reads]
    /\ Reads \in [DOMAIN Reads -> Component]
    /\ Recipe \in [Build -> 1 .. MaxRecipe]
    /\ CalledAt \in [1 .. MaxRecipe -> Component]
    /\ RunAt \in [1 .. MaxRecipe -> DOMAIN Reads]
    /\ Broken \in [Build -> SUBSET ((1 .. MaxRecipe) \X (1 .. MaxRecipe))]

VARIABLES
    stored,     \* the snapshot in the store
    build,      \* the build that runs
    known,      \* the component registry: names its loaded modules define
    migrations, \* registered migrations: from version to next version
    loaded,     \* the build has loaded the stored world
    entities, preserved, dirt, nextId,  \* the world in memory
    truth       \* history: the world as every change so far left it

world == <<entities, preserved, dirt, nextId>>
vars == <<stored, build, known, migrations, loaded, world, truth>>

System == DOMAIN Reads
Nothing == [c \in {} |-> c]
With(f, x, v) == [y \in DOMAIN f \union {x} |-> IF y = x THEN v ELSE f[y]]
Without(f, gone) == Restrict(f, DOMAIN f \ gone)
Over(f, g) == [x \in DOMAIN f \union DOMAIN g |-> IF x \in DOMAIN f THEN f[x] ELSE g[x]]
Registered == Uses[build]
Missing(names) == names \ known

(* ------------------------------ snapshots ------------------------------ *)

\* Snapshot_Unversioned is Snapshot with the recipe of the oldest build.
Snapshot_Unversioned ==
    [recipe |-> 1,
     nextId |-> nextId,
     ents |-> [e \in DOMAIN entities |->
        Over(entities[e], IF e \in DOMAIN preserved THEN preserved[e] ELSE Nothing)],
     pairs |-> dirt]

\* What was kept as opaque data is written first, so a live value wins.
Snapshot ==
    [recipe |-> Recipe[build],
     nextId |-> nextId,
     ents |-> [e \in DOMAIN entities |->
        Over(entities[e], IF e \in DOMAIN preserved THEN preserved[e] ELSE Nothing)],
     pairs |-> dirt]

\* Save is persist() after a run or the application's own save: worlds that have
\* not loaded what is stored do not write over it.
Save ==
    /\ loaded
    /\ stored' = Snapshot
    /\ UNCHANGED <<build, known, migrations, loaded, world, truth>>

(* ------------------------------ migrations ----------------------------- *)

\* A migration must go forward, not past the build, and be the only one at `from`.
Migration(from, to) ==
    /\ ~ loaded
    /\ from < to /\ to <= Recipe[build]
    /\ from \in DOMAIN migrations => migrations[from] = to
    /\ migrations' = With(migrations, from, to)
    /\ UNCHANGED <<stored, build, known, loaded, world, truth>>

\* What the application's migration does: rename a component and a system.
Renamed_Copied(f, from, to) ==
    IF CalledAt[from] \in DOMAIN f /\ CalledAt[from] # CalledAt[to]
    THEN With(f, CalledAt[to], f[CalledAt[from]])
    ELSE f
Renamed(f, from, to) ==
    IF CalledAt[from] \in DOMAIN f /\ CalledAt[from] # CalledAt[to]
    THEN With(Without(f, {CalledAt[from]}), CalledAt[to], f[CalledAt[from]])
    ELSE f

Thrown == 0
Hop(snapshot, from, to) ==
    IF <<from, to>> \in Broken[build]
    THEN [snapshot EXCEPT !.recipe = Thrown]
    ELSE [snapshot EXCEPT
            !.recipe = to,
            !.ents = [e \in DOMAIN @ |-> Renamed(@[e], from, to)],
            !.pairs = {<<IF p[1] = RunAt[from] THEN RunAt[to] ELSE p[1], p[2]>> : p \in @}]

\* At most one hop for each registered migration, and none once it is current.
Hopped(snapshot) ==
    IF snapshot.recipe = Recipe[build] \/ snapshot.recipe \notin DOMAIN migrations
    THEN snapshot
    ELSE Hop(snapshot, snapshot.recipe, migrations[snapshot.recipe])

MigrateChain(snapshot) ==
    LET after[hops \in 0 .. Cardinality(DOMAIN migrations)] ==
            IF hops = 0 THEN snapshot ELSE Hopped(after[hops - 1])
    IN after[Cardinality(DOMAIN migrations)]

(* ------------------------------- loading ------------------------------- *)

Names(snapshot) == UNION {DOMAIN snapshot.ents[e] : e \in DOMAIN snapshot.ents}
Owners(snapshot) == {p[1] : p \in snapshot.pairs}

\* A CanLoad that looks names up before the migrations have renamed them.
CanLoad_BeforeMigrations(snapshot) ==
    LET migrated == MigrateChain(snapshot) IN
    IF snapshot.recipe > Recipe[build] THEN "recipeVersion"
    ELSE IF migrated.recipe = Thrown THEN "migrationFailed"
    ELSE IF migrated.recipe # Recipe[build] THEN "missingMigration"
    ELSE IF Missing(Names(snapshot)) # {} \/ Owners(snapshot) \ Registered # {}
         THEN "unresolved" ELSE "ok"

\* canLoad: every reason it can give, in its own order.
CanLoad(snapshot) ==
    LET migrated == MigrateChain(snapshot) IN
    IF snapshot.recipe > Recipe[build] THEN "recipeVersion"
    ELSE IF migrated.recipe = Thrown THEN "migrationFailed"
    ELSE IF migrated.recipe # Recipe[build] THEN "missingMigration"
    ELSE IF Missing(Names(migrated)) # {} \/ Owners(migrated) \ Registered # {}
         THEN "unresolved" ELSE "ok"

\* What load throws, if it does.
LoadError(snapshot, strict) ==
    LET migrated == MigrateChain(snapshot) IN
    IF snapshot.recipe > Recipe[build] THEN "RecipeVersionError"
    ELSE IF migrated.recipe = Thrown THEN "migration"
    ELSE IF migrated.recipe # Recipe[build] THEN "RecipeVersionError"
    ELSE IF strict /\ Missing(Names(migrated)) # {} THEN "UnknownComponentError"
    ELSE IF strict /\ Owners(migrated) \ Registered # {} THEN "UnknownSystemError"
    ELSE "none"

\* The world a load leaves: resolved components live, the others opaque, the pairs
\* of unknown systems reported and dropped.
Resolved(snapshot) ==
    [e \in DOMAIN snapshot.ents |-> Restrict(snapshot.ents[e], DOMAIN snapshot.ents[e] \cap known)]
Opaque(snapshot) ==
    [e \in {e \in DOMAIN snapshot.ents : Missing(DOMAIN snapshot.ents[e]) # {}} |->
        Restrict(snapshot.ents[e], Missing(DOMAIN snapshot.ents[e]))]
Schedulable(snapshot) == {p \in snapshot.pairs : p[1] \in Registered}

Load(strict) ==
    LET migrated == MigrateChain(stored) IN
    /\ LoadError(stored, strict) = "none"
    /\ entities' = Resolved(migrated)
    /\ preserved' = Opaque(migrated)
    /\ dirt' = Schedulable(migrated)
    /\ nextId' = migrated.nextId
    /\ loaded' = TRUE
    /\ truth' = [migrated EXCEPT !.pairs = Schedulable(migrated)]
    /\ UNCHANGED <<stored, build, known, migrations>>

(* ------------------------------ operations ----------------------------- *)

\* A process of build b starts: an empty world, no module loaded beyond those that
\* define the components its registered systems query.
Deploy(b) ==
    /\ build' = b
    /\ known' = {Reads[s] : s \in Uses[b]}
    /\ migrations' = Nothing
    /\ loaded' = FALSE
    /\ entities' = Nothing /\ preserved' = Nothing /\ dirt' = {} /\ nextId' = 1
    /\ truth' = [recipe |-> Recipe[b], nextId |-> 1, ents |-> Nothing, pairs |-> {}]
    /\ UNCHANGED stored

\* defineComponent, when a module is imported: before the load or long after it.
DefineComponent(c) ==
    /\ c \in Defines[build] \ known
    /\ known' = known \union {c}
    /\ UNCHANGED <<stored, build, migrations, loaded, world, truth>>

\* Once live code owns the name, the opaque value is stale.
ForgetPreserved(e, c) ==
    LET kept == IF e \in DOMAIN preserved THEN Without(preserved[e], {c}) ELSE Nothing
    IN IF kept = Nothing THEN Without(preserved, {e}) ELSE [preserved EXCEPT ![e] = kept]

Woken(e, c) == {<<s, e>> : s \in {s \in Registered : Reads[s] = c}}

\* A write: external, or a system's at the barrier.
Write(e, c, v) ==
    /\ loaded /\ e \in DOMAIN entities /\ c \in known
    /\ preserved' = ForgetPreserved(e, c)
    /\ entities' = [entities EXCEPT ![e] = With(@, c, v)]
    /\ dirt' = dirt \union Woken(e, c)
    /\ truth' = [truth EXCEPT !.ents[e] = With(@, c, v), !.pairs = dirt']
    /\ UNCHANGED <<stored, build, known, migrations, loaded, nextId>>

\* A removal that returns early when the component is not live.
RemoveComponent_LiveOnly(e, c) ==
    /\ loaded /\ e \in DOMAIN entities /\ c \in known
    /\ IF c \in DOMAIN entities[e]
       THEN preserved' = ForgetPreserved(e, c) ELSE UNCHANGED preserved
    /\ entities' = [entities EXCEPT ![e] = Without(@, {c})]
    /\ truth' = [truth EXCEPT !.ents[e] = Without(@, {c})]
    /\ UNCHANGED <<stored, build, known, migrations, loaded, dirt, nextId>>

\* A removal retires the opaque value too, also when no live one is there.
RemoveComponent(e, c) ==
    /\ loaded /\ e \in DOMAIN entities /\ c \in known
    /\ preserved' = ForgetPreserved(e, c)
    /\ entities' = [entities EXCEPT ![e] = Without(@, {c})]
    /\ truth' = [truth EXCEPT !.ents[e] = Without(@, {c})]
    /\ UNCHANGED <<stored, build, known, migrations, loaded, dirt, nextId>>

Spawn(c, v) ==
    /\ loaded /\ nextId <= MaxId /\ c \in known
    /\ nextId' = nextId + 1
    /\ entities' = With(entities, nextId, With(Nothing, c, v))
    /\ dirt' = dirt \union Woken(nextId, c)
    /\ truth' = [truth EXCEPT !.ents = With(@, nextId, With(Nothing, c, v)),
                              !.pairs = dirt', !.nextId = nextId']
    /\ UNCHANGED <<stored, build, known, migrations, loaded, preserved>>

\* The entity goes, with its opaque values and its pending pairs.
Despawn(e) ==
    /\ loaded /\ e \in DOMAIN entities
    /\ entities' = Without(entities, {e})
    /\ preserved' = Without(preserved, {e})
    /\ dirt' = {p \in dirt : p[2] # e}
    /\ truth' = [truth EXCEPT !.ents = Without(@, {e}), !.pairs = dirt']
    /\ UNCHANGED <<stored, build, known, migrations, loaded, nextId>>

\* A step executes a pending pair; its writes are Write and RemoveComponent.
Execute(p) ==
    /\ p \in dirt
    /\ dirt' = dirt \ {p}
    /\ truth' = [truth EXCEPT !.pairs = @ \ {p}]
    /\ UNCHANGED <<stored, build, known, migrations, loaded, entities, preserved, nextId>>

Init ==
    /\ build \in Build
    /\ known = {Reads[s] : s \in Uses[build]}
    /\ migrations = Nothing
    /\ loaded = TRUE
    /\ entities = Nothing /\ preserved = Nothing /\ dirt = {} /\ nextId = 1
    /\ truth = [recipe |-> Recipe[build], nextId |-> 1, ents |-> Nothing, pairs |-> {}]
    /\ stored = truth

Next ==
    \/ Save
    \/ \E from, to \in 1 .. MaxRecipe : Migration(from, to)
    \/ \E strict \in BOOLEAN : Load(strict)
    \/ \E b \in Build : Deploy(b)
    \/ \E c \in Component : DefineComponent(c)
    \/ \E e \in DOMAIN entities, c \in Component : RemoveComponent(e, c)
    \/ \E e \in DOMAIN entities, c \in Component, v \in Value : Write(e, c, v)
    \/ \E c \in Component, v \in Value : Spawn(c, v)
    \/ \E e \in DOMAIN entities : Despawn(e)
    \/ \E p \in dirt : Execute(p)

Spec == Init /\ [][Next]_vars

(* ------------------------------ properties ----------------------------- *)

Partial(S, T) == UNION {[D -> T] : D \in SUBSET S}
Id == 1 .. MaxId

\* Types; an opaque value belongs to a live entity and to no live component.
TypeOK ==
    /\ build \in Build /\ known \subseteq Component /\ loaded \in BOOLEAN
    /\ nextId \in 1 .. MaxId + 1
    /\ entities \in Partial(Id, Partial(Component, Value))
    /\ dirt \subseteq System \X Id
    /\ DOMAIN migrations \subseteq 1 .. MaxRecipe
    /\ \A from \in DOMAIN migrations : migrations[from] \in from + 1 .. Recipe[build]
    /\ DOMAIN preserved \subseteq DOMAIN entities
    /\ \A e \in DOMAIN preserved :
        /\ preserved[e] # Nothing
        /\ DOMAIN preserved[e] \cap DOMAIN entities[e] = {}

\* The world is well formed, and whatever sequence of deploys, loads, writes and
\* removals came before, the next snapshot is the world as those changes left it:
\* nothing another build owns is lost by a round trip through this one, nothing that
\* live code replaced or removed comes back from the opaque copy, no pending work is
\* lost but what a load that is not strict reported (R55).
NothingForgotten == TypeOK /\ (loaded => Snapshot = truth)

\* The deploy gate tells the truth: canLoad says ok exactly when a strict load would
\* succeed, and it blames unresolved names exactly when a load that is not strict
\* would succeed where the strict one does not (R56).
GateTellsTruth ==
    /\ CanLoad(stored) = "ok" <=> LoadError(stored, TRUE) = "none"
    /\ CanLoad(stored) = "unresolved" <=>
            /\ LoadError(stored, TRUE) # "none"
            /\ LoadError(stored, FALSE) = "none"

\* No sequence of deploys, loads, rollbacks and saves writes the world of an older
\* recipe over that of a newer one.
RecipesAscend == [][stored'.recipe >= stored.recipe]_stored

\* A save that raises the recipe leaves no component under a name that a migration
\* on the way retired, neither live nor as opaque data, unless a write put it there.
RetiredNamesGone ==
    [][\A old \in stored.recipe .. stored'.recipe - 1 :
          \A new \in old + 1 .. stored'.recipe :
             (old \in DOMAIN migrations /\ migrations[old] = new /\ CalledAt[old] # CalledAt[new])
             => ~ \E e \in DOMAIN stored'.ents :
                     CalledAt[old] \in DOMAIN stored'.ents[e] \ DOMAIN entities[e] ]_stored
=============================================================================
