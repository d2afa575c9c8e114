----------------------------- MODULE Blackboard -----------------------------
(***************************************************************************)
(* The engine's operations on component VALUES, for the example workflows: *)
(* what a system's buffered calls are, how the barrier replays them over   *)
(* the step-start state, and which pairs the changes wake.  (World models  *)
(* the same barrier with values abstracted to writers' tokens, and every   *)
(* interleaving inside a step; here a step is one transition, which is     *)
(* what its isolation makes of it.)                                        *)
(*                                                                         *)
(* A world is a function from the live entity ids to their components, and *)
(* those a function from component names to values.  The SystemError value *)
(* is the sequence of the recorded systems' names.                         *)
(***************************************************************************)
EXTENDS Integers, Sequences, FiniteSets, SequencesExt

SystemError == "SystemError"
Cancelled == "Cancelled"
External == <<"external", 0>>
Engine == <<"engine", 0>>

\* How an execution may end other than with an answer.
Fail == <<"fail">>
Abort == <<"abort">>

\* Op(x), with x evaluated once.
Once(x, Op(_)) == CHOOSE r \in {Op(y) : y \in {x}} : TRUE

(***************************************************************************)
(* Buffered calls; a write's mode is its kind.  A spawn carries the        *)
(* components of its items, an invalidate the name of its system.          *)
(***************************************************************************)
Call(kind, e, c, v) == [kind |-> kind, ent |-> e, comp |-> c, val |-> v]
Add(e, c, v) == Call("add", e, c, v)
Set(e, c, v) == Call("set", e, c, v)
Tag(e, c) == Call("add", e, c, TRUE)
Drop(e, c) == Call("remove", e, c, TRUE)
Spawn(e, value) == Call("spawn", e, "", value)
Despawn(e) == Call("despawn", e, "", TRUE)
Invalidate(e, s) == Call("invalidate", e, s, TRUE)

Term(all, none) == [all |-> all, none |-> none]
MatchesQuery(term, value) == /\ term.all \subseteq DOMAIN value
                             /\ term.none \cap DOMAIN value = {}

Holds(w, e, c) == e \in DOMAIN w /\ c \in DOMAIN w[e]
Value(w, e, c, default) == IF Holds(w, e, c) THEN w[e][c] ELSE default
WithValue(value, c, v) == [d \in DOMAIN value \cup {c} |-> IF d = c THEN v ELSE value[d]]

Merged(kind, current, incoming) ==
    CASE kind = "append" -> current \o incoming
      [] kind = "sum" -> current + incoming
      [] kind = "larger" -> IF incoming > current THEN incoming ELSE current

(***************************************************************************)
(* The value an add or a set leaves: only an add on a present component    *)
(* with a reducer merges.                                                  *)
(***************************************************************************)
Written(value, o, reducers) ==
    IF o.kind = "add" /\ o.comp \in DOMAIN reducers /\ o.comp \in DOMAIN value
    THEN Merged(reducers[o.comp], value[o.comp], o.val)
    ELSE o.val

(***************************************************************************)
(* One call of pair p, staged over s = [w, changes, marks].                *)
(***************************************************************************)
Stage(s, p, o, reducers) ==
    LET put(e, value, cs) == [s EXCEPT !.w = [f \in DOMAIN s.w \cup {e} |->
                                                IF f = e THEN value ELSE s.w[f]],
                                       !.changes = @ \cup {<<e, c, p>> : c \in cs}]
    IN IF o.kind = "spawn" THEN put(o.ent, o.val, DOMAIN o.val)
       ELSE IF o.kind = "despawn" \/ o.ent \notin DOMAIN s.w THEN s
       ELSE CASE o.kind = "invalidate" -> [s EXCEPT !.marks = @ \cup {<<o.comp, o.ent>>}]
              [] o.kind = "remove" ->
                   IF o.comp \notin DOMAIN s.w[o.ent] THEN s
                   ELSE put(o.ent, Restrict(s.w[o.ent], DOMAIN s.w[o.ent] \ {o.comp}), {o.comp})
              [] OTHER ->
                   put(o.ent, WithValue(s.w[o.ent], o.comp, Written(s.w[o.ent], o, reducers)),
                       {o.comp})

(***************************************************************************)
(* applyBarrier.  `runs` is the sequence of the step's executions in       *)
(* replay order, each [pair, ok, ops]; a failed one's calls are discarded. *)
(***************************************************************************)
Calls(runs) == FlattenSeq([i \in DOMAIN runs |->
    IF runs[i].ok THEN [j \in DOMAIN runs[i].ops |-> <<runs[i].pair, runs[i].ops[j]>>]
    ELSE <<>>])

Despawned(runs) == {c[2].ent : c \in {d \in ToSet(Calls(runs)) : d[2].kind = "despawn"}}

\* R30: two pairs write one component without a reducer of one entity.
Conflict(runs, reducers) ==
    LET calls == Calls(runs)
    IN \E i, j \in DOMAIN calls :
          LET o == calls[i][2] q == calls[j][2]
          IN /\ calls[i][1] # calls[j][1]
             /\ {o.kind, q.kind} \subseteq {"add", "set"}
             /\ o.ent = q.ent /\ o.comp = q.comp
             /\ o.comp \notin DOMAIN reducers
             /\ o.ent \notin Despawned(runs)

\* The engine's own writes: a record for a failed pair (R31), and a
\* successful pair's records cleared (R32).
Record(s, run, reducers) ==
    IF run.ok THEN s
    ELSE Stage(s, Engine, Set(run.pair[2], SystemError,
                   Append(Value(s.w, run.pair[2], SystemError, <<>>), run.pair[1])), reducers)
Clear(s, run, reducers) ==
    LET e == run.pair[2]
        kept == SelectSeq(Value(s.w, e, SystemError, <<>>), LAMBDA t : t # run.pair[1])
    IN IF ~run.ok \/ kept = Value(s.w, e, SystemError, <<>>) THEN s
       ELSE IF kept = <<>> THEN Stage(s, Engine, Drop(e, SystemError), reducers)
       ELSE Stage(s, Engine, Set(e, SystemError, kept), reducers)

Barrier(w, runs, reducers) ==
    LET gone == Despawned(runs)
        live == [e \in DOMAIN w \ gone |-> w[e]]
        landing == SelectSeq(Calls(runs), LAMBDA c : c[2].ent \notin gone)
        lasting == SelectSeq(runs, LAMBDA r : r.pair[2] \notin gone)
        replayed == FoldLeft(LAMBDA s, c : Once(s, LAMBDA t : Stage(t, c[1], c[2], reducers)),
                             [w |-> live, changes |-> {}, marks |-> {}], landing)
        recorded == FoldLeft(LAMBDA s, r : Once(s, LAMBDA t : Record(t, r, reducers)), replayed, lasting)
    IN FoldLeft(LAMBDA s, r : Once(s, LAMBDA t : Clear(t, r, reducers)), recorded, lasting)

(***************************************************************************)
(* refreshDirt, then the invalidations: the pairs a commit from world w to *)
(* stage s wakes under the query table.                                    *)
(***************************************************************************)
Woken(w, s, query) ==
    s.marks \cup
    {p \in (DOMAIN query) \X (DOMAIN s.w) :
        /\ MatchesQuery(query[p[1]], s.w[p[2]])
        /\ \/ p[2] \notin DOMAIN w \/ ~MatchesQuery(query[p[1]], w[p[2]])
           \/ \E c \in s.changes : c[1] = p[2] /\ c[2] \in query[p[1]].all /\ c[3] # p}

(***************************************************************************)
(* What the stdlib retry system and the supervisor's heal system both do:  *)
(* re-arm every recorded system that has no more than `max` records.       *)
(***************************************************************************)
Failures(w, e, s) == Len(SelectSeq(Value(w, e, SystemError, <<>>), LAMBDA t : t = s))
Rearmed(w, e, max) == {s \in ToSet(Value(w, e, SystemError, <<>>)) : Failures(w, e, s) <= max}
Rearm(w, e, max) == LET systems == SetToSeq(Rearmed(w, e, max))
                    IN [i \in DOMAIN systems |-> Invalidate(e, systems[i])]
=============================================================================
