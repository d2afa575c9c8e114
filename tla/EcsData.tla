------------------------------ MODULE EcsData ------------------------------
(***************************************************************************)
(* The data the langECS engine works on: entities carrying components,     *)
(* systems declared by a query over component names, the operations a      *)
(* system buffers while it runs, and the values those operations leave.    *)
(*                                                                         *)
(* A component VALUE is abstracted to the set of tokens of the writes that *)
(* are still visible in it: a plain write leaves one token, a reducer      *)
(* merge adds its token to those already there, and the empty set means    *)
(* the component is absent.  A token names the writer:                     *)
(*   <<i, s, e>>          execution number i of system s on entity e       *)
(*   <<n, s, 0>>          the SystemError record {system: s, step: n}      *)
(*   <<n, "external", 0>> a mutation made from outside after step n        *)
(*   <<n, "engine", 0>>   the Cancelled record stamped at step n           *)
(***************************************************************************)
EXTENDS Integers, Sequences, FiniteSets

CONSTANTS
    System,         \* keys of the systems the program may register
    UserComponent,  \* names of the program's own components
    MaxId,          \* bound: entity ids are 1..MaxId
    Index,          \* [System -> Nat]: registration order
    Include,        \* [System -> SUBSET Component]: positive query terms
    Exclude,        \* [System -> SUBSET Component]: Not(...) query terms
    Reducer         \* components defined with a reducer

SystemError == "SystemError"
Cancelled == "Cancelled"
AwaitingHuman == "AwaitingHuman"
Builtin == {SystemError, Cancelled, AwaitingHuman}
Component == UserComponent \cup Builtin

Entity == 1 .. MaxId
Pair == System \X Entity

External == <<"external", 0>>
Engine == <<"engine", 0>>
Writer == Pair \cup {External, Engine}
Token == Nat \X (System \cup {"external", "engine"}) \X Nat

ASSUME SystemAssumption ==
    /\ IsFiniteSet(System)
    /\ System \cap {"external", "engine"} = {}
    /\ UserComponent \cap Builtin = {}
    /\ Index \in [System -> Nat]
    /\ \A s, t \in System : Index[s] = Index[t] => s = t
ASSUME QueryAssumption ==
    /\ Include \in [System -> SUBSET Component]
    /\ Exclude \in [System -> SUBSET Component]
ASSUME ReducerAssumption == Reducer \subseteq Component /\ AwaitingHuman \in Reducer
ASSUME BoundAssumption == MaxId \in Nat

(***************************************************************************)
(* matchesQuery: every positive term present, every Not term absent.       *)
(***************************************************************************)
MatchesQuery(s, value) ==
    /\ \A c \in Include[s] : value[c] # {}
    /\ \A c \in Exclude[s] : value[c] = {}

MatchSet(s, reg, al, cs) ==
    {e \in al : s \in reg /\ MatchesQuery(s, cs[e])}

(***************************************************************************)
(* The order in which pairs are scheduled and their buffers replayed:      *)
(* system registration index, then entity id.                              *)
(***************************************************************************)
Before(p, q) ==
    \/ Index[p[1]] < Index[q[1]]
    \/ Index[p[1]] = Index[q[1]] /\ p[2] < q[2]

(***************************************************************************)
(* A change record <<entity, component, writer>> is foreign to pair <<s,e>>*)
(* when it hits a positive term of s on e and the pair did not make it.    *)
(***************************************************************************)
ForeignChange(changes, s, e) ==
    \E ch \in changes : ch[1] = e /\ ch[2] \in Include[s] /\ ch[3] # <<s, e>>

(***************************************************************************)
(* Buffered operations.  "add" and "set" are the two write modes; a spawn  *)
(* carries the components of its items and the systems of its AgentDefs;   *)
(* an "invalidate" names its system, an "invalidateAll" names none.        *)
(***************************************************************************)
OpKind == {"add", "set", "remove", "spawn", "despawn", "invalidate", "invalidateAll"}
Op == [kind : OpKind, ent : Entity, comps : SUBSET Component, sys : SUBSET System]

(***************************************************************************)
(* The operations a system body may choose from: like Op, with entity 0    *)
(* standing for the entity it was scheduled on (and for a spawn, whose id  *)
(* is allocated when it is called).                                        *)
(***************************************************************************)
MenuOp == [kind : OpKind, ent : 0 .. MaxId, comps : SUBSET Component, sys : SUBSET System]
=============================================================================
