------------------------------ MODULE Workflow ------------------------------
(***************************************************************************)
(* A program of the examples run on the engine, one transition per step.   *)
(* The program is the constants: its systems in registration order, their  *)
(* query terms, their `when` guards, what their bodies may decide (a model *)
(* or a human answers with a CHOICE) and the calls they then make.         *)
(* X_Variant is X with a plausible defect; nothing uses it.                *)
(***************************************************************************)
EXTENDS Blackboard

CONSTANTS
    Systems,            \* sequence of system names, in registration order
    Query,              \* [system name -> query term]
    Reducers,           \* [component with a reducer -> its kind]
    Guard(_, _, _),     \* `when` of a system, on an entity of a world
    Answers(_, _, _),   \* what the body's outside calls may come back with
    Body(_, _, _, _, _), \* the body's calls: system, entity, world, next id, choice
    Fallible,           \* systems whose body makes a call that may fail
    Sends(_, _),        \* what callers may send to a world that is at rest
    Starts,             \* initial worlds
    Cancellable,        \* whether callers cancel this program
    MaxFailures,        \* bound: failed executions
    MaxSends            \* bound: external mutations

VARIABLES
    world,      \* the committed world
    nextId,     \* nextEntityId
    dirt,       \* pending pairs
    failed,     \* executions that failed so far
    sent,       \* external mutations made so far
    aborting,   \* world.cancel() was called during the last step
    conflict    \* a barrier met a write conflict: the run rejected

vars == <<world, nextId, dirt, failed, sent, aborting, conflict>>

Candidates == {p \in dirt : p[2] \in DOMAIN world /\ MatchesQuery(Query[p[1]], world[p[2]])}
Executing == {p \in Candidates : Guard(p[1], p[2], world)}
\* A step consumes the dirt of the pairs it executes and of those it vetoes.
Consumed_Executed == Executing
Consumed == Candidates
Quiet == Candidates = {} /\ ~aborting

Rank(p) == CHOOSE i \in DOMAIN Systems : Systems[i] = p[1]
Before(p, q) == Rank(p) < Rank(q) \/ (Rank(p) = Rank(q) /\ p[2] < q[2])

Outcomes(p, outside) ==
    Answers(p[1], p[2], world) \cup (IF p[1] \in Fallible THEN outside ELSE {})

\* What executions leave of the world and of the pending pairs, those that
\* remain and those the changes wake.
Commit(runs, remaining) ==
    \E s \in {Barrier(world, runs, Reducers)} :
       /\ world' = s.w
       /\ dirt' = {p \in remaining : p[2] \in DOMAIN s.w} \cup Woken(world, s, Query)
       /\ nextId' = nextId + Cardinality({c \in ToSet(Calls(runs)) : c[2].kind = "spawn"})

Outside(writer, calls) == <<[pair |-> writer, ok |-> TRUE, ops |-> calls]>>

\* How one execution ends, given what its outside calls came back with.
Execution(p, answer) ==
    [pair |-> p, ok |-> answer # Fail,
     ops |-> IF answer = Fail THEN <<>> ELSE Body(p[1], p[2], world, nextId, answer)]

(***************************************************************************)
(* A step: every executing pair reads the step-start world, its body's     *)
(* outside calls come back somehow, and the barrier commits.  A vetoed     *)
(* pair's dirt is consumed too; an aborted pair's is not.                  *)
(***************************************************************************)
StepWith(outside) ==
    \E answer \in [Executing -> UNION {Outcomes(p, outside) : p \in Executing}] :
       /\ \A p \in Executing : answer[p] \in Outcomes(p, outside)
       /\ LET aborted == {p \in Executing : answer[p] = Abort}
              failures == Cardinality({p \in Executing : answer[p] = Fail})
          IN /\ failed + failures <= MaxFailures
             /\ failed' = failed + failures
             /\ \E pairs \in {SetToSortSeq(Executing \ aborted, Before)} :
                \E runs \in {[i \in DOMAIN pairs |-> Execution(pairs[i], answer[pairs[i]])]} :
                   /\ conflict' = Conflict(runs, Reducers)
                   /\ IF conflict' THEN Commit(<<>>, dirt)
                      ELSE Commit(runs, (dirt \ Consumed) \cup aborted)
    /\ UNCHANGED sent

Step ==
    /\ ~aborting /\ ~conflict
    /\ Candidates # {}
    /\ StepWith({Fail})
    /\ UNCHANGED aborting

(***************************************************************************)
(* world.cancel() while a step is in flight: bodies that forward their     *)
(* signal may abort, the others finish; the stamp is the next step.        *)
(***************************************************************************)
CancelledStep ==
    /\ Cancellable
    /\ ~aborting /\ ~conflict
    /\ Candidates # {}
    /\ sent < MaxSends
    /\ StepWith({Fail, Abort})
    /\ aborting' = TRUE

Stamp ==
    /\ aborting
    /\ aborting' = FALSE
    /\ sent' = sent + 1
    /\ LET ids == SetToSortSeq(DOMAIN world, <)
       IN Commit(Outside(Engine, [i \in DOMAIN ids |-> Set(ids[i], Cancelled, TRUE)]), dirt)
    /\ UNCHANGED <<failed, conflict>>

(***************************************************************************)
(* A mutation from outside (send, resume, ...), legal between runs only.   *)
(***************************************************************************)
Send ==
    /\ Quiet
    /\ sent < MaxSends
    /\ sent' = sent + 1
    /\ \E calls \in Sends(world, sent) : Commit(Outside(External, calls), dirt)
    /\ UNCHANGED <<failed, aborting, conflict>>

Init ==
    /\ world \in Starts
    /\ nextId = Cardinality(DOMAIN world) + 1
    /\ dirt = {p \in (DOMAIN Query) \X (DOMAIN world) : MatchesQuery(Query[p[1]], world[p[2]])}
    /\ failed = 0
    /\ sent = 0
    /\ aborting = FALSE
    /\ conflict = FALSE
=============================================================================
