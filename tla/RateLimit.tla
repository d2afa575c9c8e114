----------------------------- MODULE RateLimit -----------------------------
(***************************************************************************)
(* withRateLimit (packages/core/src/middleware.ts): a gate in front of a   *)
(* model that caps the calls in flight and spaces out their starts.  The   *)
(* callers are the pairs of a fan-out step; each makes one call at a time. *)
(*                                                                         *)
(* The gate is a counter of permits, a queue of grant callbacks and the    *)
(* last reserved start.  A permit is handed over inside release(), before  *)
(* the waiter it goes to has run again: between the two lies a microtask   *)
(* (pc "granted") in which newcomers, aborts and other releases happen.    *)
(*                                                                         *)
(* A definition named X_Variant right before X is what X would be with a   *)
(* plausible defect.  No action uses it: it is put in the place of X to    *)
(* see that a property would catch the defect.                             *)
(***************************************************************************)
EXTENDS Integers, Sequences, FiniteSets

CONSTANTS
    Caller,
    Concurrency,    \* opts.concurrency, at least 1
    MinInterval,    \* opts.minIntervalMs, in ticks of the clock
    MaxCalls,       \* bound: calls made in all
    MaxTime         \* bound: time passes beyond it only for a pacing call

ASSUME RateLimitAssumption ==
    /\ IsFiniteSet(Caller)
    /\ Concurrency \in Nat \ {0}
    /\ MinInterval \in Nat
    /\ MaxCalls \in Nat /\ MaxTime \in Nat

VARIABLES
    pc,             \* where each caller's gate() stands
    aborted,        \* the signal of its request
    active,         \* permits taken
    waiting,        \* queue of callers waiting for a permit
    lastStart,      \* latest reserved start
    startAt,        \* the start each caller reserved last
    clock,
    calls,          \* history: calls made, the last one's number is its ticket
    ticket,         \* history: number of each caller's call
    reserved,       \* history: starts reserved
    slot,           \* history: number of the start each caller reserved last
    started,        \* history: numbers of the starts that led to a model call
    firstAt         \* history: the first reserved start

gateVars == <<active, waiting>>
paceVars == <<lastStart, startAt, reserved, slot, firstAt>>
callVars == <<calls, ticket>>
vars == <<pc, aborted, gateVars, paceVars, clock, callVars, started>>

(***************************************************************************)
(* A call is queued, then granted a permit it has not noticed yet, then    *)
(* pacing (asleep until its start), then calling the model; "leaving" is a *)
(* sleep cut short by an abort whose finally block has not run yet.        *)
(***************************************************************************)
PC == {"idle", "queued", "granted", "pacing", "leaving", "calling"}
Holders == {c \in Caller : pc[c] \in {"granted", "pacing", "leaving", "calling"}}

Later(a, b) == IF a > b THEN a ELSE b

(***************************************************************************)
(* release(): the permit goes to the head of the queue, or becomes free.   *)
(***************************************************************************)
Release(c) ==
    IF waiting = <<>>
    THEN /\ pc' = [pc EXCEPT ![c] = "idle"]
         /\ active' = active - 1
         /\ UNCHANGED waiting
    ELSE /\ pc' = [pc EXCEPT ![c] = "idle", ![Head(waiting)] = "granted"]
         /\ waiting' = Tail(waiting)
         /\ UNCHANGED active

(***************************************************************************)
(* With the permit: reserve a start, and sleep until it or call at once.   *)
(***************************************************************************)
Reservation_AfterSleep(at) == IF at > clock THEN lastStart ELSE at
Reservation(at) == at

TakeTurn(c) ==
    LET at == Later(clock, lastStart + MinInterval)
    IN /\ lastStart' = Reservation(at)
       /\ startAt' = [startAt EXCEPT ![c] = at]
       /\ pc' = [pc EXCEPT ![c] = IF at > clock THEN "pacing" ELSE "calling"]
       /\ reserved' = reserved + 1
       /\ slot' = [slot EXCEPT ![c] = reserved + 1]
       /\ started' = IF at > clock THEN started ELSE started \cup {reserved + 1}
       /\ firstAt' = IF reserved = 0 THEN at ELSE firstAt

Full == active >= Concurrency

Enter(c) ==
    /\ pc[c] = "idle"
    /\ calls < MaxCalls
    /\ calls' = calls + 1
    /\ ticket' = [ticket EXCEPT ![c] = calls + 1]
    /\ aborted' = [aborted EXCEPT ![c] = FALSE]
    /\ \/ /\ Full
          /\ waiting' = Append(waiting, c)
          /\ pc' = [pc EXCEPT ![c] = "queued"]
          /\ UNCHANGED <<active, paceVars, started>>
       \/ /\ ~Full
          /\ active' = active + 1
          /\ TakeTurn(c)
          /\ UNCHANGED waiting
    /\ UNCHANGED clock

\* The continuation of a granted waiter; continuations run in grant order.  An
\* abort that landed since the grant is noticed inside the try block.
NextResumed(c) ==
    pc[c] = "granted" /\ \A d \in Caller : pc[d] = "granted" => ticket[c] <= ticket[d]

Resume(c) ==
    /\ NextResumed(c)
    /\ ~aborted[c]
    /\ TakeTurn(c)
    /\ UNCHANGED <<aborted, gateVars, clock, callVars>>

ResumeAborted(c) ==
    /\ NextResumed(c)
    /\ aborted[c]
    /\ Release(c)
    /\ UNCHANGED <<aborted, paceVars, clock, callVars, started>>

\* The sleep's timer: at its deadline or any time after it.
Wake(c) ==
    /\ pc[c] = "pacing"
    /\ clock >= startAt[c]
    /\ pc' = [pc EXCEPT ![c] = "calling"]
    /\ started' = started \cup {slot[c]}
    /\ UNCHANGED <<aborted, gateVars, paceVars, clock, callVars>>

\* The model call settles, with a result or an error.
Settle(c) ==
    /\ pc[c] = "calling"
    /\ Release(c)
    /\ UNCHANGED <<aborted, paceVars, clock, callVars, started>>

\* The finally block of a call whose sleep was aborted.
Leave(c) ==
    /\ pc[c] = "leaving"
    /\ Release(c)
    /\ UNCHANGED <<aborted, paceVars, clock, callVars, started>>

(***************************************************************************)
(* The request's signal aborts.  A queued call takes itself out of the     *)
(* queue and rejects; a sleeping one wakes up; a granted one only finds    *)
(* out when it runs; a model call settles when the model decides to.       *)
(***************************************************************************)
InLine(c) == \E i \in DOMAIN waiting : waiting[i] = c
Place(c) == CHOOSE i \in DOMAIN waiting : waiting[i] = c
Dequeued_Tail(c) == SubSeq(waiting, 1, Place(c) - 1)
Dequeued(c) ==
    SubSeq(waiting, 1, Place(c) - 1) \o SubSeq(waiting, Place(c) + 1, Len(waiting))

Abort(c) ==
    /\ pc[c] # "idle"
    /\ ~aborted[c]
    /\ aborted' = [aborted EXCEPT ![c] = TRUE]
    /\ \/ /\ InLine(c)
          /\ waiting' = Dequeued(c)
          /\ pc' = [pc EXCEPT ![c] = "idle"]
       \/ /\ ~InLine(c)
          /\ pc' = [pc EXCEPT ![c] = IF @ = "pacing" THEN "leaving" ELSE @]
          /\ UNCHANGED waiting
    /\ UNCHANGED <<active, paceVars, clock, callVars, started>>

Tick ==
    /\ clock < MaxTime \/ \E c \in Caller : pc[c] = "pacing" /\ clock < startAt[c]
    /\ clock' = clock + 1
    /\ UNCHANGED <<pc, aborted, gateVars, paceVars, callVars, started>>

\* lastStart starts at minus infinity: the first call never waits.
Init ==
    /\ pc = [c \in Caller |-> "idle"]
    /\ aborted = [c \in Caller |-> FALSE]
    /\ active = 0
    /\ waiting = <<>>
    /\ lastStart = -MinInterval
    /\ startAt = [c \in Caller |-> 0]
    /\ clock = 0
    /\ calls = 0
    /\ ticket = [c \in Caller |-> 0]
    /\ reserved = 0
    /\ slot = [c \in Caller |-> 0]
    /\ started = {}
    /\ firstAt = 0

Progress(c) == Resume(c) \/ ResumeAborted(c) \/ Wake(c) \/ Settle(c) \/ Leave(c)

Next ==
    \/ \E c \in Caller : Enter(c) \/ Progress(c) \/ Abort(c)
    \/ Tick

Spec == Init /\ [][Next]_vars

-----------------------------------------------------------------------------
(***************************************************************************)
(* Properties.                                                             *)
(***************************************************************************)
\* Every variable holds a value of its type; the permits never exceed the cap.
TypeOK ==
    /\ pc \in [Caller -> PC]
    /\ aborted \in [Caller -> BOOLEAN]
    /\ active \in 0 .. Concurrency
    /\ waiting \in Seq(Caller)
    /\ lastStart \in Int
    /\ startAt \in [Caller -> Nat]
    /\ clock \in Nat
    /\ calls \in Nat
    /\ ticket \in [Caller -> Nat]
    /\ reserved \in Nat
    /\ slot \in [Caller -> Nat]
    /\ started \subseteq Nat
    /\ firstAt \in Nat

\* The permits taken are exactly those of the calls that hold one: none is lost
\* or counted twice, whatever mix of settles, aborts and handovers happens.  With
\* TypeOK: never more than Concurrency calls are in flight.
PermitsBalance == active = Cardinality(Holders)

\* No call waits while a permit is free: every abort of a waiter, before or after
\* its grant, and every failed call passes the permit on.
NoIdlePermit == waiting # <<>> => active = Concurrency

\* The queue holds each queued call once, and nobody else.
QueueIsExact ==
    /\ {waiting[i] : i \in DOMAIN waiting} = {c \in Caller : pc[c] = "queued"}
    /\ \A i, j \in DOMAIN waiting : waiting[i] = waiting[j] => i = j

\* Nobody overtakes a queued call: a call that has a permit asked before it did.
NoOvertaking ==
    \A c, d \in Caller : pc[c] = "queued" /\ d \in Holders => ticket[d] < ticket[c]

\* The pace: by any time t, at most 1 + (t - first) / MinInterval model calls
\* have started, however many callers slept at once and however late timers are.
PaceKept ==
    started # {} => (Cardinality(started) - 1) * MinInterval <= clock - firstAt

\* The limiter keeps its books: permits, queue, order and pace agree with the calls.
GateSafety ==
    /\ TypeOK
    /\ PermitsBalance
    /\ NoIdlePermit
    /\ QueueIsExact
    /\ NoOvertaking
    /\ PaceKept

(***************************************************************************)
(* Liveness.  The event loop runs continuations and due timers, and the    *)
(* model settles every call (its own deadline sees to that).               *)
(***************************************************************************)
Fairness == WF_vars(Tick) /\ \A c \in Caller : WF_vars(Progress(c))
FairSpec == Spec /\ Fairness

\* Every queued call leaves the queue, with a permit or by its own abort: no
\* waiter is stranded by calls that abort or fail in front of it.
WaitersServed == \A c \in Caller : (pc[c] = "queued") ~> (pc[c] # "queued")
=============================================================================
