------------------------------- MODULE RunStream --------------------------------
(***************************************************************************)
(* RunStream (packages/core/src/events.ts), the handle world.run()         *)
(* returns: a buffer of events, and iterators that drain it and then park  *)
(* a notifier until the next emit or the settlement wakes them.            *)
(* X_Variant is X with a plausible defect; nothing uses it.                *)
(***************************************************************************)
EXTENDS Naturals, Sequences, FiniteSets

CONSTANTS
    Event,   \* run events
    Reader   \* iterators

VARIABLES
    events,
    settled,    \* "open", or "ok" and "rejected" once resolve or reject was called
    notifiers,  \* the iterators that wait
    at,         \* at[r]: the iterator's position
    reader      \* "running", "parked", "ok" or "rejected"

streamVars == <<events, settled, notifiers, at, reader>>
readerVars == <<notifiers, at, reader>>

StreamTypeOK ==
    /\ events \in Seq(Event)
    /\ settled \in {"open", "ok", "rejected"}
    /\ notifiers \subseteq Reader
    /\ at \in [Reader -> Nat]
    /\ reader \in [Reader -> {"running", "parked", "ok", "rejected"}]

StreamInit ==
    /\ events = <<>>
    /\ settled = "open"
    /\ notifiers = {}
    /\ at = [r \in Reader |-> 0]
    /\ reader = [r \in Reader |-> "running"]

-----------------------------------------------------------------------------
(* The run's side.  One turn of the program may emit several events.       *)

Wake ==
    /\ notifiers' = {}
    /\ reader' = [r \in Reader |-> IF r \in notifiers THEN "running" ELSE reader[r]]
    /\ UNCHANGED at

Emit(s) ==
    /\ events' = events \o s
    /\ Wake
    /\ UNCHANGED settled

\* resolve and reject; run:end is emitted in the same turn.
Settle_Silent(s, how) ==
    /\ events' = events \o s
    /\ settled' = how
    /\ IF s = <<>> THEN UNCHANGED readerVars ELSE Wake
Settle(s, how) ==
    /\ events' = events \o s
    /\ settled' = how
    /\ Wake

-----------------------------------------------------------------------------
(* An iterator.  It reads from the run's start whenever it begins: one that *)
(* begins late is one that takes its first step late.                       *)

Yield(r) ==
    /\ reader[r] = "running" /\ at[r] < Len(events)
    /\ at' = [at EXCEPT ![r] = @ + 1]
    /\ UNCHANGED <<events, settled, notifiers, reader>>

Finish_Early(r) ==
    /\ reader[r] = "running" /\ settled # "open"
    /\ reader' = [reader EXCEPT ![r] = settled]
    /\ UNCHANGED <<events, settled, notifiers, at>>
Finish(r) ==
    /\ reader[r] = "running" /\ at[r] = Len(events) /\ settled # "open"
    /\ reader' = [reader EXCEPT ![r] = settled]
    /\ UNCHANGED <<events, settled, notifiers, at>>

Park(r) ==
    /\ reader[r] = "running" /\ at[r] = Len(events) /\ settled = "open"
    /\ reader' = [reader EXCEPT ![r] = "parked"]
    /\ notifiers' = notifiers \cup {r}
    /\ UNCHANGED <<events, settled, at>>

Iterate(r) == Yield(r) \/ Finish(r) \/ Park(r)

\* What the loop of one run and its iterators do to the stream: nothing is
\* emitted once the run has settled.
StreamNext ==
    \/ /\ settled = "open"
       /\ \E s \in Seq(Event) : Emit(s) \/ \E how \in {"ok", "rejected"} : Settle(s, how)
    \/ \E r \in Reader : Iterate(r)

StreamSpec == StreamInit /\ [][StreamNext]_streamVars

-----------------------------------------------------------------------------
(* The events an iterator was given are the buffer's first at[r] ones.      *)

Log == INSTANCE EventLog WITH
    log <- events,
    outcome <- settled,
    got <- at,
    left <- [r \in Reader |-> IF reader[r] \in {"ok", "rejected"} THEN reader[r] ELSE "open"]

\* Every iterator sees every event once, in order, and leaves with the run's
\* outcome after the last: the run's handle implements the event log.
StreamIsLog == Log!Spec

\* A parked iterator is always registered for the next wake-up, and none is
\* left behind by the settlement.
NoLostWakeup ==
    /\ notifiers = {r \in Reader : reader[r] = "parked"}
    /\ settled # "open" => notifiers = {}

\* An iterator whose consumer keeps asking ends once the run has settled.
ReadersEnd ==
    \A r \in Reader : settled # "open" ~> reader[r] \in {"ok", "rejected"}
=================================================================================
