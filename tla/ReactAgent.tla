----------------------------- MODULE ReactAgent -----------------------------
(***************************************************************************)
(* The stdlib chat agent (packages/stdlib): one entity, the systems        *)
(* callLLM, toolApproval, executeTools and retry, and the application that *)
(* sends messages, answers approvals, cancels, un-cancels and restarts.    *)
(*                                                                         *)
(* The engine is World's, for one entity: systems run when they match and  *)
(* are dirty, read the state their step started from, and take effect      *)
(* together at the barrier.  Nothing they do is visible before it except   *)
(* what a tool does outside the world, which a crash cannot take back.     *)
(*                                                                         *)
(* A definition named X_Variant right before X is what X would be with a   *)
(* plausible defect.  No action uses it: it is put in the place of X to    *)
(* see that a property would catch the defect.                             *)
(***************************************************************************)
EXTENDS Integers, Sequences, FiniteSets

CONSTANTS
    HasPolicy,      \* TRUE: the agent has a RetryPolicy
    RetryMax,       \* RetryPolicy.max
    Limit,          \* step cap of a run (recursionLimit)
    Careful,        \* TRUE: the application starts nothing new while a turn is open
    MayCrash,       \* TRUE: the process may die, and a new one load the last save
    MaxReplies,     \* bound: model replies
    MaxSends,       \* bound: user messages
    MaxFailures     \* bound: model calls that fail

ASSUME ReactAssumption ==
    /\ HasPolicy \in BOOLEAN /\ Careful \in BOOLEAN /\ MayCrash \in BOOLEAN
    /\ RetryMax \in Nat /\ Limit \in Nat
    /\ MaxReplies \in Nat /\ MaxSends \in Nat /\ MaxFailures \in Nat

VARIABLES
    agent,          \* committed components of the entity
    dirt,           \* systems pending on it
    phase,          \* where the run loop stands
    steps,          \* steps of this run
    cancelSeen,     \* this run's signal is aborted
    pendingCancel,  \* a cancellation still to be stamped
    status,         \* result of the last run
    saved,          \* what a new process would load
    replies,        \* history: model replies so far, which name the tool calls
    sends,          \* history: user messages
    failures,       \* history: model calls that failed
    inARow,         \* history: model calls that failed in this run since one worked
    approved,       \* history: calls a human said yes to
    executed,       \* history: calls whose tool ran
    blind           \* history: those that ran on a yes to no question

runVars == <<phase, steps, cancelSeen, pendingCancel, status>>
bounds == <<replies, sends, failures>>
effects == <<approved, executed, blind>>
vars == <<agent, dirt, runVars, saved, bounds, inARow, effects>>

(***************************************************************************)
(* A tool call is named by the reply that asked for it and by whether its  *)
(* tool needs approval.  A reply may ask for one of each, for one, or for  *)
(* none: then it is the answer.                                            *)
(***************************************************************************)
Kind == {"safe", "sensitive"}
Call == (1 .. MaxReplies) \X Kind
ApprovalNeeded(calls) == {x \in calls : x[2] = "sensitive"}

\* One message, or all the tool messages one execution appends: the calls an
\* assistant message requests, or those the tool messages answer.
Message == [role : {"user", "assistant", "tool"}, calls : SUBSET Call]
User == [role |-> "user", calls |-> {}]

System == {"callLLM", "toolApproval", "executeTools", "retry"}
\* The HumanResponse.  "unasked" is a yes like any other to the systems: it was
\* given when no question was open.
Response == {"none", "yes", "no", "unasked"}
Components == [msgs : Seq(Message), waiting : BOOLEAN, pending : SUBSET Call,
               asked : SUBSET Call, response : Response,
               errors : Nat, cancelled : BOOLEAN]

(***************************************************************************)
(* The queries.  ModelRef and Tools are always there; {} is an absent      *)
(* PendingToolCalls or AwaitingHuman, 0 an absent SystemError.             *)
(***************************************************************************)
Matches(s, a) ==
    /\ ~a.cancelled
    /\ s = "callLLM" => a.waiting
    /\ s = "toolApproval" => a.pending # {}
    /\ s = "executeTools" => a.pending # {} /\ a.asked = {}
    /\ s = "retry" => HasPolicy /\ a.errors > 0

\* Changes of which components wake a system that matches.
Inputs == [callLLM |-> {"msgs", "waiting"}, toolApproval |-> {"pending"},
           executeTools |-> {"pending"}, retry |-> {"errors"}]

\* The `when` guards.
Guard(s, a) ==
    /\ s = "callLLM" => a.msgs # <<>>
    /\ s = "toolApproval" =>
          a.asked = {} /\ a.response = "none" /\ ApprovalNeeded(a.pending) # {}
    /\ s = "executeTools" => ApprovalNeeded(a.pending) = {} \/ a.response # "none"

Candidates == {s \in dirt : Matches(s, agent)}
Scheduled == {s \in Candidates : Guard(s, agent)}

(***************************************************************************)
(* Committing component state: a system becomes dirty when it newly        *)
(* matches, or when another writer changed one of its inputs.  `changes`   *)
(* is a set of pairs <<component, writer>>.                                *)
(***************************************************************************)
Woken(old, new, changes) ==
    {s \in System : /\ Matches(s, new)
                    /\ \/ ~Matches(s, old)
                       \/ \E ch \in changes : ch[1] \in Inputs[s] /\ ch[2] # s}

Commit(new, changes, base) ==
    /\ agent' = new
    /\ dirt' = base \cup Woken(agent, new, changes)

(***************************************************************************)
(* The application.  send, resume and run are legal only while idle.       *)
(***************************************************************************)
\* Nothing of an earlier turn is open: no call waits for a tool or a human, and
\* the last run stopped because nothing was left to do.
TurnClosed == agent.pending = {} /\ agent.asked = {} /\ dirt = {}

BeginRun ==
    /\ phase' = "loop"
    /\ steps' = 0
    /\ cancelSeen' = FALSE
    /\ pendingCancel' = FALSE
    /\ inARow' = 0
    /\ UNCHANGED status

Send ==
    /\ phase = "idle"
    /\ sends < MaxSends
    /\ Careful => TurnClosed
    /\ sends' = sends + 1
    /\ Commit([agent EXCEPT !.msgs = Append(@, User), !.waiting = TRUE],
              {<<"msgs", "external">>, <<"waiting", "external">>}, dirt)
    /\ BeginRun
    /\ UNCHANGED <<saved, replies, failures, effects>>

\* The answer covers what world.pending() listed; nothing keeps the application
\* from resuming when that is nothing, or from resuming twice.
Given(answer) == IF answer = "yes" /\ agent.asked = {} THEN "unasked" ELSE answer
Resume(answer) ==
    /\ phase = "idle"
    /\ Commit([agent EXCEPT !.asked = {}, !.response = Given(answer)], {}, dirt)
    /\ approved' = IF answer = "yes" THEN approved \cup agent.asked ELSE approved
    /\ BeginRun
    /\ UNCHANGED <<saved, bounds, executed, blind>>

RunAgain ==
    /\ phase = "idle"
    /\ BeginRun
    /\ UNCHANGED <<agent, dirt, saved, bounds, effects>>

CancelIdle ==
    /\ phase = "idle"
    /\ Commit([agent EXCEPT !.cancelled = TRUE], {}, dirt)
    /\ UNCHANGED <<runVars, saved, bounds, inARow, effects>>

CancelMidRun ==
    /\ phase # "idle"
    /\ cancelSeen' = TRUE
    /\ pendingCancel' = TRUE
    /\ UNCHANGED <<agent, dirt, phase, steps, status, saved, bounds, inARow, effects>>

\* "Remove the Cancelled component from the entities to un-cancel the world."
Uncancel ==
    /\ phase = "idle"
    /\ agent.cancelled
    /\ Careful => agent.pending = {} /\ agent.asked = {} /\ agent.errors = 0
    /\ Commit([agent EXCEPT !.cancelled = FALSE], {}, dirt)
    /\ UNCHANGED <<runVars, saved, bounds, inARow, effects>>

(***************************************************************************)
(* The run loop.                                                           *)
(***************************************************************************)
Stamp ==
    /\ phase = "loop"
    /\ pendingCancel
    /\ pendingCancel' = FALSE
    /\ Commit([agent EXCEPT !.cancelled = TRUE], {}, dirt)
    /\ saved' = [agent |-> agent', dirt |-> dirt']
    /\ status' = "cancelled"
    /\ phase' = "idle"
    /\ UNCHANGED <<steps, cancelSeen, bounds, inARow, effects>>

StatusNow ==
    IF cancelSeen THEN "cancelled"
    ELSE IF steps = 0 THEN IF agent.cancelled THEN "cancelled" ELSE "idle"
    ELSE IF agent.errors > 0 THEN "error"
    ELSE IF agent.asked # {} THEN "pending"
    ELSE "done"

AtLimit == steps >= Limit

\* Nothing matched and dirty is left, or guards veto all of it; the run-end
\* save keeps what the application changed before the run as well.
Quiesce ==
    /\ phase = "loop"
    /\ ~pendingCancel
    /\ Scheduled = {}
    /\ ~AtLimit \/ Candidates = {}
    /\ dirt' = dirt \ Candidates
    /\ saved' = [agent |-> agent, dirt |-> dirt']
    /\ status' = StatusNow
    /\ phase' = "idle"
    /\ UNCHANGED <<agent, steps, cancelSeen, pendingCancel, bounds, inARow, effects>>

LimitBreak ==
    /\ phase = "loop"
    /\ ~pendingCancel
    /\ Candidates # {}
    /\ AtLimit
    /\ saved' = [agent |-> agent, dirt |-> dirt]
    /\ status' = IF cancelSeen THEN "cancelled" ELSE "limit"
    /\ phase' = "idle"
    /\ UNCHANGED <<agent, dirt, steps, cancelSeen, pendingCancel, bounds, inARow, effects>>

StepStart ==
    /\ phase = "loop"
    /\ ~pendingCancel
    /\ Scheduled # {}
    /\ ~AtLimit
    /\ phase' = "exec"
    /\ UNCHANGED <<agent, dirt, steps, cancelSeen, pendingCancel, status, saved,
                   bounds, inARow, effects>>

(***************************************************************************)
(* The bodies of a step and its barrier.  `llm` is how the model call ends *)
(* ("none" if callLLM was not scheduled), `kinds` what its reply asks for. *)
(***************************************************************************)
Possible(llm, kinds) ==
    /\ llm = "none" <=> "callLLM" \notin Scheduled
    /\ llm = "reply" => replies < MaxReplies
    /\ llm = "failed" => failures < MaxFailures
    /\ llm = "aborted" => cancelSeen
    /\ llm # "reply" => kinds = {}

\* The calls executeTools runs: a denial only stops those that need approval.
Permitted_All == agent.pending
Permitted == IF agent.response = "no"
             THEN agent.pending \ ApprovalNeeded(agent.pending) ELSE agent.pending
ToolsRun == "executeTools" \in Scheduled
Unasked(calls) == IF agent.response = "unasked" THEN calls ELSE {}
\* The calls it answers with a tool message: denied ones too.
Reported == agent.pending
\* The calls toolApproval shows to the human.
Shown == ApprovalNeeded(agent.pending)

\* The buffers replayed in registration order; executeTools comes after callLLM,
\* so its remove(PendingToolCalls) wins.
AfterStep(llm, calls) ==
    LET reply == IF llm = "reply" THEN <<[role |-> "assistant", calls |-> calls]>> ELSE <<>>
        results == IF ToolsRun THEN <<[role |-> "tool", calls |-> Reported]>> ELSE <<>>
    IN [msgs |-> agent.msgs \o reply \o results,
        waiting |-> agent.waiting /\ ~(llm = "reply" /\ calls = {}),
        pending |-> IF ToolsRun THEN {} ELSE IF calls # {} THEN calls ELSE agent.pending,
        asked |-> IF "toolApproval" \in Scheduled
                  THEN agent.asked \cup Shown ELSE agent.asked,
        response |-> IF ToolsRun THEN "none" ELSE agent.response,
        errors |-> IF llm = "failed" THEN agent.errors + 1
                   ELSE IF llm = "reply" THEN 0 ELSE agent.errors,
        cancelled |-> agent.cancelled]

Changes(llm, calls) ==
    (IF llm = "reply" THEN {<<"msgs", "callLLM">>} ELSE {})
    \cup (IF ToolsRun THEN {<<"msgs", "executeTools">>, <<"pending", "executeTools">>} ELSE {})
    \cup (IF calls # {} THEN {<<"pending", "callLLM">>} ELSE {})
    \cup (IF AfterStep(llm, calls).errors # agent.errors THEN {<<"errors", "engine">>} ELSE {})

\* retry re-arms callLLM while it has failed at most RetryMax times.
Rearmed_OffByOne ==
    IF "retry" \in Scheduled /\ agent.errors <= RetryMax + 1 THEN {"callLLM"} ELSE {}
Rearmed == IF "retry" \in Scheduled /\ agent.errors <= RetryMax THEN {"callLLM"} ELSE {}

\* An execution aborted by a cancellation keeps its dirt.
Consumed(llm) == IF llm = "aborted" THEN Candidates \ {"callLLM"} ELSE Candidates

Barrier(llm, kinds) ==
    /\ phase = "exec"
    /\ Possible(llm, kinds)
    /\ LET calls == {replies + 1} \X kinds
       IN Commit(AfterStep(llm, calls), Changes(llm, calls),
                 (dirt \ Consumed(llm)) \cup Rearmed)
    /\ replies' = IF llm = "reply" THEN replies + 1 ELSE replies
    /\ failures' = IF llm = "failed" THEN failures + 1 ELSE failures
    /\ inARow' = IF llm = "failed" THEN inARow + 1 ELSE IF llm = "reply" THEN 0 ELSE inARow
    /\ executed' = IF ToolsRun THEN executed \cup Permitted ELSE executed
    /\ blind' = IF ToolsRun THEN blind \cup Unasked(Permitted) ELSE blind
    /\ steps' = steps + 1
    /\ phase' = "saving"
    /\ UNCHANGED <<cancelSeen, pendingCancel, status, saved, sends, approved>>

\* The step's save resolves (saveEvery 'barrier').
Save ==
    /\ phase = "saving"
    /\ saved' = [agent |-> agent, dirt |-> dirt]
    /\ phase' = "loop"
    /\ UNCHANGED <<agent, dirt, steps, cancelSeen, pendingCancel, status, bounds,
                   inARow, effects>>

(***************************************************************************)
(* The process dies, possibly after some of a step's tools have run, and a *)
(* new one loads the last save.                                            *)
(***************************************************************************)
Crash(ran) ==
    /\ MayCrash
    /\ ran # {} => phase = "exec" /\ ToolsRun /\ ran \subseteq Permitted
    /\ agent' = saved.agent
    /\ dirt' = saved.dirt
    /\ phase' = "idle"
    /\ steps' = 0
    /\ cancelSeen' = FALSE
    /\ pendingCancel' = FALSE
    /\ status' = "none"
    /\ inARow' = 0
    /\ executed' = executed \cup ran
    /\ blind' = blind \cup Unasked(ran)
    /\ UNCHANGED <<saved, bounds, approved>>

NewAgent == [msgs |-> <<>>, waiting |-> FALSE, pending |-> {}, asked |-> {},
             response |-> "none", errors |-> 0, cancelled |-> FALSE]
Init ==
    /\ agent = NewAgent
    /\ dirt = {}
    /\ phase = "idle"
    /\ steps = 0
    /\ cancelSeen = FALSE
    /\ pendingCancel = FALSE
    /\ status = "none"
    /\ saved = [agent |-> NewAgent, dirt |-> {}]
    /\ replies = 0 /\ sends = 0 /\ failures = 0
    /\ inARow = 0
    /\ approved = {}
    /\ executed = {}
    /\ blind = {}

Application == Send \/ (\E answer \in {"yes", "no"} : Resume(answer)) \/ RunAgain
               \/ CancelIdle \/ CancelMidRun \/ Uncancel
Loop == Stamp \/ Quiesce \/ LimitBreak \/ StepStart \/ Save
Steps == \E llm \in {"none", "reply", "failed", "aborted"}, kinds \in SUBSET Kind :
            Barrier(llm, kinds)
Crashes == \E ran \in SUBSET agent.pending : Crash(ran)

Next == Application \/ Loop \/ Steps \/ Crashes

Spec == Init /\ [][Next]_vars

-----------------------------------------------------------------------------
(***************************************************************************)
(* Properties.                                                             *)
(***************************************************************************)
\* Every variable holds a value of its type.
TypeOK ==
    /\ agent \in Components
    /\ dirt \subseteq System
    /\ phase \in {"idle", "loop", "exec", "saving"}
    /\ steps \in 0 .. Limit
    /\ cancelSeen \in BOOLEAN
    /\ pendingCancel \in BOOLEAN
    /\ status \in {"none", "idle", "done", "error", "pending", "limit", "cancelled"}
    /\ saved \in [agent : Components, dirt : SUBSET System]
    /\ replies \in 0 .. MaxReplies
    /\ sends \in Nat /\ failures \in Nat /\ inARow \in Nat
    /\ approved \subseteq Call
    /\ executed \subseteq Call /\ blind \subseteq Call

\* A tool that needs approval runs only for a call a human was shown and said
\* yes to, whatever crashes, cancellations and retries come in between.  The one
\* exception is an answer the application gave to no question: the engine takes it,
\* and the next sensitive calls run on it without being shown (OnlyShownRun).
OnlyApprovedRun == ApprovalNeeded(executed) \subseteq approved \cup blind

\* The same without the exception, which is what the guides promise.  It does not
\* hold, for a careful application either, and is in no .cfg.
OnlyShownRun == ApprovalNeeded(executed) \subseteq approved

\* What the human is asked about is what waits to be executed.
QuestionIsCurrent == agent.asked # {} => agent.asked = ApprovalNeeded(agent.pending)

CallsOf(role, m) == {x \in Call : \E i \in DOMAIN m : m[i].role = role /\ x \in m[i].calls}
Requested(m) == CallsOf("assistant", m)
Answered(m) == CallsOf("tool", m)

\* The model is called only with a conversation in which every tool call it made
\* has been answered: providers reject any other.
RequestsAreComplete ==
    phase = "exec" /\ "callLLM" \in Scheduled
        => Requested(agent.msgs) \subseteq Answered(agent.msgs)

\* No call gets lost: each one the model made has its tool message or is waiting
\* to be executed, through denials, limits, cancellations and restarts.
NoCallLost == Requested(agent.msgs) \subseteq Answered(agent.msgs) \cup agent.pending

\* A run that stops on its own has delivered the answer, or a human or an error
\* record says what the turn is waiting for.
NoTurnStranded ==
    phase = "idle" /\ status \in {"done", "idle"} /\ ~agent.cancelled =>
        \/ ~agent.waiting /\ agent.pending = {}
        \/ agent.asked # {}
        \/ agent.errors > 0

\* A run retries a failing model call at most RetryMax times in a row.
RetriesBounded == inARow <= RetryMax + 1

\* The conversation, the human's question and the tools that ran agree at every
\* moment: no call is lost, sent open to the model, or run unapproved.
ChatSafety ==
    TypeOK /\ OnlyApprovedRun /\ QuestionIsCurrent /\ RequestsAreComplete /\ NoCallLost

\* A turn comes to an answer or to a recorded reason, after boundedly many tries.
TurnsAreAccountedFor == NoTurnStranded /\ RetriesBounded
=============================================================================
