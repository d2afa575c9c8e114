------------------------------ MODULE Workflows ------------------------------
(***************************************************************************)
(* The programs of examples/, each on the engine of module Workflow; the   *)
(* initial state chooses one.  What they promise differs from program to   *)
(* program (their Sound and Settled); that they come to rest, and that no  *)
(* two systems write one component at once, is asked of all.               *)
(***************************************************************************)
EXTENDS Integers

CONSTANTS
    MaxFailures,    \* bound: failed executions of a behaviour
    MaxSends        \* bound: external mutations of a behaviour

VARIABLES program, world, nextId, dirt, failed, sent, aborting, conflict

vars == <<program, world, nextId, dirt, failed, sent, aborting, conflict>>

Orders == INSTANCE OrderPipeline
Team == INSTANCE Supervisor
Board == INSTANCE ResearchTeam
Desk == INSTANCE SupportDesk
Crew == INSTANCE ReviewCrew
Content == INSTANCE ContentPipeline
Rag == INSTANCE RagQa
Essay == INSTANCE Reflection
Tools == INSTANCE ToolLoop
Jobs == INSTANCE JobWorker
Batch == INSTANCE ResearchBatch

Init ==
    \/ program = "order-pipeline" /\ Orders!Run!Init
    \/ program = "supervisor" /\ Team!Run!Init
    \/ program = "research-team" /\ Board!Run!Init
    \/ program = "support-desk" /\ Desk!Run!Init
    \/ program = "code-review-crew" /\ Crew!Run!Init
    \/ program = "content-pipeline" /\ Content!Run!Init
    \/ program = "rag-qa" /\ Rag!Run!Init
    \/ program = "reflection" /\ Essay!Run!Init
    \/ program = "tools-from-scratch" /\ Tools!Run!Init
    \/ program = "devtools-demo" /\ Jobs!Run!Init
    \/ program = "cancellation" /\ Batch!Run!Init

Step ==
    \/ program = "order-pipeline" /\ Orders!Run!Step
    \/ program = "supervisor" /\ Team!Run!Step
    \/ program = "research-team" /\ Board!Run!Step
    \/ program = "support-desk" /\ Desk!Run!Step
    \/ program = "code-review-crew" /\ Crew!Run!Step
    \/ program = "content-pipeline" /\ Content!Run!Step
    \/ program = "rag-qa" /\ Rag!Run!Step
    \/ program = "reflection" /\ Essay!Run!Step
    \/ program = "tools-from-scratch" /\ Tools!Run!Step
    \/ program = "devtools-demo" /\ Jobs!Run!Step
    \/ program = "cancellation" /\ Batch!Run!Step

Send ==
    \/ program = "supervisor" /\ Team!Run!Send
    \/ program = "research-team" /\ Board!Run!Send
    \/ program = "support-desk" /\ Desk!Run!Send
    \/ program = "code-review-crew" /\ Crew!Run!Send
    \/ program = "content-pipeline" /\ Content!Run!Send
    \/ program = "rag-qa" /\ Rag!Run!Send
    \/ program = "reflection" /\ Essay!Run!Send
    \/ program = "tools-from-scratch" /\ Tools!Run!Send
    \/ program = "devtools-demo" /\ Jobs!Run!Send
    \/ program = "cancellation" /\ Batch!Run!Send

\* Only the batch is cancelled; World models cancellation in full.
Cancel == program = "cancellation" /\ Batch!Run!CancelledStep
Stamp == program = "cancellation" /\ Batch!Run!Stamp

Next == (Step \/ Send \/ Cancel \/ Stamp) /\ UNCHANGED program

(***************************************************************************)
(* The engine's loop takes its next step, or stamps the cancellation, as   *)
(* long as there is one to take; callers owe nothing.                      *)
(***************************************************************************)
Spec == Init /\ [][Next]_vars /\ WF_vars((Step \/ Stamp) /\ UNCHANGED program)

AtRest ==
    \/ program = "order-pipeline" /\ Orders!Run!Quiet
    \/ program = "supervisor" /\ Team!Run!Quiet
    \/ program = "research-team" /\ Board!Run!Quiet
    \/ program = "support-desk" /\ Desk!Run!Quiet
    \/ program = "code-review-crew" /\ Crew!Run!Quiet
    \/ program = "content-pipeline" /\ Content!Run!Quiet
    \/ program = "rag-qa" /\ Rag!Run!Quiet
    \/ program = "reflection" /\ Essay!Run!Quiet
    \/ program = "tools-from-scratch" /\ Tools!Run!Quiet
    \/ program = "devtools-demo" /\ Jobs!Run!Quiet
    \/ program = "cancellation" /\ Batch!Run!Quiet

(***************************************************************************)
(* What each program keeps true at every barrier (its Sound): work fanned  *)
(* out is accounted for, stages come in order, loops keep their turns,     *)
(* the brake reaches every spender.  And no step has two systems write one *)
(* component of one entity without a reducer: the barrier would reject it. *)
(***************************************************************************)
StagesHold ==
    /\ ~conflict
    /\ program = "order-pipeline" => Orders!Sound
    /\ program = "supervisor" => Team!Sound
    /\ program = "research-team" => Board!Sound
    /\ program = "support-desk" => Desk!Sound
    /\ program = "code-review-crew" => Crew!Sound
    /\ program = "content-pipeline" => Content!Sound
    /\ program = "rag-qa" => Rag!Sound
    /\ program = "reflection" => Essay!Sound
    /\ program = "tools-from-scratch" => Tools!Sound
    /\ program = "devtools-demo" => Jobs!Sound
    /\ program = "cancellation" => Batch!Sound

(***************************************************************************)
(* What each program leaves when it rests (its Settled): the answer, a     *)
(* recorded reason why there is none, or the one way it has of staying     *)
(* without either -- an outline or a plan without sections, a ticket of no *)
(* lane, jobs behind the one that ran.  A second question to rag-qa counts *)
(* as answered by the answer to the first.                                 *)
(***************************************************************************)
RestIsAnswered ==
    /\ program = "order-pipeline" /\ Orders!Run!Quiet => Orders!Settled
    /\ program = "supervisor" /\ Team!Run!Quiet => Team!Settled
    /\ program = "research-team" /\ Board!Run!Quiet => Board!Settled
    /\ program = "support-desk" /\ Desk!Run!Quiet => Desk!Settled
    /\ program = "code-review-crew" /\ Crew!Run!Quiet => Crew!Settled
    /\ program = "content-pipeline" /\ Content!Run!Quiet => Content!Settled
    /\ program = "rag-qa" /\ Rag!Run!Quiet => Rag!Settled
    /\ program = "reflection" /\ Essay!Run!Quiet => Essay!Settled
    /\ program = "tools-from-scratch" /\ Tools!Run!Quiet => Tools!Settled
    /\ program = "devtools-demo" /\ Jobs!Run!Quiet => Jobs!Settled
    /\ program = "cancellation" /\ Batch!Run!Quiet => Batch!Settled

(***************************************************************************)
(* Systems that wake each other come to rest: no program spins.            *)
(***************************************************************************)
ComesToRest == []<>AtRest
=============================================================================
