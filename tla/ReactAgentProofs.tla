-------------------------- MODULE ReactAgentProofs --------------------------
(***************************************************************************)
(* Proofs about ReactAgent, for every retry policy, step cap and bound,    *)
(* and an application that lets a turn close before it starts another.     *)
(* Then those about ContextWindow: they hold of any conversation and any   *)
(* estimate of costs.  At the end both, composed by AgentWindow.           *)
(***************************************************************************)
EXTENDS AgentWindow, WellFoundedInduction, FiniteSetTheorems, TLAPS

(***************************************************************************)
(* The invariant.  It speaks of a committed state and its pending systems, *)
(* those in memory and those last saved, since a crash replaces the former *)
(* by the latter.  Its heart is that callLLM and the tool systems are      *)
(* never pending on the same entity at the same time.                      *)
(***************************************************************************)
Sound(a, d) ==
    /\ a.asked # {} => a.asked = ApprovalNeeded(a.pending)
    /\ a.response = "yes" => a.pending # {}
    /\ a.errors > 0 => a.pending = {}
    /\ "callLLM" \in d => a.pending = {} /\ "retry" \notin d
    /\ "retry" \in d => a.errors > 0
    /\ Requested(a.msgs) \subseteq Answered(a.msgs) \cup a.pending
Agreed(a) == a.response = "yes" => ApprovalNeeded(a.pending) \subseteq approved

ReactInv ==
    /\ Sound(agent, dirt) /\ Agreed(agent)
    /\ Sound(saved.agent, saved.dirt) /\ Agreed(saved.agent)
    /\ OnlyApprovedRun

(***************************************************************************)
(* Conversations.                                                          *)
(***************************************************************************)
\* Appending a message adds its calls to those requested or answered.
LEMMA Extended ==
    ASSUME NEW m \in Seq(Message), NEW x \in Message
    PROVE  /\ m \o <<x>> \in Seq(Message)
           /\ Requested(m \o <<x>>) =
                Requested(m) \cup (IF x.role = "assistant" THEN x.calls ELSE {})
           /\ Answered(m \o <<x>>) =
                Answered(m) \cup (IF x.role = "tool" THEN x.calls ELSE {})
<1> DEFINE n == Len(m)
           longer == m \o <<x>>
<1>1. /\ n \in Nat /\ DOMAIN m = 1 .. n /\ longer \in Seq(Message)
      /\ DOMAIN longer = 1 .. n + 1 /\ longer[n + 1] = x
      /\ \A i \in 1 .. n : longer[i] = m[i]
  OBVIOUS
<1> HIDE DEF longer, n
<1>2. ASSUME NEW role \in {"assistant", "tool"}
      PROVE  CallsOf(role, longer) =
               CallsOf(role, m) \cup (IF x.role = role THEN x.calls ELSE {})
  <2> DEFINE own == IF x.role = role THEN x.calls ELSE {}
  <2>0. x.calls \in SUBSET Call
    BY DEF Message
  <2>1. ASSUME NEW z \in CallsOf(role, longer) PROVE z \in CallsOf(role, m) \cup own
    <3>1. PICK i \in DOMAIN longer : longer[i].role = role /\ z \in longer[i].calls
      BY DEF CallsOf
    <3>2. CASE i = n + 1
      BY <3>1, <3>2, <1>1
    <3>3. CASE i # n + 1
      BY <3>1, <3>3, <1>1 DEF CallsOf
    <3> QED
      BY <3>2, <3>3
  <2>2. ASSUME NEW z \in CallsOf(role, m) PROVE z \in CallsOf(role, longer)
    BY <1>1 DEF CallsOf
  <2>3. ASSUME NEW z \in own PROVE z \in CallsOf(role, longer)
    <3>1. n + 1 \in DOMAIN longer /\ longer[n + 1].role = role /\ z \in longer[n + 1].calls
      BY <1>1
    <3> QED
      BY <2>0, <3>1 DEF CallsOf
  <2> QED
    BY <2>1, <2>2, <2>3
<1> QED
  BY <1>1, <1>2 DEF longer, Requested, Answered

(***************************************************************************)
(* Types.                                                                  *)
(***************************************************************************)
Typed == TypeOK /\ (phase = "exec" => steps < Limit)

LEMMA CommitType ==
    ASSUME NEW new \in Components, NEW changes, NEW base \in SUBSET System,
           Commit(new, changes, base)
    PROVE  agent' \in Components /\ dirt' \in SUBSET System
BY DEF Commit, Woken

LEMMA NewAgentType == NewAgent \in Components
BY DEF NewAgent, Components, Response

\* What a step leaves is an entity again.
LEMMA AfterStepType ==
    ASSUME Typed, NEW llm \in {"none", "reply", "failed", "aborted"}, NEW kinds \in SUBSET Kind,
           Possible(llm, kinds)
    PROVE  /\ {replies + 1} \X kinds \in SUBSET Call
           /\ AfterStep(llm, {replies + 1} \X kinds) \in Components
<1> DEFINE calls == {replies + 1} \X kinds
           reply == IF llm = "reply" THEN <<[role |-> "assistant", calls |-> calls]>> ELSE <<>>
           results == IF ToolsRun THEN <<[role |-> "tool", calls |-> Reported]>> ELSE <<>>
<1> USE ReactAssumption
<1>1. agent \in Components /\ replies \in 0 .. MaxReplies
  BY DEF Typed, TypeOK
<1>2. calls \in SUBSET Call
  <2>1. CASE llm = "reply"
    BY <2>1, <1>1 DEF Possible, Call
  <2>2. CASE llm # "reply"
    BY <2>2 DEF Possible
  <2> QED
    BY <2>1, <2>2
<1>3. /\ agent.msgs \in Seq(Message) /\ agent.waiting \in BOOLEAN /\ agent.pending \in SUBSET Call
      /\ agent.asked \in SUBSET Call /\ agent.response \in Response
      /\ agent.errors \in Nat /\ agent.cancelled \in BOOLEAN
  BY <1>1 DEF Components
<1>4. reply \in Seq(Message)
  <2>1. [role |-> "assistant", calls |-> calls] \in Message
    BY <1>2 DEF Message
  <2> HIDE DEF calls
  <2> QED
    BY <2>1
<1>5. results \in Seq(Message)
  <2>1. [role |-> "tool", calls |-> Reported] \in Message
    BY <1>3 DEF Message, Reported
  <2> QED
    BY <2>1
<1> HIDE DEF calls, reply, results
<1>6. agent.msgs \o reply \o results \in Seq(Message)
  BY <1>3, <1>4, <1>5
<1>7. Shown \in SUBSET Call
  BY <1>3 DEF Shown, ApprovalNeeded
<1>8. AfterStep(llm, calls) =
        [msgs |-> agent.msgs \o reply \o results,
         waiting |-> agent.waiting /\ ~(llm = "reply" /\ calls = {}),
         pending |-> IF ToolsRun THEN {} ELSE IF calls # {} THEN calls ELSE agent.pending,
         asked |-> IF "toolApproval" \in Scheduled THEN agent.asked \cup Shown ELSE agent.asked,
         response |-> IF ToolsRun THEN "none" ELSE agent.response,
         errors |-> IF llm = "failed" THEN agent.errors + 1
                    ELSE IF llm = "reply" THEN 0 ELSE agent.errors,
         cancelled |-> agent.cancelled]
  BY DEF AfterStep, reply, results
<1>9. (agent.waiting /\ ~(llm = "reply" /\ calls = {})) \in BOOLEAN
  OBVIOUS
<1>10. AfterStep(llm, calls) \in Components
  BY <1>2, <1>3, <1>6, <1>7, <1>8, <1>9 DEF Components, Response
<1> QED
  BY <1>2, <1>10 DEF calls

LEMMA TypedStep ==
    ASSUME Typed, [Next]_vars
    PROVE  Typed'
<1> USE ReactAssumption DEF Typed, TypeOK, runVars, bounds, effects
<1>0. /\ agent \in Components /\ dirt \in SUBSET System
      /\ agent.msgs \in Seq(Message) /\ agent.waiting \in BOOLEAN
      /\ agent.pending \in SUBSET Call /\ agent.asked \in SUBSET Call
      /\ agent.response \in Response
      /\ agent.errors \in Nat /\ agent.cancelled \in BOOLEAN
  BY DEF Components
<1>b. ASSUME BeginRun
      PROVE  /\ steps' \in 0 .. Limit /\ phase' = "loop" /\ cancelSeen' \in BOOLEAN
             /\ pendingCancel' \in BOOLEAN /\ inARow' \in Nat /\ UNCHANGED status
  <2>1. steps' \in 0 .. Limit
    BY <1>b DEF BeginRun
  <2> QED
    BY <1>b, <2>1 DEF BeginRun
<1>1. CASE UNCHANGED vars
  BY <1>1 DEF vars
<1>2. CASE Send
  <2> DEFINE new == [agent EXCEPT !.msgs = Append(@, User), !.waiting = TRUE]
  <2>1. new \in Components
    <3>1. User \in Message
      BY DEF User, Message
    <3>2. Append(agent.msgs, User) \in Seq(Message)
      BY <1>0, <3>1
    <3> QED
      BY <3>2 DEF Components
  <2> HIDE DEF new
  <2>2. agent' \in Components /\ dirt' \in SUBSET System
    BY <1>0, <1>2, <2>1, CommitType DEF Send, new
  <2> QED
    BY <1>2, <1>b, <2>2 DEF Send
<1>3. ASSUME NEW answer \in {"yes", "no"}, Resume(answer)
      PROVE  Typed'
  <2> DEFINE new == [agent EXCEPT !.asked = {}, !.response = Given(answer)]
  <2>1. new \in Components
    <3>1. Given(answer) \in Response
      BY DEF Given, Response
    <3> QED
      BY <3>1 DEF Components
  <2> HIDE DEF new
  <2>2. agent' \in Components /\ dirt' \in SUBSET System
    BY <1>0, <1>3, <2>1, CommitType DEF Resume, new
  <2>3. approved' \in SUBSET Call
    BY <1>0, <1>3 DEF Resume
  <2> QED
    BY <1>3, <1>b, <2>2, <2>3 DEF Resume
<1>4. CASE RunAgain
  BY <1>4, <1>b DEF RunAgain
<1>5. ASSUME NEW flag \in BOOLEAN, Commit([agent EXCEPT !.cancelled = flag], {}, dirt)
      PROVE  agent' \in Components /\ dirt' \in SUBSET System
  <2> DEFINE new == [agent EXCEPT !.cancelled = flag]
  <2>1. new \in Components
    BY DEF Components
  <2> HIDE DEF new
  <2> QED
    BY <1>0, <1>5, <2>1, CommitType DEF new
<1>6. CASE CancelIdle
  BY <1>5, <1>6 DEF CancelIdle
<1>7. CASE CancelMidRun
  BY <1>7 DEF CancelMidRun
<1>8. CASE Uncancel
  BY <1>5, <1>8 DEF Uncancel
<1>9. CASE Stamp
  BY <1>5, <1>9 DEF Stamp
<1>10. CASE Quiesce
  <2>1. StatusNow \in {"none", "idle", "done", "error", "pending", "limit", "cancelled"}
    BY DEF StatusNow
  <2> QED
    BY <1>10, <2>1 DEF Quiesce
<1>11. CASE LimitBreak
  BY <1>11 DEF LimitBreak
<1>12. CASE StepStart
  BY <1>12 DEF StepStart, AtLimit
<1>13. CASE Save
  BY <1>13 DEF Save
<1>14. ASSUME NEW llm \in {"none", "reply", "failed", "aborted"}, NEW kinds \in SUBSET Kind,
              Barrier(llm, kinds)
       PROVE  Typed'
  <2> DEFINE calls == {replies + 1} \X kinds
             base == (dirt \ Consumed(llm)) \cup Rearmed
  <2>1. AfterStep(llm, calls) \in Components
    BY <1>14, AfterStepType DEF Barrier
  <2>2. base \in SUBSET System
    BY <1>0 DEF Rearmed, System
  <2> HIDE DEF calls, base
  <2>3. agent' \in Components /\ dirt' \in SUBSET System
    BY <1>14, <2>1, <2>2, CommitType DEF Barrier, calls, base
  <2>4. executed' \in SUBSET Call /\ blind' \in SUBSET Call
    BY <1>0, <1>14 DEF Barrier, Permitted, Unasked
  <2>5. /\ replies' \in 0 .. MaxReplies /\ failures' \in Nat /\ inARow' \in Nat
        /\ steps' \in 0 .. Limit /\ phase' = "saving"
    BY <1>14 DEF Barrier, Possible
  <2> QED
    BY <1>14, <2>3, <2>4, <2>5 DEF Barrier
<1>15. ASSUME NEW ran \in SUBSET agent.pending, Crash(ran)
       PROVE  Typed'
  <2>1. steps' \in 0 .. Limit /\ phase' = "idle"
    BY <1>15 DEF Crash
  <2>2. /\ agent' \in Components /\ dirt' \in SUBSET System /\ executed' \in SUBSET Call
        /\ blind' \in SUBSET Call
    BY <1>0, <1>15 DEF Crash, Unasked
  <2>3. cancelSeen' \in BOOLEAN /\ pendingCancel' \in BOOLEAN /\ status' = "none" /\ inARow' \in Nat
    BY <1>15 DEF Crash
  <2> QED
    BY <1>15, <2>1, <2>2, <2>3 DEF Crash
<1> QED
  BY <1>1, <1>2, <1>3, <1>4, <1>6, <1>7, <1>8, <1>9, <1>10, <1>11, <1>12, <1>13, <1>14, <1>15
     DEF Next, Application, Loop, Steps, Crashes

LEMMA InitTyped ==
    ASSUME Init
    PROVE  Typed
<1>1. agent \in Components /\ dirt \subseteq System /\ saved \in [agent : Components, dirt : SUBSET System]
  BY NewAgentType DEF Init
<1>2. steps \in 0 .. Limit /\ replies \in 0 .. MaxReplies /\ phase = "idle"
  BY ReactAssumption DEF Init
<1>3. /\ cancelSeen \in BOOLEAN /\ pendingCancel \in BOOLEAN /\ status = "none"
      /\ sends \in Nat /\ failures \in Nat /\ inARow \in Nat
      /\ approved \subseteq Call /\ executed \subseteq Call /\ blind \subseteq Call
  BY DEF Init
<1> QED
  BY <1>1, <1>2, <1>3 DEF Typed, TypeOK

\* Every variable keeps its type.
THEOREM AgentTyped == Spec => []TypeOK
<1>1. Typed => TypeOK
  BY DEF Typed
<1> QED
  BY <1>1, InitTyped, TypedStep, PTL DEF Spec

(***************************************************************************)
(* Approvals and calls.                                                    *)
(***************************************************************************)
\* What waking callLLM or retry takes.
LEMMA Wakes ==
    ASSUME NEW old, NEW new, NEW changes
    PROVE  /\ "callLLM" \in Woken(old, new, changes) =>
                \/ ~Matches("callLLM", old)
                \/ \E ch \in changes : ch[1] \in {"msgs", "waiting"} /\ ch[2] # "callLLM"
           /\ "retry" \in Woken(old, new, changes) =>
                /\ Matches("retry", new)
                /\ ~Matches("retry", old) \/ \E ch \in changes : ch[1] = "errors"
<1>1. Inputs["callLLM"] = {"msgs", "waiting"} /\ Inputs["retry"] = {"errors"}
  BY DEF Inputs
<1> QED
  BY <1>1 DEF Woken

\* A step in which the model is called: no tool system runs beside it.
LEMMA ModelStep ==
    ASSUME Typed, Sound(agent, dirt), NEW llm \in {"none", "reply", "failed", "aborted"},
           NEW kinds \in SUBSET Kind, Barrier(llm, kinds), "callLLM" \in Scheduled
    PROVE  /\ ~ToolsRun /\ agent'.response # "yes"
           /\ Sound(agent', dirt')
<1> DEFINE calls == {replies + 1} \X kinds
           base == (dirt \ Consumed(llm)) \cup Rearmed
           changes == Changes(llm, calls)
<1> USE DEF Typed, TypeOK
<1>0. /\ agent.msgs \in Seq(Message) /\ agent.pending \in SUBSET Call /\ agent.errors \in Nat
      /\ calls \in SUBSET Call /\ llm # "none"
  BY AfterStepType DEF Components, Barrier, Possible
<1>1. "callLLM" \in dirt /\ "callLLM" \in Candidates /\ Matches("callLLM", agent)
  BY DEF Scheduled, Candidates
<1>2. agent.pending = {} /\ "retry" \notin dirt /\ agent.response # "yes" /\ agent.asked = {}
  BY <1>1 DEF Sound, ApprovalNeeded
<1>3. ~ToolsRun /\ "toolApproval" \notin Scheduled /\ "retry" \notin Scheduled
  BY <1>2 DEF ToolsRun, Scheduled, Candidates, Matches
<1>4. agent' = AfterStep(llm, calls) /\ dirt' = base \cup Woken(agent, agent', changes)
  BY DEF Barrier, Commit
<1>5. /\ agent'.pending = calls /\ agent'.asked = {} /\ agent'.response # "yes"
      /\ agent'.errors = IF llm = "failed" THEN agent.errors + 1
                          ELSE IF llm = "reply" THEN 0 ELSE agent.errors
      /\ agent'.cancelled = agent.cancelled
      /\ agent'.msgs = agent.msgs \o (IF llm = "reply"
                           THEN <<[role |-> "assistant", calls |-> calls]>> ELSE <<>>) \o <<>>
  BY <1>2, <1>3, <1>4 DEF AfterStep
<1>6. llm # "reply" => calls = {}
  BY DEF Barrier, Possible
<1>7. Rearmed = {}
  BY <1>3 DEF Rearmed
<1> HIDE DEF calls, base, changes
<1>8. "callLLM" \in dirt' => llm = "aborted"
  <2>1. SUFFICES ASSUME llm # "aborted" PROVE "callLLM" \notin dirt'
    OBVIOUS
  <2>2. "callLLM" \notin base
    BY <1>1, <1>7, <2>1 DEF base, Consumed
  <2>3. \A ch \in changes : ch[2] = "callLLM" \/ ch[1] = "errors"
    BY <1>3 DEF changes, Changes
  <2>4. "callLLM" \notin Woken(agent, agent', changes)
    BY <1>1, <2>3, Wakes
  <2> QED
    BY <1>4, <2>2, <2>4
<1>9. "retry" \in dirt' => "retry" \in Woken(agent, agent', changes)
  BY <1>2, <1>4, <1>7 DEF base
<1>10. "retry" \in dirt' => agent'.errors > 0
  BY <1>9, Wakes DEF Matches
<1>11. llm = "aborted" => "retry" \notin dirt'
  <2>1. SUFFICES ASSUME llm = "aborted" PROVE "retry" \notin Woken(agent, agent', changes)
    BY <1>9
  <2>2. changes = {}
    BY <1>3, <1>4, <1>5, <1>6, <2>1 DEF changes, Changes, calls
  <2>3. Matches("retry", agent') => Matches("retry", agent)
    BY <1>5, <2>1 DEF Matches
  <2> QED
    BY <2>2, <2>3, Wakes
<1>12. Requested(agent'.msgs) \subseteq Answered(agent'.msgs) \cup agent'.pending
  <2>1. CASE llm = "reply"
    <3> DEFINE x == [role |-> "assistant", calls |-> calls]
    <3>1. x \in Message /\ x.role = "assistant" /\ x.calls = calls
      BY <1>0 DEF Message
    <3> HIDE DEF x
    <3>2. agent.msgs \o <<x>> \in Seq(Message)
      BY <1>0, <3>1
    <3>3. agent'.msgs = agent.msgs \o <<x>>
      BY <1>5, <2>1, <3>2 DEF x
    <3>4. /\ Requested(agent'.msgs) = Requested(agent.msgs) \cup calls
          /\ Answered(agent'.msgs) = Answered(agent.msgs)
      BY <1>0, <3>1, <3>3, Extended
    <3> QED
      BY <1>2, <1>5, <3>4 DEF Sound
  <2>2. CASE llm # "reply"
    <3>1. agent'.msgs = agent.msgs
      BY <1>0, <1>5, <2>2
    <3> QED
      BY <1>2, <3>1 DEF Sound
  <2> QED
    BY <2>1, <2>2
<1>13. agent'.errors > 0 => agent'.pending = {}
  BY <1>5, <1>6
<1> QED
  BY <1>3, <1>5, <1>6, <1>8, <1>10, <1>11, <1>12, <1>13 DEF Sound

\* A step without a model call.
LEMMA ToolStep ==
    ASSUME Typed, Sound(agent, dirt), Agreed(agent),
           NEW llm \in {"none", "reply", "failed", "aborted"},
           NEW kinds \in SUBSET Kind, Barrier(llm, kinds), "callLLM" \notin Scheduled
    PROVE  /\ Sound(agent', dirt')
           /\ Agreed(agent)'
           /\ ToolsRun => ApprovalNeeded(Permitted) \subseteq approved \cup Unasked(Permitted)
<1> DEFINE calls == {replies + 1} \X kinds
           base == (dirt \ Consumed(llm)) \cup Rearmed
           changes == Changes(llm, calls)
<1> USE DEF Typed, TypeOK
<1>0. /\ agent.msgs \in Seq(Message) /\ agent.pending \in SUBSET Call /\ agent.errors \in Nat
      /\ agent.response \in Response
  BY DEF Components
<1>1. llm = "none" /\ kinds = {} /\ calls = {}
  BY DEF Barrier, Possible
<1>2. agent' = AfterStep(llm, calls) /\ dirt' = base \cup Woken(agent, agent', changes)
  BY DEF Barrier, Commit
<1>3. approved' = approved
  BY DEF Barrier
<1>4. /\ agent'.pending = IF ToolsRun THEN {} ELSE agent.pending
      /\ agent'.asked = IF "toolApproval" \in Scheduled THEN agent.asked \cup Shown ELSE agent.asked
      /\ agent'.response = IF ToolsRun THEN "none" ELSE agent.response
      /\ agent'.errors = agent.errors /\ agent'.cancelled = agent.cancelled
      /\ agent'.waiting = agent.waiting
      /\ agent'.msgs = agent.msgs \o <<>> \o (IF ToolsRun
                           THEN <<[role |-> "tool", calls |-> Reported]>> ELSE <<>>)
  BY <1>1, <1>2, AfterStepType DEF AfterStep, Components
<1>5. Consumed(llm) = Candidates
  BY <1>1 DEF Consumed
<1> HIDE DEF calls, base, changes
<1>6. CASE ToolsRun
  <2>1. /\ agent.pending # {} /\ agent.asked = {}
        /\ ApprovalNeeded(agent.pending) = {} \/ agent.response # "none"
    BY <1>6 DEF ToolsRun, Scheduled, Candidates, Matches, Guard
  <2>2. agent.errors = 0 /\ "callLLM" \notin dirt /\ "retry" \notin dirt
    BY <1>0, <2>1 DEF Sound
  <2>3. "toolApproval" \notin Scheduled /\ "retry" \notin Scheduled
    BY <2>1, <2>2 DEF Scheduled, Guard, Candidates
  <2>4. agent'.asked = {} /\ agent'.pending = {} /\ agent'.response = "none" /\ agent'.errors = 0
    BY <1>4, <1>6, <2>1, <2>2, <2>3
  <2>5. "retry" \notin dirt'
    <3>1. "retry" \notin base
      BY <2>2, <2>3 DEF base, Rearmed
    <3>2. ~Matches("retry", agent')
      BY <2>4 DEF Matches
    <3> QED
      BY <1>2, <3>1, <3>2, Wakes
  <2>6. Requested(agent'.msgs) \subseteq Answered(agent'.msgs)
    <3> DEFINE x == [role |-> "tool", calls |-> agent.pending]
    <3>1. x \in Message /\ x.role = "tool" /\ x.calls = agent.pending
      BY <1>0 DEF Message
    <3>2. agent'.msgs = agent.msgs \o <<x>>
      BY <1>0, <1>4, <1>6 DEF Reported
    <3> HIDE DEF x
    <3>3. /\ Requested(agent'.msgs) = Requested(agent.msgs)
          /\ Answered(agent'.msgs) = Answered(agent.msgs) \cup agent.pending
      BY <1>0, <3>1, <3>2, Extended
    <3> QED
      BY <3>3 DEF Sound
  <2>7. ApprovalNeeded(Permitted) \subseteq approved \cup Unasked(Permitted)
    BY <1>0, <2>1 DEF Permitted, ApprovalNeeded, Agreed, Response, Unasked
  <2> QED
    BY <2>4, <2>5, <2>6, <2>7 DEF Sound, Agreed
<1>7. CASE ~ToolsRun
  <2>1. /\ agent'.pending = agent.pending /\ agent'.response = agent.response
        /\ agent'.errors = agent.errors /\ agent'.msgs = agent.msgs
    BY <1>0, <1>4, <1>7
  <2>2. changes = {}
    BY <1>1, <1>2, <1>4, <1>7 DEF changes, Changes, calls
  <2>3. \A s \in {"callLLM", "retry"} : s \notin Woken(agent, agent', changes)
    <3>1. \A s \in {"callLLM", "retry"} : Matches(s, agent') => Matches(s, agent)
      BY <1>4 DEF Matches
    <3> QED
      BY <2>2, <3>1 DEF Woken
  <2>4. \A s \in {"callLLM", "retry"} : s \in dirt' => s \in dirt \ Candidates \/ s \in Rearmed
    BY <1>2, <1>5, <2>3 DEF base
  <2>5. "retry" \in dirt' => "retry" \in dirt \ Candidates
    BY <2>4 DEF Rearmed
  <2>6. "callLLM" \in dirt' => agent.pending = {} /\ "retry" \notin dirt'
    <3>1. CASE "callLLM" \in Rearmed
      <4>1. "retry" \in Candidates /\ agent.errors > 0
        BY <3>1 DEF Rearmed, Scheduled, Candidates, Matches
      <4> QED
        BY <2>5, <4>1 DEF Sound
    <3>2. CASE "callLLM" \notin Rearmed
      BY <2>4, <2>5, <3>2 DEF Sound
    <3> QED
      BY <3>1, <3>2
  <2>7. agent'.asked # {} => agent'.asked = ApprovalNeeded(agent.pending)
    <3>1. CASE "toolApproval" \in Scheduled
      <4>1. agent.asked = {}
        BY <3>1 DEF Scheduled, Guard
      <4> QED
        BY <1>4, <3>1, <4>1 DEF Shown
    <3>2. CASE "toolApproval" \notin Scheduled
      BY <1>4, <3>2 DEF Sound
    <3> QED
      BY <3>1, <3>2
  <2> QED
    BY <1>3, <1>7, <2>1, <2>5, <2>6, <2>7 DEF Sound, Agreed
<1> QED
  BY <1>6, <1>7

\* The application's and the loop's updates that report no change: what they do
\* not newly make match stays as pending as it was.
LEMMA SteadyCommit ==
    ASSUME NEW new, Commit(new, {}, dirt),
           \A s \in {"callLLM", "retry"} : Matches(s, new) => Matches(s, agent)
    PROVE  /\ agent' = new
           /\ \A s \in {"callLLM", "retry"} : s \in dirt' => s \in dirt
BY DEF Commit, Woken

\* Stamping Cancelled.
LEMMA Cancelled ==
    ASSUME Typed, Sound(agent, dirt), Agreed(agent), approved' = approved,
           Commit([agent EXCEPT !.cancelled = TRUE], {}, dirt)
    PROVE  Sound(agent', dirt') /\ Agreed(agent)'
<1> DEFINE new == [agent EXCEPT !.cancelled = TRUE]
<1>1. /\ new.cancelled /\ new.msgs = agent.msgs /\ new.pending = agent.pending
      /\ new.asked = agent.asked /\ new.response = agent.response /\ new.errors = agent.errors
  BY DEF Typed, TypeOK, Components
<1> HIDE DEF new
<1>2. \A s \in {"callLLM", "retry"} : Matches(s, new) => Matches(s, agent)
  BY <1>1 DEF Matches
<1>3. agent' = new /\ (\A s \in {"callLLM", "retry"} : s \in dirt' => s \in dirt)
  BY <1>2, SteadyCommit DEF new
<1> QED
  BY <1>1, <1>3 DEF Sound, Agreed

LEMMA ReactStep ==
    ASSUME Careful, Typed, ReactInv, [Next]_vars
    PROVE  ReactInv'
<1> USE DEF ReactInv, OnlyApprovedRun, runVars, bounds, effects
<1>0. /\ agent \in Components /\ agent.msgs \in Seq(Message)
      /\ agent.pending \in SUBSET Call /\ agent.errors \in Nat
  BY DEF Typed, TypeOK, Components
\* What leaves the conversation, the save and the effects alone.
<1>u. ASSUME UNCHANGED <<agent, dirt, saved, effects>>
      PROVE  ReactInv'
  BY <1>u DEF Agreed
<1>1. CASE UNCHANGED vars
  BY <1>1, <1>u DEF vars
<1>2. CASE Send
  <2> DEFINE new == [agent EXCEPT !.msgs = Append(@, User), !.waiting = TRUE]
             changes == {<<"msgs", "external">>, <<"waiting", "external">>}
  <2>1. agent.pending = {} /\ agent.asked = {} /\ dirt = {}
    BY <1>2 DEF Send, TurnClosed
  <2>2. /\ new.msgs = agent.msgs \o <<User>> /\ new.pending = agent.pending
        /\ new.asked = agent.asked /\ new.response = agent.response
        /\ new.errors = agent.errors /\ new.cancelled = agent.cancelled
    BY <1>0 DEF Components
  <2>3. User \in Message /\ User.role = "user"
    BY DEF User, Message
  <2>4. /\ Requested(new.msgs) = Requested(agent.msgs)
        /\ Answered(new.msgs) = Answered(agent.msgs)
    BY <1>0, <2>2, <2>3, Extended
  <2> HIDE DEF new
  <2>5. agent' = new /\ dirt' = Woken(agent, new, changes)
    BY <1>2, <2>1 DEF Send, Commit, new
  <2>6. "retry" \notin dirt'
    <3>1. Matches("retry", new) => Matches("retry", agent)
      BY <2>2 DEF Matches
    <3>2. \A ch \in changes : ch[1] # "errors"
      OBVIOUS
    <3> HIDE DEF changes
    <3> QED
      BY <2>5, <3>1, <3>2, Wakes
  <2>7. UNCHANGED <<saved, effects>>
    BY <1>2 DEF Send
  <2> QED
    BY <2>1, <2>2, <2>4, <2>5, <2>6, <2>7 DEF Sound, Agreed
<1>3. ASSUME NEW answer \in {"yes", "no"}, Resume(answer)
      PROVE  ReactInv'
  <2> DEFINE new == [agent EXCEPT !.asked = {}, !.response = Given(answer)]
  <2>1. Given(answer) = "yes" => answer = "yes" /\ agent.asked # {}
    BY DEF Given
  <2>2. agent.asked # {} => agent.asked = ApprovalNeeded(agent.pending) /\ agent.pending # {}
    BY DEF Sound, ApprovalNeeded
  <2>3. /\ new.msgs = agent.msgs /\ new.pending = agent.pending /\ new.asked = {}
        /\ new.response = Given(answer) /\ new.errors = agent.errors
        /\ new.cancelled = agent.cancelled /\ new.waiting = agent.waiting
    BY <1>0 DEF Components
  <2> HIDE DEF new
  <2>4. \A s \in {"callLLM", "retry"} : Matches(s, new) => Matches(s, agent)
    BY <2>3 DEF Matches
  <2>5. agent' = new /\ (\A s \in {"callLLM", "retry"} : s \in dirt' => s \in dirt)
    BY <1>3, <2>4, SteadyCommit DEF Resume, new
  <2>6. /\ approved \subseteq approved' /\ (answer = "yes" => agent.asked \subseteq approved')
        /\ UNCHANGED <<saved, executed, blind>>
    BY <1>3 DEF Resume
  <2> QED
    BY <2>1, <2>2, <2>3, <2>5, <2>6 DEF Sound, Agreed
<1>4. CASE RunAgain
  BY <1>4, <1>u DEF RunAgain
<1>5. CASE CancelIdle
  BY <1>5, Cancelled DEF CancelIdle, Agreed
<1>6. CASE CancelMidRun
  BY <1>6, <1>u DEF CancelMidRun
<1>7. CASE Uncancel
  <2> DEFINE new == [agent EXCEPT !.cancelled = FALSE]
  <2>1. agent.pending = {} /\ agent.asked = {} /\ agent.errors = 0
    BY <1>7 DEF Uncancel
  <2>2. /\ new.msgs = agent.msgs /\ new.pending = agent.pending /\ new.asked = agent.asked
        /\ new.response = agent.response /\ new.errors = agent.errors
    BY <1>0 DEF Components
  <2> HIDE DEF new
  <2>3. agent' = new /\ dirt' = dirt \cup Woken(agent, new, {})
    BY <1>7 DEF Uncancel, Commit, new
  <2>4. "retry" \notin dirt'
    <3>1. "retry" \notin dirt /\ ~Matches("retry", new)
      BY <2>1, <2>2 DEF Sound, Matches
    <3> QED
      BY <2>3, <3>1, Wakes
  <2>5. UNCHANGED <<saved, effects>>
    BY <1>7 DEF Uncancel
  <2> QED
    BY <2>1, <2>2, <2>3, <2>4, <2>5 DEF Sound, Agreed
<1>8. CASE Stamp
  <2>1. Sound(agent', dirt') /\ Agreed(agent)' /\ UNCHANGED effects
    BY <1>8, Cancelled DEF Stamp
  <2>2. saved'.agent = agent' /\ saved'.dirt = dirt'
    BY <1>8 DEF Stamp
  <2> QED
    BY <2>1, <2>2 DEF Agreed
<1>9. CASE Quiesce
  <2>1. /\ UNCHANGED <<agent, effects>> /\ dirt' \subseteq dirt
        /\ saved'.agent = agent /\ saved'.dirt = dirt'
    BY <1>9 DEF Quiesce
  <2>2. Sound(agent, dirt')
    BY <2>1 DEF Sound
  <2> QED
    BY <2>1, <2>2 DEF Agreed
<1>10. CASE LimitBreak
  BY <1>10 DEF LimitBreak, Agreed
<1>11. CASE StepStart
  BY <1>11, <1>u DEF StepStart
<1>12. CASE Save
  BY <1>12 DEF Save, Agreed
<1>13. ASSUME NEW llm \in {"none", "reply", "failed", "aborted"}, NEW kinds \in SUBSET Kind,
              Barrier(llm, kinds)
       PROVE  ReactInv'
  <2>1. UNCHANGED <<saved, approved>>
    BY <1>13 DEF Barrier
  <2>2. /\ executed' = IF ToolsRun THEN executed \cup Permitted ELSE executed
        /\ blind' = IF ToolsRun THEN blind \cup Unasked(Permitted) ELSE blind
    BY <1>13 DEF Barrier
  <2>3. CASE "callLLM" \in Scheduled
    <3>1. ~ToolsRun /\ agent'.response # "yes" /\ Sound(agent', dirt')
      BY <1>13, <2>3, ModelStep
    <3> QED
      BY <2>1, <2>2, <3>1 DEF Agreed
  <2>4. CASE "callLLM" \notin Scheduled
    <3>1. /\ Sound(agent', dirt') /\ Agreed(agent)'
          /\ ToolsRun => ApprovalNeeded(Permitted) \subseteq approved \cup Unasked(Permitted)
      BY <1>13, <2>4, ToolStep
    <3>2. ApprovalNeeded(executed') \subseteq approved \cup blind'
      BY <2>2, <3>1 DEF ApprovalNeeded
    <3> QED
      BY <2>1, <3>1, <3>2 DEF Agreed
  <2> QED
    BY <2>3, <2>4
<1>14. ASSUME NEW ran \in SUBSET agent.pending, Crash(ran)
       PROVE  ReactInv'
  <2>1. UNCHANGED <<saved, approved>> /\ agent' = saved.agent /\ dirt' = saved.dirt
    BY <1>14 DEF Crash
  <2>2. ApprovalNeeded(ran) \subseteq approved \cup Unasked(ran)
    <3>1. CASE ran = {}
      BY <3>1 DEF ApprovalNeeded
    <3>2. CASE ran # {}
      <4>1. ToolsRun /\ ran \subseteq Permitted
        BY <1>14, <3>2 DEF Crash
      <4>2. ApprovalNeeded(agent.pending) = {} \/ agent.response # "none"
        BY <4>1 DEF ToolsRun, Scheduled, Guard
      <4>3. agent.response \in Response
        BY <1>0 DEF Components
      <4>4. ApprovalNeeded(Permitted) \subseteq approved \/ agent.response = "unasked"
        BY <4>2, <4>3 DEF Permitted, ApprovalNeeded, Agreed, Response
      <4> QED
        BY <4>1, <4>4 DEF ApprovalNeeded, Unasked
    <3> QED
      BY <3>1, <3>2
  <2>3. ApprovalNeeded(executed') \subseteq approved \cup blind'
    BY <1>14, <2>2 DEF Crash, ApprovalNeeded
  <2> QED
    BY <2>1, <2>3 DEF Agreed
<1> QED
  BY <1>1, <1>2, <1>3, <1>4, <1>5, <1>6, <1>7, <1>8, <1>9, <1>10, <1>11, <1>12, <1>13, <1>14
     DEF Next, Application, Loop, Steps, Crashes

LEMMA ReactInvHolds ==
    ASSUME Careful
    PROVE  Spec => [](Typed /\ ReactInv)
<1>1. ASSUME Init PROVE ReactInv
  <2>1. Sound(NewAgent, {})
    <3>1. Requested(<<>>) = {}
      BY DEF Requested, CallsOf
    <3> QED
      BY <3>1 DEF Sound, NewAgent
  <2>2. NewAgent.response = "none"
    BY DEF NewAgent
  <2> QED
    BY <1>1, <2>1, <2>2 DEF Init, ReactInv, Agreed, OnlyApprovedRun, ApprovalNeeded
<1> QED
  BY <1>1, InitTyped, TypedStep, ReactStep, PTL DEF Spec

\* A tool that needs approval runs only for a call a human was shown and said
\* yes to (toolApproval's guard and query, executeTools' guard), or on an answer
\* that was given to no question (blind), with an application that starts nothing
\* new while a turn is open; without that hypothesis the run "approval" refutes it.
\* An answer to no question is not ruled out: resume has no guard.
THEOREM OnlyTheApprovedRun ==
    ASSUME Careful
    PROVE  Spec => []OnlyApprovedRun
<1>1. ReactInv => OnlyApprovedRun
  BY DEF ReactInv
<1> QED
  BY <1>1, ReactInvHolds, PTL

\* What AwaitingHuman shows is always what PendingToolCalls holds, through
\* resumes, cancellations, limits and restarts from an older save.
THEOREM TheQuestionIsCurrent ==
    ASSUME Careful
    PROVE  Spec => []QuestionIsCurrent
<1>1. ReactInv => QuestionIsCurrent
  BY DEF ReactInv, Sound, QuestionIsCurrent
<1> QED
  BY <1>1, ReactInvHolds, PTL

\* Every tool call in the conversation has its tool message or is still in
\* PendingToolCalls.
THEOREM NoCallIsLost ==
    ASSUME Careful
    PROVE  Spec => []NoCallLost
<1>1. ReactInv => NoCallLost
  BY DEF ReactInv, Sound, NoCallLost
<1> QED
  BY <1>1, ReactInvHolds, PTL

\* callLLM never sends a conversation with an unanswered tool call: when it is
\* pending, no call is.
THEOREM TheModelSeesNoOpenCall ==
    ASSUME Careful
    PROVE  Spec => []RequestsAreComplete
<1>1. ReactInv => RequestsAreComplete
  BY DEF ReactInv, Sound, RequestsAreComplete, Scheduled, Candidates
<1> QED
  BY <1>1, ReactInvHolds, PTL

\* The conversation, the human's question and the tools that ran agree, for every
\* policy and bound, under an application that lets a turn close before the next.
THEOREM ChatIsSafe ==
    ASSUME Careful
    PROVE  Spec => []ChatSafety
BY AgentTyped, OnlyTheApprovedRun, TheQuestionIsCurrent, NoCallIsLost,
   TheModelSeesNoOpenCall, PTL DEF ChatSafety

(***************************************************************************)
(* Turns.  Between steps an open turn always has a system pending that can *)
(* take it further, a human who was asked, or an error on record, whether  *)
(* in memory or in the last save; a retry is pending only while the run    *)
(* may still make one.                                                     *)
(***************************************************************************)
Armed(a, d) ==
    /\ a.waiting => a.msgs # <<>>
    /\ ~a.cancelled =>
         /\ a.waiting => "callLLM" \in d \/ a.pending # {} \/ a.errors > 0
         /\ a.pending # {} /\ a.asked = {} =>
               /\ "executeTools" \in d
               /\ ApprovalNeeded(a.pending) # {} /\ a.response = "none" => "toolApproval" \in d

Accounted(a) ==
    \/ ~a.waiting /\ a.pending = {}
    \/ a.asked # {}
    \/ a.errors > 0

TurnInv ==
    /\ Armed(agent, dirt)
    /\ Armed(saved.agent, saved.dirt)
    /\ phase = "exec" \/ (phase # "idle" /\ steps > 0) => ~agent.cancelled
    /\ phase = "idle" /\ status \in {"done", "idle"} => Accounted(agent)

RetryInv ==
    /\ inARow <= agent.errors
    /\ RetriesBounded
    /\ "callLLM" \in dirt => inARow <= RetryMax

\* A system that newly matches is woken.
LEMMA NewlyMatches ==
    ASSUME NEW s \in System, NEW old, NEW new, NEW changes,
           Matches(s, new), ~Matches(s, old)
    PROVE  s \in Woken(old, new, changes)
BY DEF Woken

\* When nothing can run, the turn is accounted for.
LEMMA NothingLeft ==
    ASSUME Typed, Sound(agent, dirt), Armed(agent, dirt), ~agent.cancelled, Scheduled = {}
    PROVE  Accounted(agent)
<1>0. agent \in Components
  BY DEF Typed, TypeOK
<1> SUFFICES ASSUME agent.asked = {}, ~(agent.errors > 0)
             PROVE  ~agent.waiting /\ agent.pending = {}
  BY DEF Accounted
<1>1. agent.pending = {}
  <2> SUFFICES ASSUME agent.pending # {} PROVE FALSE
    OBVIOUS
  <2>1. /\ "executeTools" \in dirt
        /\ ApprovalNeeded(agent.pending) # {} /\ agent.response = "none" => "toolApproval" \in dirt
    BY DEF Armed
  <2>2. Matches("executeTools", agent) /\ Matches("toolApproval", agent)
    BY DEF Matches
  <2>3. CASE ApprovalNeeded(agent.pending) = {} \/ agent.response # "none"
    <3>1. Guard("executeTools", agent)
      BY <2>3 DEF Guard
    <3> QED
      BY <2>1, <2>2, <3>1 DEF Scheduled, Candidates
  <2>4. CASE ApprovalNeeded(agent.pending) # {} /\ agent.response = "none"
    <3>1. Guard("toolApproval", agent)
      BY <2>4 DEF Guard
    <3> QED
      BY <2>1, <2>2, <2>4, <3>1 DEF Scheduled, Candidates
  <2> QED
    BY <2>3, <2>4
<1>2. ~agent.waiting
  <2> SUFFICES ASSUME agent.waiting PROVE FALSE
    OBVIOUS
  <2>1. "callLLM" \in dirt /\ agent.msgs # <<>>
    BY <1>1 DEF Armed
  <2>2. Matches("callLLM", agent) /\ Guard("callLLM", agent)
    BY <2>1 DEF Matches, Guard
  <2> QED
    BY <2>1, <2>2 DEF Scheduled, Candidates
<1> QED
  BY <1>1, <1>2

\* A step leaves every open turn with something to take it further.
LEMMA StepArms ==
    ASSUME Typed, Sound(agent, dirt), Armed(agent, dirt), ~agent.cancelled,
           NEW llm \in {"none", "reply", "failed", "aborted"}, NEW kinds \in SUBSET Kind,
           Barrier(llm, kinds)
    PROVE  Armed(agent', dirt')
<1> DEFINE calls == {replies + 1} \X kinds
           base == (dirt \ Consumed(llm)) \cup Rearmed
           changes == Changes(llm, calls)
<1>0. /\ agent.msgs \in Seq(Message) /\ agent.pending \in SUBSET Call /\ agent.errors \in Nat
      /\ agent.waiting \in BOOLEAN
      /\ calls \in SUBSET Call
  BY AfterStepType DEF Typed, TypeOK, Components, Barrier
<1>1. agent' = AfterStep(llm, calls) /\ dirt' = base \cup Woken(agent, agent', changes)
  BY DEF Barrier, Commit
<1>2. /\ agent'.pending = IF ToolsRun THEN {} ELSE IF calls # {} THEN calls ELSE agent.pending
      /\ agent'.asked = IF "toolApproval" \in Scheduled THEN agent.asked \cup Shown ELSE agent.asked
      /\ agent'.response = IF ToolsRun THEN "none" ELSE agent.response
      /\ agent'.errors = IF llm = "failed" THEN agent.errors + 1
                          ELSE IF llm = "reply" THEN 0 ELSE agent.errors
      /\ agent'.cancelled = agent.cancelled
      /\ agent'.waiting = (agent.waiting /\ ~(llm = "reply" /\ calls = {}))
      /\ agent'.msgs = agent.msgs
              \o (IF llm = "reply" THEN <<[role |-> "assistant", calls |-> calls]>> ELSE <<>>)
              \o (IF ToolsRun THEN <<[role |-> "tool", calls |-> Reported]>> ELSE <<>>)
  BY <1>1 DEF AfterStep
<1>3. llm # "reply" => calls = {}
  BY DEF Barrier, Possible
<1> HIDE DEF calls, base, changes
<1>4. agent'.waiting => agent'.msgs # <<>>
  <2> SUFFICES ASSUME agent'.waiting PROVE agent'.msgs # <<>>
    OBVIOUS
  <2>1. agent.msgs # <<>>
    BY <1>2 DEF Armed
  <2>2. Reported \in SUBSET Call
    BY <1>0 DEF Reported
  <2> QED
    BY <1>0, <1>2, <2>1, <2>2
<1>5. CASE "callLLM" \in Scheduled
  <2>1. /\ "callLLM" \in dirt /\ "callLLM" \in Candidates /\ agent.waiting
    BY <1>5 DEF Scheduled, Candidates, Matches
  <2>2. agent.pending = {} /\ agent.asked = {}
    BY <2>1 DEF Sound, ApprovalNeeded
  <2>3. ~ToolsRun /\ "toolApproval" \notin Scheduled /\ llm # "none"
    BY <1>5, <2>2 DEF ToolsRun, Scheduled, Candidates, Matches, Barrier, Possible
  <2>4. agent'.pending = calls /\ agent'.asked = {}
    BY <1>2, <2>2, <2>3
  <2>5. agent'.waiting => "callLLM" \in dirt' \/ agent'.pending # {} \/ agent'.errors > 0
    <3>1. CASE llm = "aborted"
      BY <1>1, <2>1, <3>1 DEF base, Consumed
    <3>2. CASE llm = "failed"
      <4>1. agent'.errors = agent.errors + 1
        BY <1>2, <3>2
      <4> QED
        BY <1>0, <4>1
    <3>3. CASE llm = "reply"
      BY <1>2, <2>4, <3>3
    <3> QED
      BY <2>3, <3>1, <3>2, <3>3
  <2>6. agent'.pending # {} => "executeTools" \in dirt' /\ "toolApproval" \in dirt'
    <3> SUFFICES ASSUME agent'.pending # {} PROVE "executeTools" \in dirt' /\ "toolApproval" \in dirt'
      OBVIOUS
    <3>1. \A s \in {"executeTools", "toolApproval"} : Matches(s, agent') /\ ~Matches(s, agent)
      BY <1>2, <2>2, <2>4 DEF Matches
    <3> QED
      BY <1>1, <3>1, NewlyMatches DEF System
  <2> QED
    BY <1>4, <2>5, <2>6 DEF Armed
<1>6. CASE "callLLM" \notin Scheduled
  <2>1. llm = "none" /\ calls = {}
    BY <1>3, <1>6 DEF Barrier, Possible
  <2>2. agent'.waiting = agent.waiting /\ agent'.errors = agent.errors
    BY <1>0, <1>2, <2>1
  <2>3. CASE ToolsRun
    <3>1. agent'.pending = {}
      BY <1>2, <2>3
    <3>2. <<"msgs", "executeTools">> \in changes
      BY <2>3 DEF changes, Changes
    <3>3. ASSUME agent'.waiting PROVE "callLLM" \in dirt'
      <4>1. Matches("callLLM", agent')
        BY <1>2, <3>3 DEF Matches
      <4>2. <<"msgs", "executeTools">>[1] \in Inputs["callLLM"]
        BY DEF Inputs
      <4>3. "callLLM" \in Woken(agent, agent', changes)
        BY <3>2, <4>1, <4>2 DEF Woken, System
      <4> QED
        BY <1>1, <4>3
    <3> QED
      BY <1>4, <3>1, <3>3 DEF Armed
  <2>4. CASE ~ToolsRun
    <3>1. agent'.pending = agent.pending /\ agent'.response = agent.response
      BY <1>2, <2>1, <2>4
    <3>2. agent'.waiting => agent'.pending # {} \/ agent'.errors > 0
      <4> SUFFICES ASSUME agent.waiting, agent.pending = {}, ~(agent.errors > 0) PROVE FALSE
        BY <2>2, <3>1
      <4>1. "callLLM" \in dirt /\ agent.msgs # <<>>
        BY DEF Armed
      <4>2. Matches("callLLM", agent) /\ Guard("callLLM", agent)
        BY <4>1 DEF Matches, Guard
      <4> QED
        BY <1>6, <4>1, <4>2 DEF Scheduled, Candidates
    <3>3. agent'.pending # {} => agent'.asked # {}
      <4> SUFFICES ASSUME agent.pending # {}, agent.asked = {} PROVE agent'.asked # {}
        BY <1>2, <3>1
      <4>1. /\ "executeTools" \in dirt
            /\ ApprovalNeeded(agent.pending) # {} /\ agent.response = "none" => "toolApproval" \in dirt
        BY DEF Armed
      <4>2. Matches("executeTools", agent) /\ Matches("toolApproval", agent)
        BY DEF Matches
      <4>3. ApprovalNeeded(agent.pending) # {} /\ agent.response = "none"
        <5> SUFFICES ASSUME ApprovalNeeded(agent.pending) = {} \/ agent.response # "none"
                     PROVE  FALSE
          OBVIOUS
        <5>1. Guard("executeTools", agent)
          BY DEF Guard
        <5> QED
          BY <2>4, <4>1, <4>2, <5>1 DEF ToolsRun, Scheduled, Candidates
      <4>4. Guard("toolApproval", agent)
        BY <4>3 DEF Guard
      <4>5. "toolApproval" \in Scheduled
        BY <4>1, <4>2, <4>3, <4>4 DEF Scheduled, Candidates
      <4> QED
        BY <1>2, <4>3, <4>5 DEF Shown
    <3> QED
      BY <1>4, <3>2, <3>3 DEF Armed
  <2> QED
    BY <2>3, <2>4
<1> QED
  BY <1>5, <1>6

LEMMA TurnStep ==
    ASSUME Careful, Typed, ReactInv, TurnInv, [Next]_vars
    PROVE  TurnInv'
<1> USE DEF TurnInv, ReactInv, runVars, bounds, effects
<1>0. /\ agent \in Components /\ agent.msgs \in Seq(Message) /\ agent.errors \in Nat
      /\ agent.pending \in SUBSET Call /\ agent.waiting \in BOOLEAN /\ steps \in Nat
  BY ReactAssumption DEF Typed, TypeOK, Components
\* What leaves the committed state alone, and the save.
<1>u. ASSUME UNCHANGED <<agent, dirt, saved>>
      PROVE  Armed(agent', dirt') /\ Armed(saved'.agent, saved'.dirt)
  BY <1>u
\* What only writes the save.
<1>s. ASSUME Armed(agent', dirt'), saved' = [agent |-> agent', dirt |-> dirt']
      PROVE  Armed(agent', dirt') /\ Armed(saved'.agent, saved'.dirt)
  BY <1>s
<1>1. CASE UNCHANGED vars
  BY <1>1, <1>u DEF vars, Accounted
<1>2. CASE Send
  <2> DEFINE new == [agent EXCEPT !.msgs = Append(@, User), !.waiting = TRUE]
             changes == {<<"msgs", "external">>, <<"waiting", "external">>}
  <2>1. agent.pending = {}
    BY <1>2 DEF Send, TurnClosed
  <2>2. User \in Message
    BY DEF User, Message
  <2>3. /\ new.msgs # <<>> /\ new.waiting /\ new.pending = agent.pending
        /\ new.errors = agent.errors /\ new.cancelled = agent.cancelled
    BY <1>0, <2>2 DEF Components
  <2>4. <<"msgs", "external">> \in changes
    OBVIOUS
  <2> HIDE DEF new, changes
  <2>5. agent' = new /\ dirt' = dirt \cup Woken(agent, new, changes) /\ saved' = saved
    BY <1>2 DEF Send, Commit, new, changes
  <2>6. ~new.cancelled => "callLLM" \in dirt'
    <3> SUFFICES ASSUME ~new.cancelled PROVE "callLLM" \in dirt'
      OBVIOUS
    <3>1. Matches("callLLM", new)
      BY <2>3 DEF Matches
    <3>2. <<"msgs", "external">>[1] \in Inputs["callLLM"]
      BY DEF Inputs
    <3>3. "callLLM" \in Woken(agent, new, changes)
      BY <2>4, <3>1, <3>2 DEF Woken, System
    <3> QED
      BY <2>5, <3>3
  <2>7. Armed(agent', dirt')
    BY <2>1, <2>3, <2>5, <2>6 DEF Armed
  <2>8. phase' = "loop" /\ steps' = 0
    BY <1>2 DEF Send, BeginRun
  <2> QED
    BY <2>5, <2>7, <2>8
<1>3. ASSUME NEW answer \in {"yes", "no"}, Resume(answer)
      PROVE  TurnInv'
  <2> DEFINE new == [agent EXCEPT !.asked = {}, !.response = Given(answer)]
  <2>1. agent.asked # {} => agent.pending # {}
    BY DEF Sound, ApprovalNeeded
  <2>2. /\ new.msgs = agent.msgs /\ new.pending = agent.pending /\ new.asked = {}
        /\ new.response # "none" /\ new.errors = agent.errors
        /\ new.cancelled = agent.cancelled /\ new.waiting = agent.waiting
    BY <1>0 DEF Components, Given
  <2> HIDE DEF new
  <2>3. agent' = new /\ dirt' = dirt \cup Woken(agent, new, {}) /\ saved' = saved
    BY <1>3 DEF Resume, Commit, new
  <2>4. ~new.cancelled /\ agent.pending # {} => "executeTools" \in dirt'
    <3> SUFFICES ASSUME ~new.cancelled, agent.pending # {} PROVE "executeTools" \in dirt'
      OBVIOUS
    <3>1. CASE agent.asked = {}
      BY <2>2, <2>3, <3>1 DEF Armed
    <3>2. CASE agent.asked # {}
      <4>1. Matches("executeTools", new) /\ ~Matches("executeTools", agent)
        BY <2>2, <3>2 DEF Matches
      <4> QED
        BY <2>3, <4>1, NewlyMatches DEF System
    <3> QED
      BY <3>1, <3>2
  <2>5. Armed(agent', dirt')
    BY <2>1, <2>2, <2>3, <2>4 DEF Armed
  <2>6. phase' = "loop" /\ steps' = 0
    BY <1>3 DEF Resume, BeginRun
  <2> QED
    BY <2>3, <2>5, <2>6
<1>4. CASE RunAgain
  <2>1. phase' = "loop" /\ steps' = 0 /\ UNCHANGED <<agent, dirt, saved>>
    BY <1>4 DEF RunAgain, BeginRun
  <2> QED
    BY <1>u, <2>1
<1>5. ASSUME Commit([agent EXCEPT !.cancelled = TRUE], {}, dirt)
      PROVE  Armed(agent', dirt') /\ (Accounted(agent) => Accounted(agent'))
  <2> DEFINE new == [agent EXCEPT !.cancelled = TRUE]
  <2>1. /\ new.cancelled /\ new.msgs = agent.msgs /\ new.pending = agent.pending
        /\ new.asked = agent.asked /\ new.errors = agent.errors /\ new.waiting = agent.waiting
    BY <1>0 DEF Components
  <2>2. agent' = new
    BY <1>5 DEF Commit
  <2> HIDE DEF new
  <2> QED
    BY <2>1, <2>2 DEF Armed, Accounted
<1>6. CASE CancelIdle
  <2>1. UNCHANGED <<saved, phase, steps, status>> /\ phase = "idle"
    BY <1>6 DEF CancelIdle
  <2>2. Armed(agent', dirt') /\ (Accounted(agent) => Accounted(agent'))
    BY <1>5, <1>6 DEF CancelIdle
  <2> QED
    BY <2>1, <2>2 DEF Accounted
<1>7. CASE CancelMidRun
  <2>1. UNCHANGED <<agent, dirt, saved, phase, steps, status>>
    BY <1>7 DEF CancelMidRun
  <2> QED
    BY <1>u, <2>1 DEF Accounted
<1>8. CASE Uncancel
  <2> DEFINE new == [agent EXCEPT !.cancelled = FALSE]
  <2>1. agent.pending = {} /\ agent.cancelled
    BY <1>8 DEF Uncancel
  <2>2. /\ ~new.cancelled /\ new.msgs = agent.msgs /\ new.pending = agent.pending
        /\ new.asked = agent.asked /\ new.errors = agent.errors /\ new.waiting = agent.waiting
    BY <1>0 DEF Components
  <2> HIDE DEF new
  <2>3. agent' = new /\ dirt' = dirt \cup Woken(agent, new, {})
    BY <1>8 DEF Uncancel, Commit, new
  <2>4. new.waiting => "callLLM" \in dirt'
    <3> SUFFICES ASSUME new.waiting PROVE "callLLM" \in dirt'
      OBVIOUS
    <3>1. Matches("callLLM", new) /\ ~Matches("callLLM", agent)
      BY <2>1, <2>2 DEF Matches
    <3> QED
      BY <2>3, <3>1, NewlyMatches DEF System
  <2>5. Armed(agent', dirt') /\ (Accounted(agent) => Accounted(agent'))
    BY <2>1, <2>2, <2>3, <2>4 DEF Armed, Accounted
  <2>6. UNCHANGED <<saved, phase, steps, status>> /\ phase = "idle"
    BY <1>8 DEF Uncancel
  <2> QED
    BY <2>5, <2>6 DEF Accounted
<1>9. CASE Stamp
  <2>1. Armed(agent', dirt')
    BY <1>5, <1>9 DEF Stamp
  <2>2. saved' = [agent |-> agent', dirt |-> dirt'] /\ status' = "cancelled" /\ phase' = "idle"
    BY <1>9 DEF Stamp
  <2> QED
    BY <1>s, <2>1, <2>2
<1>10. CASE Quiesce
  <2>1. /\ agent' = agent /\ dirt' = dirt \ Candidates /\ phase = "loop" /\ phase' = "idle"
        /\ status' = StatusNow /\ saved' = [agent |-> agent', dirt |-> dirt'] /\ Scheduled = {}
    BY <1>10 DEF Quiesce
  <2>2. ~agent.cancelled => Accounted(agent)
    BY <2>1, NothingLeft
  <2>3. Armed(agent', dirt')
    <3>1. agent.errors > 0 => agent.pending = {}
      BY DEF Sound
    <3>2. CASE agent.cancelled
      BY <2>1, <3>2 DEF Armed
    <3>3. CASE ~agent.cancelled
      BY <2>1, <2>2, <3>1, <3>3 DEF Armed, Sound, Accounted, ApprovalNeeded
    <3> QED
      BY <3>2, <3>3
  <2>4. status' \in {"done", "idle"} => ~agent.cancelled
    BY <1>0, <2>1 DEF StatusNow
  <2>5. status' \in {"done", "idle"} => Accounted(agent')
    BY <2>1, <2>2, <2>4 DEF Accounted
  <2> QED
    BY <1>s, <2>1, <2>3, <2>5 DEF Accounted
<1>11. CASE LimitBreak
  <2>1. /\ saved' = [agent |-> agent', dirt |-> dirt'] /\ UNCHANGED <<agent, dirt>>
        /\ status' \in {"cancelled", "limit"} /\ phase' = "idle"
    BY <1>11 DEF LimitBreak
  <2> QED
    BY <1>s, <2>1
<1>12. CASE StepStart
  <2>1. UNCHANGED <<agent, dirt, saved, steps, status>> /\ phase' = "exec" /\ Scheduled # {}
    BY <1>12 DEF StepStart
  <2>2. ~agent.cancelled
    BY <2>1 DEF Scheduled, Candidates, Matches
  <2> QED
    BY <1>u, <2>1, <2>2
<1>13. CASE Save
  <2>1. /\ saved' = [agent |-> agent', dirt |-> dirt'] /\ UNCHANGED <<agent, dirt, steps>>
        /\ phase = "saving" /\ phase' = "loop"
    BY <1>13 DEF Save
  <2> QED
    BY <1>s, <2>1
<1>14. ASSUME NEW llm \in {"none", "reply", "failed", "aborted"}, NEW kinds \in SUBSET Kind,
              Barrier(llm, kinds)
       PROVE  TurnInv'
  <2>1. ~agent.cancelled
    BY <1>14 DEF Barrier
  <2>2. Armed(agent', dirt')
    BY <1>14, <2>1, StepArms
  <2>3. agent'.cancelled = agent.cancelled
    BY <1>14 DEF Barrier, Commit, AfterStep
  <2>4. UNCHANGED <<saved, status>> /\ phase' = "saving"
    BY <1>14 DEF Barrier
  <2> QED
    BY <2>1, <2>2, <2>3, <2>4
<1>15. ASSUME NEW ran \in SUBSET agent.pending, Crash(ran)
       PROVE  TurnInv'
  <2>1. /\ UNCHANGED saved /\ agent' = saved.agent /\ dirt' = saved.dirt
        /\ phase' = "idle" /\ status' = "none"
    BY <1>15 DEF Crash
  <2> QED
    BY <2>1
<1> QED
  BY <1>1, <1>2, <1>3, <1>4, <1>6, <1>7, <1>8, <1>9, <1>10, <1>11, <1>12, <1>13, <1>14, <1>15
     DEF Next, Application, Loop, Steps, Crashes

LEMMA RetryStep ==
    ASSUME Careful, Typed, ReactInv, RetryInv, [Next]_vars
    PROVE  RetryInv'
<1> USE ReactAssumption DEF RetryInv, RetriesBounded, ReactInv, runVars, bounds, effects
<1>0. /\ agent \in Components /\ agent.errors \in Nat /\ inARow \in Nat
      /\ agent.pending \in SUBSET Call
      /\ saved.agent.errors \in Nat
  BY DEF Typed, TypeOK, Components
<1>u. ASSUME UNCHANGED <<agent, inARow>>, dirt' \subseteq dirt
      PROVE  RetryInv'
  BY <1>u
\* What starts a run counts afresh.
<1>b. ASSUME inARow' = 0, agent'.errors \in Nat
      PROVE  RetryInv'
  BY <1>b
\* (Un)stamping Cancelled.
<1>c. ASSUME NEW flag \in BOOLEAN, Commit([agent EXCEPT !.cancelled = flag], {}, dirt),
             UNCHANGED inARow, flag \/ agent.errors = 0
      PROVE  RetryInv'
  <2> DEFINE new == [agent EXCEPT !.cancelled = flag]
  <2>1. new.errors = agent.errors /\ new.waiting = agent.waiting /\ new.cancelled = flag
    BY <1>0 DEF Components
  <2>2. agent' = new /\ dirt' = dirt \cup Woken(agent, new, {})
    BY <1>c DEF Commit
  <2> HIDE DEF new
  <2>3. CASE agent.errors = 0
    BY <1>0, <1>c, <2>1, <2>2, <2>3
  <2>4. CASE flag
    <3>1. ~Matches("callLLM", new)
      BY <2>1, <2>4 DEF Matches
    <3>2. "callLLM" \notin Woken(agent, new, {})
      BY <3>1 DEF Woken
    <3> QED
      BY <1>c, <2>1, <2>2, <3>2
  <2> QED
    BY <1>c, <2>3, <2>4
<1>1. CASE UNCHANGED vars
  BY <1>1, <1>u DEF vars
<1>2. CASE Send
  <2> DEFINE new == [agent EXCEPT !.msgs = Append(@, User), !.waiting = TRUE]
  <2>1. new.errors = agent.errors
    BY <1>0 DEF Components
  <2>2. agent' = new /\ inARow' = 0
    BY <1>2 DEF Send, Commit, BeginRun
  <2> QED
    BY <1>0, <1>b, <2>1, <2>2
<1>3. ASSUME NEW answer \in {"yes", "no"}, Resume(answer)
      PROVE  RetryInv'
  <2> DEFINE new == [agent EXCEPT !.asked = {}, !.response = Given(answer)]
  <2>1. new.errors = agent.errors
    BY <1>0 DEF Components
  <2>2. agent' = new /\ inARow' = 0
    BY <1>3 DEF Resume, Commit, BeginRun
  <2> QED
    BY <1>0, <1>b, <2>1, <2>2
<1>4. CASE RunAgain
  BY <1>0, <1>4, <1>b DEF RunAgain, BeginRun
<1>5. CASE CancelIdle
  BY <1>5, <1>c DEF CancelIdle
<1>6. CASE CancelMidRun
  BY <1>6, <1>u DEF CancelMidRun
<1>7. CASE Uncancel
  BY <1>7, <1>c DEF Uncancel
<1>8. CASE Stamp
  BY <1>8, <1>c DEF Stamp
<1>9. CASE Quiesce
  BY <1>9, <1>u DEF Quiesce
<1>10. CASE LimitBreak
  BY <1>10, <1>u DEF LimitBreak
<1>11. CASE StepStart
  BY <1>11, <1>u DEF StepStart
<1>12. CASE Save
  BY <1>12, <1>u DEF Save
<1>13. ASSUME NEW llm \in {"none", "reply", "failed", "aborted"}, NEW kinds \in SUBSET Kind,
              Barrier(llm, kinds)
       PROVE  RetryInv'
  <2> DEFINE calls == {replies + 1} \X kinds
             base == (dirt \ Consumed(llm)) \cup Rearmed
             changes == Changes(llm, calls)
  <2>1. agent' = AfterStep(llm, calls) /\ dirt' = base \cup Woken(agent, agent', changes)
    BY <1>13 DEF Barrier, Commit
  <2>2. /\ agent'.errors = IF llm = "failed" THEN agent.errors + 1
                            ELSE IF llm = "reply" THEN 0 ELSE agent.errors
        /\ agent'.cancelled = agent.cancelled
        /\ agent'.waiting = (agent.waiting /\ ~(llm = "reply" /\ calls = {}))
    BY <2>1 DEF AfterStep
  <2>3. inARow' = IF llm = "failed" THEN inARow + 1 ELSE IF llm = "reply" THEN 0 ELSE inARow
    BY <1>13 DEF Barrier
  <2>4. llm = "none" <=> "callLLM" \notin Scheduled
    BY <1>13 DEF Barrier, Possible
  <2>5. inARow' <= agent'.errors
    BY <1>0, <2>2, <2>3
  <2>6. CASE llm # "none"
    <3>1. "callLLM" \in dirt /\ "callLLM" \in Candidates /\ Matches("callLLM", agent)
      BY <2>4, <2>6 DEF Scheduled, Candidates
    <3>2. agent.pending = {} /\ "retry" \notin dirt
      BY <3>1 DEF Sound
    <3>3. ~ToolsRun /\ Rearmed = {}
      BY <3>2 DEF ToolsRun, Rearmed, Scheduled, Candidates, Matches
    <3>4. RetriesBounded'
      BY <1>0, <2>3, <3>1
    <3>5. "callLLM" \in dirt' => llm = "aborted"
      <4> SUFFICES ASSUME llm # "aborted" PROVE "callLLM" \notin dirt'
        OBVIOUS
      <4>1. "callLLM" \notin base
        BY <3>1, <3>3 DEF Consumed
      <4>2. \A ch \in changes : ch[2] = "callLLM" \/ ch[1] = "errors"
        BY <3>3 DEF Changes
      <4> HIDE DEF base, changes, calls
      <4>3. "callLLM" \notin Woken(agent, agent', changes)
        BY <3>1, <4>2, Wakes
      <4> QED
        BY <2>1, <4>1, <4>3
    <3>6. "callLLM" \in dirt' => inARow' <= RetryMax
      BY <2>3, <3>1, <3>5
    <3> QED
      BY <2>5, <3>4, <3>6
  <2>7. CASE llm = "none"
    <3>1. agent'.errors = agent.errors /\ inARow' = inARow
      BY <2>2, <2>3, <2>7
    <3>2. calls = {}
      BY <1>13, <2>7 DEF Barrier, Possible
    <3> HIDE DEF calls
    <3>3. "callLLM" \in dirt' => inARow <= RetryMax
      <4> SUFFICES ASSUME "callLLM" \in dirt' PROVE inARow <= RetryMax
        OBVIOUS
      <4>1. CASE "callLLM" \in dirt
        BY <4>1
      <4>2. CASE "callLLM" \in Rearmed
        <5>1. agent.errors <= RetryMax
          BY <4>2 DEF Rearmed
        <5> QED
          BY <1>0, <5>1
      <4>3. CASE "callLLM" \in Woken(agent, agent', changes)
        <5>1. Matches("callLLM", agent') => Matches("callLLM", agent)
          BY <2>2, <2>7 DEF Matches
        <5>2. PICK ch \in changes : ch[1] \in {"msgs", "waiting"} /\ ch[2] # "callLLM"
          <6> HIDE DEF changes
          <6>1. Matches("callLLM", agent')
            BY <4>3 DEF Woken
          <6> QED
            BY <4>3, <5>1, <6>1, Wakes
        <5>3. ToolsRun
          BY <2>7, <3>2, <5>2 DEF Changes
        <5>4. agent.pending # {}
          BY <5>3 DEF ToolsRun, Scheduled, Candidates, Matches
        <5>5. agent.errors = 0
          BY <1>0, <5>4 DEF Sound
        <5> QED
          BY <1>0, <5>5
      <4> QED
        BY <2>1, <4>1, <4>2, <4>3
    <3> QED
      BY <2>5, <3>1, <3>3
  <2> QED
    BY <2>6, <2>7
<1>14. ASSUME NEW ran \in SUBSET agent.pending, Crash(ran)
       PROVE  RetryInv'
  BY <1>0, <1>14, <1>b DEF Crash
<1> QED
  BY <1>1, <1>2, <1>3, <1>4, <1>5, <1>6, <1>7, <1>8, <1>9, <1>10, <1>11, <1>12, <1>13, <1>14
     DEF Next, Application, Loop, Steps, Crashes

\* A run that stops on its own has delivered the answer, or a human or an error
\* record says what the turn waits for: whatever was cancelled, un-cancelled, cut by
\* the step cap or restarted before (callLLM, toolApproval, executeTools and the
\* dirtiness the engine keeps for them).
THEOREM NoTurnIsStranded ==
    ASSUME Careful
    PROVE  Spec => []NoTurnStranded
<1>1. Init => TurnInv
  BY DEF Init, TurnInv, Armed, Accounted, NewAgent
<1>2. Typed /\ ReactInv /\ TurnInv /\ [Next]_vars => TurnInv'
  BY TurnStep
<1>3. TurnInv => NoTurnStranded
  BY DEF TurnInv, Accounted, NoTurnStranded
<1> QED
  BY <1>1, <1>2, <1>3, ReactInvHolds, PTL DEF Spec

\* A run calls a failing model at most RetryMax + 1 times in a row: what the retry
\* system counts, SystemError.count, is never behind the failures of the run, and
\* nothing but it re-arms callLLM after one.
THEOREM RetriesAreBounded ==
    ASSUME Careful
    PROVE  Spec => []RetriesBounded
<1>1. Init => RetryInv
  BY ReactAssumption DEF Init, RetryInv, RetriesBounded, NewAgent
<1>2. Typed /\ ReactInv /\ RetryInv /\ [Next]_vars => RetryInv'
  BY RetryStep
<1>3. RetryInv => RetriesBounded
  BY DEF RetryInv
<1> QED
  BY <1>1, <1>2, <1>3, ReactInvHolds, PTL DEF Spec

\* Every turn comes to an answer or to a recorded reason, after boundedly many tries.
THEOREM TurnsAreAccounted ==
    ASSUME Careful
    PROVE  Spec => []TurnsAreAccountedFor
BY NoTurnIsStranded, RetriesAreBounded, PTL DEF TurnsAreAccountedFor

-----------------------------------------------------------------------------
(* The window.  Nothing here depends on the agent: the conversation is any   *)
(* sequence of messages, and what a list of them costs is any function.      *)

LEMMA LongestRun ==
    ASSUME NEW N \in Nat, NEW G
    PROVE  \E n \in 0 .. N : (\A i \in 1 .. n : i \in G) /\ (n < N => n + 1 \notin G)
<1> DEFINE B == {n \in 0 .. N : n < N => n + 1 \notin G}
<1>1. B \in SUBSET Nat /\ N \in B
  OBVIOUS
<1> HIDE DEF B
<1>2. PICK n \in B : \A y \in B : ~ (<<y, n>> \in OpToRel(<, Nat))
  BY <1>1, WFMin, NatLessThanWellFounded
<1>3. \A y \in B : ~ (y < n)
  BY <1>1, <1>2 DEF OpToRel
<1> USE DEF B
<1>4. ASSUME NEW i \in 1 .. n PROVE i \in G
  <2>1. i - 1 \in 0 .. N /\ i - 1 < n /\ i - 1 < N /\ (i - 1) + 1 = i
    OBVIOUS
  <2>2. i - 1 \notin B
    BY <1>3, <2>1
  <2> QED BY <2>1, <2>2
<1> QED BY <1>4

LEMMA LeadingIs ==
    ASSUME NEW M, NEW messages \in Seq(M), NEW role
    PROVE  /\ Leading(messages, role) \in 0 .. Len(messages)
           /\ \A i \in 1 .. Leading(messages, role) : messages[i].role = role
           /\ Leading(messages, role) < Len(messages) =>
                 messages[Leading(messages, role) + 1].role # role
<1> DEFINE N == Len(messages)
           Ok(n) == /\ \A i \in 1 .. n : messages[i].role = role
                    /\ n < N => messages[n + 1].role # role
           G == {i \in 1 .. N : messages[i].role = role}
<1>1. N \in Nat
  OBVIOUS
<1>2. \E n \in 0 .. N : Ok(n)
  <2>1. PICK n \in 0 .. N : (\A i \in 1 .. n : i \in G) /\ (n < N => n + 1 \notin G)
    <3> HIDE DEF G, N
    <3> QED BY <1>1, LongestRun
  <2>2. n < N => n + 1 \in 1 .. N
    BY <1>1
  <2> QED BY <2>1, <2>2
<1>3. Leading(messages, role) = CHOOSE n \in 0 .. N : Ok(n)
  BY DEF Leading
<1> QED BY <1>2, <1>3

LEMMA LastOfIs ==
    ASSUME NEW M, NEW s \in Seq(M), NEW n \in 0 .. Len(s)
    PROVE  /\ LastOf(s, n) \in Seq(M) /\ Len(LastOf(s, n)) = n
           /\ \A i \in 1 .. n : /\ LastOf(s, n)[i] = s[Len(s) - n + i]
                                /\ Len(s) - n + i \in 1 .. Len(s)
BY DEF LastOf

LEMMA LastOfLast ==
    ASSUME NEW M, NEW s \in Seq(M), NEW n \in 0 .. Len(s), NEW k \in 0 .. n
    PROVE  LastOf(LastOf(s, n), k) = LastOf(s, k)
<1> DEFINE a == LastOf(s, n)
           b == LastOf(a, k)
           c == LastOf(s, k)
<1>1. Len(s) \in Nat /\ k \in 0 .. Len(s)
  OBVIOUS
<1>2. /\ a \in Seq(M) /\ Len(a) = n
      /\ \A i \in 1 .. n : a[i] = s[Len(s) - n + i]
  BY LastOfIs
<1> HIDE DEF a
<1>3. /\ b \in Seq(M) /\ Len(b) = k
      /\ \A i \in 1 .. k : b[i] = a[n - k + i] /\ n - k + i \in 1 .. n
  BY <1>2, LastOfIs
<1>4. /\ c \in Seq(M) /\ Len(c) = k
      /\ \A i \in 1 .. k : c[i] = s[Len(s) - k + i]
  BY <1>1, LastOfIs
<1> HIDE DEF b, c
<1>5. \A i \in 1 .. k : b[i] = c[i]
  <2> SUFFICES ASSUME NEW i \in 1 .. k PROVE b[i] = c[i]
    OBVIOUS
  <2>1. b[i] = a[n - k + i] /\ n - k + i \in 1 .. n
    BY <1>3
  <2>2. a[n - k + i] = s[Len(s) - n + (n - k + i)]
    BY <1>2, <2>1
  <2>3. Len(s) - n + (n - k + i) = Len(s) - k + i
    BY <1>1
  <2> QED BY <1>4, <2>1, <2>2, <2>3
<1>6. b = c
  BY <1>3, <1>4, <1>5
<1> QED BY <1>6 DEF a, b, c

\* What is kept is the end of the body, no longer than the count allows.
LEMMA KeptIs ==
    ASSUME NEW M, NEW head, NEW body \in Seq(M), NEW maxTokens,
           NEW maxMessages \in Nat \cup {Unset}
    PROVE  \E n \in 0 .. Len(body) :
              /\ Kept(head, body, maxMessages, maxTokens) = LastOf(body, n)
              /\ maxMessages # Unset => n <= maxMessages
<1> DEFINE N == Len(body)
           Few(n) == maxMessages = Unset \/ n <= maxMessages
           Cheap(n) == maxTokens = Unset \/ Estimate(head \o LastOf(body, n)) <= maxTokens
           Ok(n) == /\ \A k \in 1 .. n : Few(k) /\ Cheap(k)
                    /\ n < N => ~ (Few(n + 1) /\ Cheap(n + 1))
           fitting == CHOOSE n \in 0 .. N : Ok(n)
           G == {k \in 1 .. N : Few(k) /\ Cheap(k)}
<1>1. N \in Nat
  OBVIOUS
<1>2. \E n \in 0 .. N : Ok(n)
  <2>1. PICK n \in 0 .. N : (\A i \in 1 .. n : i \in G) /\ (n < N => n + 1 \notin G)
    <3> HIDE DEF G, N
    <3> QED BY <1>1, LongestRun
  <2>2. n < N => n + 1 \in 1 .. N
    BY <1>1
  <2> HIDE DEF Few, Cheap
  <2> QED BY <2>1, <2>2
<1>3. fitting \in 0 .. N /\ \A k \in 1 .. fitting : Few(k)
  <2> HIDE DEF Few, Cheap
  <2> QED BY <1>2
<1>4. Kept(head, body, maxMessages, maxTokens) =
         IF fitting = 0 /\ body # <<>> /\ Few(1) THEN LastOf(body, 1) ELSE LastOf(body, fitting)
  BY DEF Kept
<1> HIDE DEF fitting
<1>5. CASE fitting = 0 /\ body # <<>> /\ Few(1)
  <2>1. 1 \in 0 .. N
    BY <1>5
  <2> QED BY <1>4, <1>5, <2>1
<1>6. CASE ~(fitting = 0 /\ body # <<>> /\ Few(1))
  <2>1. maxMessages # Unset => fitting <= maxMessages
    <3>1. CASE fitting = 0
      BY <3>1 DEF Unset
    <3>2. CASE fitting # 0
      <4>1. fitting \in 1 .. fitting
        BY <1>3, <3>2
      <4> QED BY <1>3, <4>1
    <3> QED BY <3>1, <3>2
  <2> QED BY <1>3, <1>4, <1>6, <2>1
<1> QED BY <1>5, <1>6

LEMMA Joined ==
    ASSUME NEW M, NEW a \in Seq(M), NEW b \in Seq(M)
    PROVE  /\ a \o b \in Seq(M) /\ Len(a \o b) = Len(a) + Len(b)
           /\ DOMAIN (a \o b) = 1 .. (Len(a) + Len(b))
           /\ \A i \in 1 .. Len(a) : (a \o b)[i] = a[i]
           /\ \A i \in 1 .. Len(b) : (a \o b)[Len(a) + i] = b[i]
<1>1. /\ a \o b \in Seq(M) /\ Len(a \o b) = Len(a) + Len(b) /\ Len(a) \in Nat /\ Len(b) \in Nat
      /\ DOMAIN (a \o b) = 1 .. (Len(a) + Len(b))
      /\ \A i \in 1 .. Len(a) : (a \o b)[i] = a[i]
  OBVIOUS
<1>2. \A i \in 1 .. Len(b) : (a \o b)[Len(a) + i] = b[i]
  BY <1>1
<1> QED BY <1>1, <1>2

LEMMA SplitAt ==
    ASSUME NEW M, NEW s \in Seq(M), NEW p \in 0 .. Len(s)
    PROVE  s = SubSeq(s, 1, p) \o LastOf(s, Len(s) - p)
<1> DEFINE a == SubSeq(s, 1, p)
           b == LastOf(s, Len(s) - p)
           c == a \o b
<1>1. Len(s) \in Nat /\ Len(s) - p \in 0 .. Len(s) /\ Len(s) - (Len(s) - p) = p
  OBVIOUS
<1>2. a \in Seq(M) /\ Len(a) = p /\ \A i \in 1 .. p : a[i] = s[i]
  BY <1>1
<1>3. /\ b \in Seq(M) /\ Len(b) = Len(s) - p
      /\ \A i \in 1 .. Len(s) - p : b[i] = s[p + i]
  <2> DEFINE k == Len(s) - p
  <2>1. k \in 0 .. Len(s) /\ Len(s) - k = p
    BY <1>1
  <2> HIDE DEF k
  <2>2. /\ LastOf(s, k) \in Seq(M) /\ Len(LastOf(s, k)) = k
        /\ \A i \in 1 .. k : LastOf(s, k)[i] = s[Len(s) - k + i]
    BY <2>1, LastOfIs
  <2>3. LastOf(s, k) = b /\ k = Len(s) - p
    BY DEF k
  <2> HIDE DEF b
  <2> QED BY <2>1, <2>2, <2>3
<1> HIDE DEF a, b
<1>4. /\ c \in Seq(M) /\ Len(c) = Len(a) + Len(b)
      /\ \A i \in 1 .. Len(a) : c[i] = a[i]
      /\ \A i \in 1 .. Len(b) : c[Len(a) + i] = b[i]
  BY <1>2, <1>3, Joined
<1> HIDE DEF c
<1>5. ASSUME NEW i \in 1 .. Len(s) PROVE c[i] = s[i]
  <2>1. CASE i \in 1 .. p
    BY <1>2, <1>4, <2>1
  <2>2. CASE i \notin 1 .. p
    <3>1. i - p \in 1 .. Len(s) - p /\ p + (i - p) = i
      BY <1>1, <2>2
    <3>2. c[p + (i - p)] = b[i - p]
      BY <1>2, <1>3, <1>4, <3>1
    <3> QED BY <1>3, <3>1, <3>2
  <2> QED BY <2>1, <2>2
<1>6. Len(c) = Len(s)
  BY <1>1, <1>2, <1>3, <1>4
<1>7. c = s
  BY <1>4, <1>5, <1>6
<1> QED BY <1>7 DEF a, b, c

\* Every tool message belongs to an assistant message that asked for it, with
\* nothing but tool messages in between.
Paired(messages) ==
    \A i \in DOMAIN messages : messages[i].role = "tool" =>
        \E j \in DOMAIN messages :
            /\ j < i /\ messages[j].role = "assistant"
            /\ messages[i].calls \subseteq messages[j].calls
            /\ \A k \in DOMAIN messages : j < k /\ k <= i => messages[k].role = "tool"

LEMMA CutKeepsPairs ==
    ASSUME NEW M, NEW messages \in Seq(M), Paired(messages),
           NEW head \in Seq(M), \A i \in DOMAIN head : head[i].role # "tool",
           NEW n \in 0 .. Len(messages),
           n > 0 => messages[Len(messages) - n + 1].role # "tool"
    PROVE  Paired(head \o LastOf(messages, n))
<1> DEFINE end == LastOf(messages, n)
           w == head \o end
           p == Len(head)
           off == Len(messages) - n
<1>1. /\ Len(messages) \in Nat /\ DOMAIN messages = 1 .. Len(messages)
      /\ p \in Nat /\ DOMAIN head = 1 .. p /\ n \in Nat /\ off \in Nat /\ off + n = Len(messages)
  OBVIOUS
<1>2. /\ end \in Seq(M) /\ Len(end) = n
      /\ \A i \in 1 .. n : end[i] = messages[off + i] /\ off + i \in 1 .. Len(messages)
  BY LastOfIs
<1> HIDE DEF end
<1>3. /\ DOMAIN w = 1 .. (p + n)
      /\ \A i \in 1 .. p : w[i] = head[i]
      /\ \A i \in 1 .. n : w[p + i] = end[i]
  <2>1. /\ DOMAIN w = 1 .. (Len(head) + Len(end))
        /\ \A i \in 1 .. Len(head) : w[i] = head[i]
        /\ \A i \in 1 .. Len(end) : w[Len(head) + i] = end[i]
    <3>1. end \in Seq(M)
      BY <1>2
    <3>2. head \in Seq(M)
      OBVIOUS
    <3> HIDE DEF w, p, off
    <3>3. /\ DOMAIN (head \o end) = 1 .. (Len(head) + Len(end))
          /\ \A i \in 1 .. Len(head) : (head \o end)[i] = head[i]
          /\ \A i \in 1 .. Len(end) : (head \o end)[Len(head) + i] = end[i]
      BY <3>1, <3>2, Joined
    <3> QED BY <3>3 DEF w
  <2> HIDE DEF w
  <2> QED BY <1>2, <2>1
<1>4. \A i \in 1 .. n : p + i \in DOMAIN w /\ w[p + i] = messages[off + i]
  <2>1. \A i \in 1 .. n : p + i \in 1 .. (p + n)
    BY <1>1
  <2> QED BY <1>2, <1>3, <2>1
<1>5. \A i \in DOMAIN w : i \in 1 .. p \/ (i - p \in 1 .. n /\ p + (i - p) = i)
  <2>1. DOMAIN w = 1 .. (p + n) /\ p \in Nat /\ n \in Nat
    BY <1>1, <1>3
  <2> HIDE DEF w, p, off
  <2> QED BY <2>1
<1> HIDE DEF w, p, off
<1>6. ASSUME NEW i \in DOMAIN w, w[i].role = "tool"
      PROVE  \E j \in DOMAIN w : /\ j < i /\ w[j].role = "assistant"
                                 /\ w[i].calls \subseteq w[j].calls
                                 /\ \A k \in DOMAIN w : j < k /\ k <= i => w[k].role = "tool"
  <2>1. i \notin 1 .. p
    BY <1>1, <1>3, <1>6
  <2> DEFINE x == i - p
  <2>2. x \in 1 .. n /\ p + x = i /\ w[i] = messages[off + x]
    BY <1>4, <1>5, <2>1
  <2>3. off + x \in DOMAIN messages
    BY <1>1, <2>2
  <2> HIDE DEF x
  <2>4. PICK j \in DOMAIN messages :
            /\ j < off + x /\ messages[j].role = "assistant"
            /\ messages[off + x].calls \subseteq messages[j].calls
            /\ \A k \in DOMAIN messages : j < k /\ k <= off + x => messages[k].role = "tool"
    BY <1>6, <2>2, <2>3 DEF Paired
  <2>5. j > off
    <3> SUFFICES ASSUME j <= off PROVE FALSE
      BY <1>1
    <3>1. off + 1 \in DOMAIN messages /\ j < off + 1 /\ off + 1 <= off + x /\ n > 0
      BY <1>1, <2>2
    <3> QED BY <2>4, <3>1 DEF off
  <2> DEFINE y == j - off
  <2>6. y \in 1 .. n /\ off + y = j /\ y < x
    BY <1>1, <2>2, <2>4, <2>5
  <2> HIDE DEF y
  <2>7. p + y \in DOMAIN w /\ w[p + y] = messages[j] /\ p + y < i
    <3>1. p + y \in DOMAIN w /\ w[p + y] = messages[off + y]
      BY <1>4, <2>6
    <3>2. p + y < p + x
      BY <1>1, <2>2, <2>6
    <3> QED BY <2>2, <2>6, <3>1, <3>2
  <2>8. ASSUME NEW k \in DOMAIN w, p + y < k, k <= i PROVE w[k].role = "tool"
    <3>1. k - p \in 1 .. n /\ p + (k - p) = k /\ y < k - p /\ k - p <= x
      <4>1. k \in 1 .. (p + n) /\ p \in Nat /\ n \in Nat /\ x \in 1 .. n /\ y \in 1 .. n
        BY <1>1, <1>3, <2>2, <2>6
      <4>2. p + y < k /\ k <= p + x
        BY <2>2, <2>8
      <4> QED BY <4>1, <4>2
    <3>2. w[k] = messages[off + (k - p)] /\ off + (k - p) \in DOMAIN messages
      <4>1. w[p + (k - p)] = messages[off + (k - p)]
        BY <1>4, <3>1
      <4>2. off + (k - p) \in DOMAIN messages
        BY <1>1, <3>1
      <4> QED BY <3>1, <4>1, <4>2
    <3>3. j < off + (k - p) /\ off + (k - p) <= off + x
      BY <1>1, <2>2, <2>6, <3>1
    <3> QED BY <2>4, <3>2, <3>3
  <2> QED BY <2>2, <2>4, <2>7, <2>8
<1> QED BY <1>6 DEF Paired, w, end

\* Wherever recentMessages cuts a conversation, for every estimate of what a message
\* costs and every pair of limits, what is left begins with the pinned system
\* messages, goes on with the end of the conversation, is no longer than the count
\* allows, and holds no tool result without the call it answers.
THEOREM WindowKeepsPairs ==
    ASSUME NEW M, NEW messages \in Seq(M), Paired(messages), NEW keepSystem \in BOOLEAN,
           NEW maxMessages \in Nat \cup {Unset}, NEW maxTokens
    PROVE  LET window == RecentMessages(messages, maxMessages, maxTokens, keepSystem)
               pinned == IF keepSystem THEN Leading(messages, "system") ELSE 0
           IN /\ Paired(window)
              /\ \E n \in 0 .. Len(messages) - pinned :
                    /\ window = SubSeq(messages, 1, pinned) \o LastOf(messages, n)
                    /\ maxMessages # Unset => n <= maxMessages
<1> DEFINE window == RecentMessages(messages, maxMessages, maxTokens, keepSystem)
           pinned == IF keepSystem THEN Leading(messages, "system") ELSE 0
           head == SubSeq(messages, 1, pinned)
           body == SubSeq(messages, pinned + 1, Len(messages))
           N == Len(messages)
<1>1. N \in Nat /\ DOMAIN messages = 1 .. N
  OBVIOUS
<1>2. pinned \in 0 .. N /\ \A i \in 1 .. pinned : messages[i].role = "system"
  BY <1>1, LeadingIs
<1> HIDE DEF pinned
<1>3. /\ head \in Seq(M) /\ Len(head) = pinned /\ DOMAIN head = 1 .. pinned
      /\ \A i \in 1 .. pinned : head[i] = messages[i]
  BY <1>1, <1>2
<1>4. body = LastOf(messages, N - pinned) /\ N - pinned \in 0 .. N /\ N - (N - pinned) + 1 = pinned + 1
  BY <1>1, <1>2 DEF LastOf
<1>5. body \in Seq(M) /\ Len(body) = N - pinned
  <2> HIDE DEF body, N
  <2> QED BY <1>4, LastOfIs DEF N
<1> HIDE DEF head, body
<1>6. CASE maxMessages = Unset /\ maxTokens = Unset
  <2>1. window = messages
    BY <1>6 DEF RecentMessages
  <2>2. messages = head \o body
    BY <1>2, <1>4, SplitAt DEF head
  <2>3. N - pinned \in 0 .. Len(messages) - pinned
    BY <1>1, <1>2
  <2> HIDE DEF window
  <2> QED BY <1>4, <1>6, <2>1, <2>2, <2>3 DEF head, window, pinned
<1>7. CASE ~(maxMessages = Unset /\ maxTokens = Unset)
  <2> DEFINE kept == Kept(head, body, maxMessages, maxTokens)
             rest == DropOrphanLeadingTools(kept)
  <2>1. window = head \o rest
    BY <1>7 DEF RecentMessages, head, body, pinned
  <2> HIDE DEF window
  <2>2. PICK n \in 0 .. Len(body) : kept = LastOf(body, n) /\ (maxMessages # Unset => n <= maxMessages)
    BY <1>5, KeptIs
  <2>3. /\ kept = LastOf(messages, n) /\ n \in 0 .. N /\ n \in 0 .. N - pinned
    BY <1>1, <1>2, <1>4, <1>5, <2>2, LastOfLast
  <2> HIDE DEF kept
  <2>4. kept \in Seq(M) /\ Len(kept) = n
    BY <2>3, LastOfIs
  <2> DEFINE t == Leading(kept, "tool")
             q == n - t
  <2>5. t \in 0 .. n /\ (t < n => kept[t + 1].role # "tool")
    BY <2>4, LeadingIs
  <2>6. rest = LastOf(kept, q)
    BY <2>4 DEF DropOrphanLeadingTools
  <2> HIDE DEF t
  <2>7. q \in 0 .. n /\ q \in 0 .. N /\ q \in 0 .. N - pinned
    BY <1>1, <1>2, <2>3, <2>5
  <2>8. rest = LastOf(messages, q)
    BY <2>3, <2>6, <2>7, LastOfLast
  <2>9. q > 0 => messages[N - q + 1].role # "tool"
    <3> SUFFICES ASSUME q > 0 PROVE messages[N - q + 1].role # "tool"
      OBVIOUS
    <3>1. t < n /\ t + 1 \in 1 .. n
      BY <2>3, <2>5
    <3>2. kept[t + 1] = messages[N - n + (t + 1)]
      BY <2>3, <3>1, LastOfIs
    <3>3. N - n + (t + 1) = N - q + 1
      BY <1>1, <2>3, <2>5
    <3> QED BY <2>5, <3>1, <3>2, <3>3
  <2> HIDE DEF q, rest
  <2>10. Paired(head \o LastOf(messages, q))
    <3>1. \A i \in DOMAIN head : head[i].role # "tool"
      BY <1>2, <1>3
    <3> QED BY <1>3, <2>7, <2>9, <3>1, CutKeepsPairs
  <2>11. maxMessages # Unset => q <= maxMessages
    <3>1. q <= n /\ q \in Int /\ n \in Int
      BY <2>3, <2>7
    <3>2. maxMessages # Unset => maxMessages \in Nat /\ n <= maxMessages
      BY <2>2
    <3> QED BY <3>1, <3>2
  <2> QED BY <2>1, <2>7, <2>8, <2>10, <2>11 DEF head, window, pinned
<1> QED BY <1>6, <1>7

(***************************************************************************)
(* The window of the agent's conversation.                                 *)
(***************************************************************************)
\* A message goes at the end; results go right behind the calls they answer.
LEMMA AppendKeepsPairs ==
    ASSUME NEW m \in Seq(Message), Paired(m), NEW x \in Message,
           x.role = "tool" => /\ m # <<>> /\ m[Len(m)].role = "assistant"
                              /\ x.calls \subseteq m[Len(m)].calls
    PROVE  Paired(m \o <<x>>)
<1> DEFINE n == Len(m)
           longer == m \o <<x>>
<1>1. /\ n \in Nat /\ DOMAIN m = 1 .. n /\ DOMAIN longer = 1 .. n + 1
      /\ longer[n + 1] = x /\ \A i \in 1 .. n : longer[i] = m[i]
      /\ m # <<>> => n > 0
  OBVIOUS
<1> HIDE DEF longer
<1>2. ASSUME NEW i \in DOMAIN longer, longer[i].role = "tool"
      PROVE  \E j \in DOMAIN longer :
                /\ j < i /\ longer[j].role = "assistant"
                /\ longer[i].calls \subseteq longer[j].calls
                /\ \A k \in DOMAIN longer : j < k /\ k <= i => longer[k].role = "tool"
  <2>1. CASE i = n + 1
    <3>1. n > 0 /\ m[n].role = "assistant" /\ x.calls \subseteq m[n].calls
      BY <1>1, <1>2, <2>1
    <3> HIDE DEF n
    <3>2. n \in DOMAIN longer /\ longer[n] = m[n] /\ n < i
      BY <1>1, <2>1, <3>1
    <3>3. \A k \in DOMAIN longer : n < k /\ k <= i => k = i
      BY <1>1, <2>1
    <3> QED
      BY <1>1, <1>2, <2>1, <3>1, <3>2, <3>3
  <2>2. CASE i # n + 1
    <3> HIDE DEF n
    <3>1. i \in DOMAIN m /\ longer[i] = m[i]
      BY <1>1, <2>2
    <3>2. PICK j \in DOMAIN m :
              /\ j < i /\ m[j].role = "assistant" /\ m[i].calls \subseteq m[j].calls
              /\ \A k \in DOMAIN m : j < k /\ k <= i => m[k].role = "tool"
      BY <1>2, <3>1 DEF Paired
    <3>3. j \in DOMAIN longer /\ longer[j] = m[j]
      BY <1>1
    <3>4. \A k \in DOMAIN longer : k <= i => k \in DOMAIN m /\ longer[k] = m[k]
      BY <1>1, <3>1
    <3> QED
      BY <3>1, <3>2, <3>3, <3>4
  <2> QED
    BY <2>1, <2>2
<1> QED
  BY <1>2 DEF Paired, longer

\* The calls that wait for their tools are those of the last message.
PairsOK(a) ==
    /\ Paired(a.msgs)
    /\ a.pending # {} => /\ a.msgs # <<>>
                         /\ a.msgs[Len(a.msgs)].role = "assistant"
                         /\ a.pending \subseteq a.msgs[Len(a.msgs)].calls
PairInv == PairsOK(agent) /\ PairsOK(saved.agent)

LEMMA PairStep ==
    ASSUME Careful, Typed, ReactInv, PairInv, [Next]_vars
    PROVE  PairInv'
<1> USE DEF PairInv, runVars, bounds, effects
<1>0. /\ agent \in Components /\ agent.msgs \in Seq(Message)
      /\ agent.pending \in SUBSET Call /\ PairsOK(agent) /\ PairsOK(saved.agent)
  BY DEF Typed, TypeOK, Components
\* What leaves the conversation and the calls alone, and saves at most the result.
<1>u. ASSUME agent'.msgs = agent.msgs, agent'.pending = agent.pending,
             saved'.agent \in {saved.agent, agent'}
      PROVE  PairInv'
  BY <1>0, <1>u DEF PairsOK
<1>1. CASE UNCHANGED vars
  BY <1>1, <1>u DEF vars
<1>2. CASE Send
  <2> DEFINE new == [agent EXCEPT !.msgs = Append(@, User), !.waiting = TRUE]
  <2>1. agent.pending = {} /\ agent' = new /\ saved' = saved
    BY <1>2 DEF Send, TurnClosed, Commit
  <2>2. new.msgs = agent.msgs \o <<User>> /\ new.pending = agent.pending
    BY <1>0 DEF Components
  <2>3. User \in Message /\ User.role = "user"
    BY DEF User, Message
  <2>4. Paired(new.msgs)
    BY <1>0, <2>2, <2>3, AppendKeepsPairs DEF PairsOK
  <2> QED
    BY <1>0, <2>1, <2>2, <2>4 DEF PairsOK
<1>3. ASSUME NEW answer \in {"yes", "no"}, Resume(answer)
      PROVE  PairInv'
  <2>1. agent' = [agent EXCEPT !.asked = {}, !.response = Given(answer)] /\ saved' = saved
    BY <1>3 DEF Resume, Commit
  <2> QED
    BY <1>0, <1>u, <2>1 DEF Components
<1>4. CASE RunAgain
  BY <1>4, <1>u DEF RunAgain
<1>5. CASE CancelIdle
  <2>1. agent' = [agent EXCEPT !.cancelled = TRUE] /\ saved' = saved
    BY <1>5 DEF CancelIdle, Commit
  <2> QED
    BY <1>0, <1>u, <2>1 DEF Components
<1>6. CASE CancelMidRun
  BY <1>6, <1>u DEF CancelMidRun
<1>7. CASE Uncancel
  <2>1. agent' = [agent EXCEPT !.cancelled = FALSE] /\ saved' = saved
    BY <1>7 DEF Uncancel, Commit
  <2> QED
    BY <1>0, <1>u, <2>1 DEF Components
<1>8. CASE Stamp
  <2>1. agent' = [agent EXCEPT !.cancelled = TRUE] /\ saved'.agent = agent'
    BY <1>8 DEF Stamp, Commit
  <2> QED
    BY <1>0, <1>u, <2>1 DEF Components
<1>9. CASE Quiesce
  BY <1>9, <1>u DEF Quiesce
<1>10. CASE LimitBreak
  BY <1>10, <1>u DEF LimitBreak
<1>11. CASE StepStart
  BY <1>11, <1>u DEF StepStart
<1>12. CASE Save
  BY <1>12, <1>u DEF Save
<1>13. ASSUME NEW llm \in {"none", "reply", "failed", "aborted"}, NEW kinds \in SUBSET Kind,
              Barrier(llm, kinds)
       PROVE  PairInv'
  <2> DEFINE calls == {replies + 1} \X kinds
             reply == [role |-> "assistant", calls |-> calls]
             results == [role |-> "tool", calls |-> agent.pending]
  <2>0. calls \in SUBSET Call /\ (llm # "reply" => calls = {})
    BY <1>13, AfterStepType DEF Barrier, Possible
  <2>1. agent' = AfterStep(llm, calls) /\ saved' = saved
    BY <1>13 DEF Barrier, Commit
  <2>2. CASE ToolsRun
    <3>1. agent.pending # {} /\ "callLLM" \notin Scheduled
      BY <2>2 DEF ToolsRun, Scheduled, Candidates, Matches, ReactInv, Sound
    <3>2. llm = "none"
      BY <1>13, <3>1 DEF Barrier, Possible
    <3>3. agent'.msgs = agent.msgs \o <<results>> /\ agent'.pending = {}
      BY <1>0, <2>1, <2>2, <3>2 DEF AfterStep, Reported
    <3>4. results \in Message /\ results.role = "tool" /\ results.calls = agent.pending
      BY <1>0 DEF Message
    <3>5. Paired(agent'.msgs)
      <4> HIDE DEF results
      <4> QED
        BY <1>0, <3>1, <3>3, <3>4, AppendKeepsPairs DEF PairsOK
    <3> QED
      BY <1>0, <2>1, <3>3, <3>5 DEF PairsOK
  <2>3. CASE ~ToolsRun /\ llm = "reply"
    <3>1. "callLLM" \in Scheduled
      BY <1>13, <2>3 DEF Barrier, Possible
    <3>2. agent.pending = {}
      BY <3>1 DEF Scheduled, Candidates, ReactInv, Sound
    <3>3. agent'.msgs = agent.msgs \o <<reply>> /\ agent'.pending = calls
      BY <1>0, <2>1, <2>3, <3>2 DEF AfterStep
    <3>4. reply \in Message /\ reply.role = "assistant" /\ reply.calls = calls
      BY <2>0 DEF Message
    <3> HIDE DEF reply, calls
    <3>5. Paired(agent'.msgs)
      BY <1>0, <3>3, <3>4, AppendKeepsPairs DEF PairsOK
    <3>6. agent'.msgs # <<>> /\ agent'.msgs[Len(agent'.msgs)] = reply
      BY <1>0, <3>3
    <3> QED
      BY <1>0, <2>1, <3>3, <3>4, <3>5, <3>6 DEF PairsOK
  <2>4. CASE ~ToolsRun /\ llm # "reply"
    <3>1. agent'.msgs = agent.msgs /\ agent'.pending = agent.pending
      BY <1>0, <2>0, <2>1, <2>4 DEF AfterStep
    <3> QED
      BY <1>u, <2>1, <3>1
  <2> QED
    BY <2>2, <2>3, <2>4
<1>14. ASSUME NEW ran \in SUBSET agent.pending, Crash(ran)
       PROVE  PairInv'
  BY <1>0, <1>14 DEF Crash
<1> QED
  BY <1>1, <1>2, <1>3, <1>4, <1>5, <1>6, <1>7, <1>8, <1>9, <1>10, <1>11, <1>12, <1>13, <1>14
     DEF Next, Application, Loop, Steps, Crashes

Sent == [role : {"system", "user", "assistant", "tool"}, calls : SUBSET Call]

\* What a provider is sent for a conversation: the system prompt in front, and one
\* tool message for each call.  `of` says which message of the conversation one sent
\* stands for, 0 for the prompt.
Sends(sent, messages) ==
    \E of \in [DOMAIN sent -> 0 .. Len(messages)] :
        /\ \A i, k \in DOMAIN sent : i <= k => of[i] <= of[k]
        /\ \A i \in DOMAIN sent :
              IF of[i] = 0 THEN sent[i].role = "system"
              ELSE sent[i].role = messages[of[i]].role /\ sent[i].calls \subseteq messages[of[i]].calls
        /\ \A j \in DOMAIN messages : messages[j].role = "assistant" =>
              \E i \in DOMAIN sent : /\ of[i] = j /\ sent[i].calls = messages[j].calls
                                     /\ \A k \in DOMAIN sent : of[k] = j => k = i

\* Splitting results into one message per call keeps each behind its call.
LEMMA SendingKeepsPairs ==
    ASSUME NEW messages \in Seq(Message), Paired(messages),
           NEW sent \in Seq(Sent), Sends(sent, messages)
    PROVE  Paired(sent)
<1>0. /\ Len(messages) \in Nat /\ DOMAIN messages = 1 .. Len(messages)
      /\ Len(sent) \in Nat /\ DOMAIN sent = 1 .. Len(sent)
  OBVIOUS
<1>1. PICK of \in [DOMAIN sent -> 0 .. Len(messages)] :
        /\ \A i, k \in DOMAIN sent : i <= k => of[i] <= of[k]
        /\ \A i \in DOMAIN sent :
              IF of[i] = 0 THEN sent[i].role = "system"
              ELSE sent[i].role = messages[of[i]].role /\ sent[i].calls \subseteq messages[of[i]].calls
        /\ \A j \in DOMAIN messages : messages[j].role = "assistant" =>
              \E i \in DOMAIN sent : /\ of[i] = j /\ sent[i].calls = messages[j].calls
                                     /\ \A k \in DOMAIN sent : of[k] = j => k = i
  BY DEF Sends
<1>2. ASSUME NEW i \in DOMAIN sent, sent[i].role = "tool"
      PROVE  \E j \in DOMAIN sent :
                /\ j < i /\ sent[j].role = "assistant" /\ sent[i].calls \subseteq sent[j].calls
                /\ \A k \in DOMAIN sent : j < k /\ k <= i => sent[k].role = "tool"
  <2> DEFINE t == of[i]
  <2>1. t \in DOMAIN messages /\ messages[t].role = "tool" /\ sent[i].calls \subseteq messages[t].calls
    BY <1>0, <1>1, <1>2
  <2> HIDE DEF t
  <2>2. PICK a \in DOMAIN messages :
            /\ a < t /\ messages[a].role = "assistant" /\ messages[t].calls \subseteq messages[a].calls
            /\ \A k \in DOMAIN messages : a < k /\ k <= t => messages[k].role = "tool"
    BY <2>1 DEF Paired
  <2>3. PICK j \in DOMAIN sent : /\ of[j] = a /\ sent[j].calls = messages[a].calls
                                 /\ \A k \in DOMAIN sent : of[k] = a => k = j
    BY <1>1, <2>2
  <2>4. sent[j].role = "assistant"
    BY <1>0, <1>1, <2>2, <2>3
  <2>5. j < i
    <3> SUFFICES ASSUME i <= j PROVE FALSE
      BY <1>0
    <3>1. t <= a
      BY <1>1, <2>3 DEF t
    <3> QED
      BY <1>0, <2>1, <2>2, <3>1
  <2>6. ASSUME NEW k \in DOMAIN sent, j < k, k <= i PROVE sent[k].role = "tool"
    <3>1. a <= of[k] /\ of[k] <= t
      BY <1>0, <1>1, <2>3, <2>6 DEF t
    <3>2. of[k] # a
      BY <1>0, <2>3, <2>6
    <3>3. of[k] \in DOMAIN messages /\ a < of[k]
      BY <1>0, <1>1, <2>2, <3>1, <3>2
    <3>4. messages[of[k]].role = "tool"
      BY <2>2, <3>1, <3>3
    <3> QED
      BY <1>0, <1>1, <3>3, <3>4
  <2> QED
    BY <2>1, <2>2, <2>3, <2>4, <2>5, <2>6
<1> QED
  BY <1>2 DEF Paired

\* Whatever the limits of a withMessageWindow around the model, what it sends of the
\* conversation holds no tool result without the call that asked for it: neither a cut
\* between an assistant message and its results nor one between two of the results
\* leaves one, in every state of the agent, whatever was cancelled, denied or restarted.
WindowsArePaired ==
    \A sent \in Seq(Sent), maxMessages \in Nat \cup {Unset}, maxTokens \in Nat \cup {Unset},
       keepSystem \in BOOLEAN :
        Sends(sent, agent.msgs) => Paired(RecentMessages(sent, maxMessages, maxTokens, keepSystem))

THEOREM WindowsStayPaired ==
    ASSUME Careful
    PROVE  Spec => []WindowsArePaired
<1>1. Init => PairInv
  BY DEF Init, PairInv, PairsOK, Paired, NewAgent
<1>2. Typed /\ ReactInv /\ PairInv /\ [Next]_vars => PairInv'
  BY PairStep
<1>3. Typed /\ PairInv => WindowsArePaired
  <2> SUFFICES ASSUME Typed, PairInv, NEW sent \in Seq(Sent), Sends(sent, agent.msgs),
                      NEW maxMessages \in Nat \cup {Unset}, NEW maxTokens \in Nat \cup {Unset},
                      NEW keepSystem \in BOOLEAN
               PROVE  Paired(RecentMessages(sent, maxMessages, maxTokens, keepSystem))
    BY DEF WindowsArePaired
  <2>1. agent.msgs \in Seq(Message) /\ Paired(agent.msgs)
    BY DEF Typed, TypeOK, Components, PairInv, PairsOK
  <2>2. Paired(sent)
    BY <2>1, SendingKeepsPairs
  <2> QED
    BY <2>2, WindowKeepsPairs
<1> QED
  BY <1>1, <1>2, <1>3, ReactInvHolds, PTL DEF Spec
-----------------------------------------------------------------------------
(***************************************************************************)
(* What callLLM puts into a request: one message after the other of the    *)
(* conversation, those that answer several calls split.                    *)
(***************************************************************************)
\* Every non-empty set of naturals has an element whose predecessor is not in it.
LEMMA Least ==
    ASSUME NEW B \in SUBSET Nat, B # {}
    PROVE  \E m \in B : m = 0 \/ (m - 1 \in Nat /\ m - 1 \notin B)
<1>1. PICK m \in B : \A y \in B : ~ (<<y, m>> \in OpToRel(<, Nat))
  BY WFMin, NatLessThanWellFounded
<1>2. \A y \in B : ~ (y < m)
  BY <1>1 DEF OpToRel
<1> QED BY <1>2

\* What the first k of the sequences make, joined.
Joins(h, seqs, M) ==
    /\ h \in [0 .. Len(seqs) -> Seq(M)]
    /\ h[0] = <<>>
    /\ \A k \in 1 .. Len(seqs) : h[k] = h[k - 1] \o seqs[k]

LEMMA Joinable ==
    ASSUME NEW M, NEW seqs \in Seq(Seq(M))
    PROVE  \E h : Joins(h, seqs, M)
<1> DEFINE n == Len(seqs)
           Good(m) == \E h \in [0 .. m -> Seq(M)] :
                         h[0] = <<>> /\ \A k \in 1 .. m : h[k] = h[k - 1] \o seqs[k]
           Bad == {m \in 0 .. n : ~ Good(m)}
<1>0. n \in Nat /\ \A k \in 1 .. n : seqs[k] \in Seq(M)
  OBVIOUS
<1> HIDE DEF n
<1>1. Bad = {}
  <2> SUFFICES ASSUME Bad # {} PROVE FALSE
    OBVIOUS
  <2>1. PICK m \in Bad : m = 0 \/ (m - 1 \in Nat /\ m - 1 \notin Bad)
    <3> HIDE DEF Good
    <3>1. Bad \in SUBSET Nat
      BY <1>0
    <3> HIDE DEF Bad
    <3> QED BY <3>1, Least
  <2>2. CASE m = 0
    <3> DEFINE h == [k \in 0 .. 0 |-> <<>>]
    <3>1. h \in [0 .. 0 -> Seq(M)] /\ h[0] = <<>> /\ \A k \in 1 .. 0 : h[k] = h[k - 1] \o seqs[k]
      <4>1. <<>> \in Seq(M)
        OBVIOUS
      <4> QED BY <4>1
    <3> HIDE DEF h
    <3>2. Good(0)
      BY <3>1
    <3> QED BY <2>2, <3>2
  <2>3. CASE m - 1 \in Nat /\ m - 1 \notin Bad
    <3>1. m \in 1 .. n /\ m - 1 \in 0 .. n /\ m \in Nat
      BY <1>0, <2>3
    <3>2. Good(m - 1)
      BY <2>3, <3>1
    <3>3. PICK f \in [0 .. m - 1 -> Seq(M)] :
             f[0] = <<>> /\ \A k \in 1 .. m - 1 : f[k] = f[k - 1] \o seqs[k]
      BY <3>2
    <3> HIDE DEF Bad
    <3> DEFINE y == f[m - 1] \o seqs[m]
    <3>4. y \in Seq(M)
      <4>1. f[m - 1] \in Seq(M) /\ seqs[m] \in Seq(M)
        BY <1>0, <3>1, <3>3
      <4> QED BY <4>1
    <3> DEFINE g == [k \in 0 .. m |-> IF k = m THEN y ELSE f[k]]
    <3>5. \A k \in 0 .. m : k = m \/ (k \in 0 .. m - 1 /\ k # m)
      BY <3>1
    <3>6. g \in [0 .. m -> Seq(M)]
      <4> HIDE DEF y
      <4> QED BY <3>1, <3>3, <3>4, <3>5
    <3>7. g[m] = y /\ \A k \in 0 .. m - 1 : g[k] = f[k]
      <4> HIDE DEF y
      <4>1. m \in 0 .. m /\ \A k \in 0 .. m - 1 : k \in 0 .. m /\ k # m
        BY <3>1
      <4> QED BY <4>1
    <3> HIDE DEF g
    <3>8. g[0] = <<>>
      BY <3>1, <3>3, <3>7
    <3>9. ASSUME NEW k \in 1 .. m PROVE g[k] = g[k - 1] \o seqs[k]
      <4>1. CASE k = m
        <5>1. m - 1 \in 0 .. m - 1
          BY <3>1
        <5> QED BY <3>7, <4>1, <5>1
      <4>2. CASE k # m
        <5>1. k \in 1 .. m - 1 /\ k \in 0 .. m - 1 /\ k - 1 \in 0 .. m - 1
          BY <3>1, <4>2
        <5> QED BY <3>3, <3>7, <5>1
      <4> QED BY <4>1, <4>2
    <3>10. Good(m)
      BY <3>6, <3>8, <3>9
    <3> QED BY <3>10 DEF Bad
  <2> QED BY <2>1, <2>2, <2>3
<1>2. Good(n)
  <2> HIDE DEF Good
  <2> QED BY <1>0, <1>1
<1> QED BY <1>2 DEF Joins, n

\* FlattenSeq joins the sequences from the first to the last.
LEMMA FlattenIs ==
    ASSUME NEW M, NEW seqs \in Seq(Seq(M))
    PROVE  \E h : Joins(h, seqs, M) /\ FlattenSeq(seqs) = h[Len(seqs)]
<1> DEFINE n == Len(seqs)
           Body(f) == [i \in 1 .. n |-> IF i = 1 THEN seqs[i] ELSE f[i - 1] \o seqs[i]]
           flatten == CHOOSE f : f = Body(f)
<1>0. n \in Nat /\ \A k \in 1 .. n : seqs[k] \in Seq(M)
  OBVIOUS
<1>1. FlattenSeq(seqs) = IF n = 0 THEN seqs ELSE flatten[n]
  BY DEF FlattenSeq
<1>2. PICK g : Joins(g, seqs, M)
  BY Joinable
<1>3. /\ g[0] = <<>> /\ \A k \in 1 .. n : g[k] = g[k - 1] \o seqs[k] /\ g[k] \in Seq(M)
  BY <1>2 DEF Joins
<1>4. CASE n = 0
  <2>1. seqs = <<>>
    BY <1>4
  <2> QED BY <1>1, <1>2, <1>3, <1>4, <2>1
<1>5. CASE n # 0
  <2>0. g[1] = <<>> \o seqs[1] /\ seqs[1] \in Seq(M)
    <3>1. 1 \in 1 .. n /\ 1 - 1 = 0
      BY <1>0, <1>5
    <3>2. g[1] = g[1 - 1] \o seqs[1]
      BY <1>3, <3>1
    <3> QED BY <1>0, <1>3, <3>1, <3>2
  <2>1. \E f : f = Body(f)
    <3> DEFINE f == [i \in 1 .. n |-> g[i]]
    <3>1. ASSUME NEW i \in 1 .. n PROVE f[i] = IF i = 1 THEN seqs[i] ELSE f[i - 1] \o seqs[i]
      <4>1. CASE i = 1
        <5>1. g[1] = <<>> \o seqs[1] /\ seqs[1] \in Seq(M)
          BY <2>0
        <5>2. <<>> \o seqs[1] = seqs[1]
          BY <5>1
        <5> QED BY <4>1, <5>1, <5>2
      <4>2. CASE i # 1
        <5>1. i - 1 \in 1 .. n
          BY <1>0, <4>2
        <5> QED BY <1>3, <4>2, <5>1
      <4> QED BY <4>1, <4>2
    <3>2. f = Body(f)
      BY <3>1
    <3> QED BY <3>2
  <2>2. flatten = Body(flatten)
    BY <2>1
  <2> HIDE DEF flatten
  <2>3. /\ flatten[1] = seqs[1]
        /\ \A k \in 1 .. n : k # 1 => flatten[k] = flatten[k - 1] \o seqs[k]
    <3>1. \A k \in 1 .. n : flatten[k] = IF k = 1 THEN seqs[k] ELSE flatten[k - 1] \o seqs[k]
      BY <2>2
    <3>2. 1 \in 1 .. n
      BY <1>0, <1>5
    <3> QED BY <3>1, <3>2
  <2> DEFINE Bad == {k \in 1 .. n : flatten[k] # g[k]}
  <2>4. Bad = {}
    <3> SUFFICES ASSUME Bad # {} PROVE FALSE
      OBVIOUS
    <3>1. PICK m \in Bad : m = 0 \/ (m - 1 \in Nat /\ m - 1 \notin Bad)
      <4>1. Bad \in SUBSET Nat
        BY <1>0
      <4> HIDE DEF Bad
      <4> QED BY <4>1, Least
    <3>2. m \in 1 .. n /\ flatten[m] # g[m]
      OBVIOUS
    <3>3. CASE m = 1
      <4>1. g[1] = <<>> \o seqs[1] /\ seqs[1] \in Seq(M)
        BY <2>0
      <4>2. <<>> \o seqs[1] = seqs[1]
        BY <4>1
      <4> QED BY <2>3, <3>2, <3>3, <4>1, <4>2
    <3>4. CASE m # 1
      <4>1. m - 1 \in 1 .. n /\ m - 1 \notin Bad
        BY <1>0, <3>1, <3>2, <3>4
      <4>2. flatten[m - 1] = g[m - 1]
        BY <4>1
      <4> QED BY <1>3, <2>3, <3>2, <3>4, <4>2
    <3> QED BY <3>3, <3>4
  <2>5. flatten[n] = g[n]
    BY <1>0, <1>5, <2>4
  <2> QED BY <1>1, <1>2, <1>5, <2>5
<1> QED BY <1>4, <1>5

\* SetToSeq lists a finite set.
LEMMA ListedIs ==
    ASSUME NEW S, IsFiniteSet(S)
    PROVE  SetToSeq(S) \in Seq(S)
<1> DEFINE n == Cardinality(S)
<1>1. n \in Nat /\ ExistsBijection(1 .. n, S)
  BY FS_CardinalityType
<1>2. \E f \in [1 .. n -> S] : IsInjective(f)
  BY <1>1 DEF ExistsBijection, Bijection, Injection
<1>3. SetToSeq(S) \in [1 .. n -> S]
  BY <1>2 DEF SetToSeq
<1> QED BY <1>1, <1>3

\* A message becomes messages of its role, each with some of its calls, and one that
\* is not a tool message stays as it is.
LEMMA PartsIs ==
    ASSUME NEW m \in Message
    PROVE  /\ Parts(m) \in Seq(Sent)
           /\ \A i \in DOMAIN Parts(m) : Parts(m)[i].role = m.role /\ Parts(m)[i].calls \subseteq m.calls
           /\ m.role # "tool" => Len(Parts(m)) = 1 /\ Parts(m)[1] = m
<1>1. m.role \in {"user", "assistant", "tool"} /\ m.calls \in SUBSET Call /\ m \in Sent
  BY DEF Message, Sent
<1>2. CASE m.role = "tool"
  <2> DEFINE calls == SetToSeq(m.calls)
  <2>1. IsFiniteSet(m.calls)
    <3>1. IsFiniteSet(1 .. MaxReplies) /\ IsFiniteSet(Kind)
      <4>1. Kind = {"safe"} \cup {"sensitive"}
        BY DEF Kind
      <4>2. IsFiniteSet({"safe"}) /\ IsFiniteSet({"sensitive"})
        BY FS_Singleton
      <4>3. IsFiniteSet(Kind)
        BY <4>1, <4>2, FS_Union
      <4>4. 1 \in Int /\ MaxReplies \in Int
        BY ReactAssumption
      <4> QED BY <4>3, <4>4, FS_Interval
    <3>2. IsFiniteSet(Call)
      BY <3>1, FS_Product DEF Call
    <3> QED BY <1>1, <3>2, FS_Subset
  <2>2. calls \in Seq(m.calls)
    BY <2>1, ListedIs
  <2> HIDE DEF calls
  <2>3. DOMAIN calls = 1 .. Len(calls) /\ Len(calls) \in Nat /\ \A i \in DOMAIN calls : calls[i] \in m.calls
    BY <2>2
  <2>4. Parts(m) = [i \in DOMAIN calls |-> [role |-> "tool", calls |-> {calls[i]}]]
    BY <1>2 DEF Parts, calls
  <2>5. \A i \in DOMAIN calls : [role |-> "tool", calls |-> {calls[i]}] \in Sent
    BY <1>1, <2>3 DEF Sent
  <2>6. Parts(m) \in [1 .. Len(calls) -> Sent]
    BY <2>3, <2>4, <2>5
  <2> QED BY <1>2, <2>3, <2>4, <2>6
<1>3. CASE m.role # "tool"
  <2>1. Parts(m) = <<m>>
    BY <1>3 DEF Parts
  <2> QED BY <1>1, <1>3, <2>1
<1> QED BY <1>2, <1>3

\* `list` is what the first k messages of the conversation become.
LaidOut(list, msgs, k) ==
    \E of \in [DOMAIN list -> 1 .. k] :
        /\ \A i, j \in DOMAIN list : i <= j => of[i] <= of[j]
        /\ \A i \in DOMAIN list : /\ list[i].role = msgs[of[i]].role
                                  /\ list[i].calls \subseteq msgs[of[i]].calls
        /\ \A j \in 1 .. k : msgs[j].role = "assistant" =>
              \E i \in DOMAIN list : /\ of[i] = j /\ list[i].calls = msgs[j].calls
                                     /\ \A x \in DOMAIN list : of[x] = j => x = i

LEMMA LaidOutFurther ==
    ASSUME NEW msgs \in Seq(Message), NEW k \in 1 .. Len(msgs),
           NEW list \in Seq(Sent), LaidOut(list, msgs, k - 1)
    PROVE  LaidOut(list \o Parts(msgs[k]), msgs, k)
<1> DEFINE p == Parts(msgs[k])
           n == Len(list)
           longer == list \o p
<1>0. msgs[k] \in Message /\ k \in Nat /\ k - 1 \in Nat
  OBVIOUS
<1>1. /\ p \in Seq(Sent)
      /\ \A i \in DOMAIN p : p[i].role = msgs[k].role /\ p[i].calls \subseteq msgs[k].calls
      /\ msgs[k].role # "tool" => Len(p) = 1 /\ p[1] = msgs[k]
  BY <1>0, PartsIs
<1> HIDE DEF p
<1>2. /\ DOMAIN longer = 1 .. (n + Len(p))
      /\ \A i \in 1 .. n : longer[i] = list[i]
      /\ \A i \in 1 .. Len(p) : longer[n + i] = p[i]
  BY <1>1, Joined
<1>3. n \in Nat /\ DOMAIN list = 1 .. n /\ Len(p) \in Nat /\ DOMAIN p = 1 .. Len(p)
  BY <1>1
<1> HIDE DEF longer, n
<1>4. PICK of \in [DOMAIN list -> 1 .. k - 1] :
        /\ \A i, j \in DOMAIN list : i <= j => of[i] <= of[j]
        /\ \A i \in DOMAIN list : /\ list[i].role = msgs[of[i]].role
                                  /\ list[i].calls \subseteq msgs[of[i]].calls
        /\ \A j \in 1 .. k - 1 : msgs[j].role = "assistant" =>
              \E i \in DOMAIN list : /\ of[i] = j /\ list[i].calls = msgs[j].calls
                                     /\ \A x \in DOMAIN list : of[x] = j => x = i
  BY DEF LaidOut
<1>5. \A i \in 1 .. n : of[i] \in 1 .. k - 1
  BY <1>3, <1>4
<1> DEFINE to == [i \in DOMAIN longer |-> IF i <= n THEN of[i] ELSE k]
<1>6. /\ \A i \in 1 .. n : i \in DOMAIN longer /\ to[i] = of[i] /\ longer[i] = list[i]
      /\ \A i \in DOMAIN longer : i \notin 1 .. n => to[i] = k /\ i - n \in DOMAIN p /\ longer[i] = p[i - n]
  <2>1. \A i \in 1 .. n : i \in DOMAIN longer /\ i <= n
    BY <1>2, <1>3
  <2>2. ASSUME NEW i \in DOMAIN longer, i \notin 1 .. n
        PROVE  ~ (i <= n) /\ i - n \in 1 .. Len(p) /\ n + (i - n) = i
    BY <1>2, <1>3, <2>2
  <2> QED BY <1>2, <1>3, <2>1, <2>2
<1>7. to \in [DOMAIN longer -> 1 .. k]
  <2>1. \A i \in DOMAIN longer : to[i] \in 1 .. k
    BY <1>0, <1>5, <1>6
  <2> QED BY <2>1
<1> HIDE DEF to
<1>8. ASSUME NEW i \in DOMAIN longer, NEW j \in DOMAIN longer, i <= j PROVE to[i] <= to[j]
  <2>1. CASE j \in 1 .. n
    <3>1. i \in 1 .. n
      BY <1>2, <1>3, <1>8, <2>1
    <3> QED BY <1>3, <1>4, <1>6, <1>8, <2>1, <3>1
  <2>2. CASE j \notin 1 .. n
    BY <1>0, <1>6, <1>7, <2>2
  <2> QED BY <2>1, <2>2
<1>9. ASSUME NEW i \in DOMAIN longer
      PROVE  longer[i].role = msgs[to[i]].role /\ longer[i].calls \subseteq msgs[to[i]].calls
  <2>1. CASE i \in 1 .. n
    BY <1>3, <1>4, <1>6, <2>1
  <2>2. CASE i \notin 1 .. n
    BY <1>1, <1>6, <2>2
  <2> QED BY <2>1, <2>2
<1>10. ASSUME NEW j \in 1 .. k, msgs[j].role = "assistant"
       PROVE  \E i \in DOMAIN longer : /\ to[i] = j /\ longer[i].calls = msgs[j].calls
                                       /\ \A x \in DOMAIN longer : to[x] = j => x = i
  <2>1. CASE j = k
    <3>1. Len(p) = 1 /\ p[1] = msgs[k]
      BY <1>1, <1>10, <2>1
    <3>2. n + 1 \in DOMAIN longer /\ longer[n + 1] = msgs[k] /\ n + 1 \notin 1 .. n
      BY <1>2, <1>3, <3>1
    <3>3. to[n + 1] = k
      BY <1>6, <3>2
    <3>4. ASSUME NEW x \in DOMAIN longer, to[x] = k PROVE x = n + 1
      <4>1. x \notin 1 .. n
        BY <1>0, <1>5, <1>6, <3>4
      <4> QED BY <1>2, <1>3, <3>1, <4>1
    <3> QED BY <2>1, <3>2, <3>3, <3>4
  <2>2. CASE j # k
    <3>1. j \in 1 .. k - 1
      BY <1>0, <2>2
    <3>2. PICK i \in DOMAIN list : /\ of[i] = j /\ list[i].calls = msgs[j].calls
                                   /\ \A x \in DOMAIN list : of[x] = j => x = i
      BY <1>4, <1>10, <3>1
    <3>3. i \in DOMAIN longer /\ to[i] = j /\ longer[i] = list[i]
      BY <1>3, <1>6, <3>2
    <3>4. ASSUME NEW x \in DOMAIN longer, to[x] = j PROVE x = i
      <4>1. x \in 1 .. n
        BY <1>6, <2>2, <3>4
      <4> QED BY <1>3, <1>6, <3>2, <3>4, <4>1
    <3> QED BY <3>2, <3>3, <3>4
  <2> QED BY <2>1, <2>2
<1>11. LaidOut(longer, msgs, k)
  BY <1>7, <1>8, <1>9, <1>10 DEF LaidOut
<1> QED BY <1>11 DEF longer, p

LEMMA RequestIs ==
    ASSUME NEW msgs \in Seq(Message)
    PROVE  RequestMessages(msgs) \in Seq(Sent) /\ LaidOut(RequestMessages(msgs), msgs, Len(msgs))
<1> DEFINE n == Len(msgs)
           seqs == [i \in DOMAIN msgs |-> Parts(msgs[i])]
<1>1. n \in Nat /\ DOMAIN msgs = 1 .. n /\ \A i \in 1 .. n : msgs[i] \in Message
  OBVIOUS
<1>2. seqs \in Seq(Seq(Sent)) /\ Len(seqs) = n /\ \A i \in 1 .. n : seqs[i] = Parts(msgs[i])
  <2>1. \A i \in 1 .. n : Parts(msgs[i]) \in Seq(Sent)
    BY <1>1, PartsIs
  <2>2. seqs \in [1 .. n -> Seq(Sent)]
    BY <1>1, <2>1
  <2>3. \A i \in 1 .. n : seqs[i] = Parts(msgs[i])
    BY <1>1
  <2> HIDE DEF seqs, n
  <2> QED BY <1>1, <2>2, <2>3
<1>3. RequestMessages(msgs) = FlattenSeq(seqs)
  BY DEF RequestMessages
<1> HIDE DEF seqs
<1>4. PICK h : Joins(h, seqs, Sent) /\ FlattenSeq(seqs) = h[Len(seqs)]
  BY <1>2, FlattenIs
<1>5. /\ h[0] = <<>>
      /\ \A k \in 0 .. n : h[k] \in Seq(Sent)
      /\ \A k \in 1 .. n : h[k] = h[k - 1] \o Parts(msgs[k])
  BY <1>2, <1>4 DEF Joins
<1> HIDE DEF n
<1> DEFINE Bad == {k \in 0 .. n : ~ LaidOut(h[k], msgs, k)}
<1>6. Bad = {}
  <2> SUFFICES ASSUME Bad # {} PROVE FALSE
    OBVIOUS
  <2>1. PICK m \in Bad : m = 0 \/ (m - 1 \in Nat /\ m - 1 \notin Bad)
    <3>1. Bad \in SUBSET Nat
      BY <1>1
    <3> HIDE DEF Bad
    <3> QED BY <3>1, Least
  <2>2. CASE m = 0
    <3>1. LaidOut(<<>>, msgs, 0)
      <4> DEFINE of == [i \in {} |-> 0]
      <4>1. of \in [DOMAIN <<>> -> 1 .. 0] /\ DOMAIN <<>> = {} /\ 1 .. 0 = {}
        OBVIOUS
      <4> HIDE DEF of, Bad
      <4> QED BY <4>1 DEF LaidOut
    <3> QED BY <1>5, <2>2, <3>1
  <2>3. CASE m # 0
    <3>1. m \in 1 .. n /\ m - 1 \in 0 .. n /\ m - 1 \notin Bad
      BY <1>1, <2>1, <2>3
    <3>2. LaidOut(h[m - 1], msgs, m - 1) /\ h[m - 1] \in Seq(Sent)
      BY <1>5, <3>1
    <3>3. LaidOut(h[m - 1] \o Parts(msgs[m]), msgs, m)
      <4> HIDE DEF Bad
      <4> QED BY <3>1, <3>2, LaidOutFurther DEF n
    <3> QED BY <1>5, <3>1, <3>3
  <2> QED BY <2>2, <2>3
<1>7. LaidOut(h[n], msgs, n) /\ h[n] \in Seq(Sent)
  BY <1>1, <1>5, <1>6
<1> QED BY <1>2, <1>3, <1>4, <1>7 DEF n

\* A request is the system message there is, and then the conversation laid out.
LEMMA SentIs ==
    ASSUME NEW msgs \in Seq(Message), NEW opening \in Openings
    PROVE  LET sent == opening \o RequestMessages(msgs)
           IN /\ opening \in Seq(Sent) /\ sent \in Seq(Sent)
              /\ Sends(sent, msgs)
              /\ Leading(sent, "system") = Len(opening)
<1> DEFINE rest == RequestMessages(msgs)
           sent == opening \o rest
           p == Len(opening)
           n == Len(rest)
<1>1. rest \in Seq(Sent) /\ LaidOut(rest, msgs, Len(msgs))
  BY RequestIs
<1>2. /\ opening \in Seq(Sent) /\ p \in 0 .. 1
      /\ \A i \in 1 .. p : opening[i].role = "system"
  <2>1. [role |-> "system", calls |-> {}] \in Sent
    BY DEF Sent
  <2>2. CASE opening = <<>>
    BY <2>2
  <2>3. CASE opening # <<>>
    <3> DEFINE prompt == [role |-> "system", calls |-> {}]
    <3>1. opening = <<prompt>> /\ prompt \in Sent /\ prompt.role = "system"
      BY <2>1, <2>3 DEF Openings
    <3> HIDE DEF prompt
    <3> QED BY <3>1
  <2> QED BY <2>2, <2>3
<1> HIDE DEF rest
<1>3. /\ sent \in Seq(Sent) /\ Len(sent) = p + n /\ DOMAIN sent = 1 .. p + n
      /\ \A i \in 1 .. p : sent[i] = opening[i]
      /\ \A i \in 1 .. n : sent[p + i] = rest[i]
  BY <1>1, <1>2, Joined
<1>4. n \in Nat /\ DOMAIN rest = 1 .. n /\ p \in Nat /\ Len(msgs) \in Nat /\ DOMAIN msgs = 1 .. Len(msgs)
  BY <1>1, <1>2
<1> HIDE DEF sent, p, n
<1>5. PICK of \in [DOMAIN rest -> 1 .. Len(msgs)] :
        /\ \A i, j \in DOMAIN rest : i <= j => of[i] <= of[j]
        /\ \A i \in DOMAIN rest : /\ rest[i].role = msgs[of[i]].role
                                  /\ rest[i].calls \subseteq msgs[of[i]].calls
        /\ \A j \in 1 .. Len(msgs) : msgs[j].role = "assistant" =>
              \E i \in DOMAIN rest : /\ of[i] = j /\ rest[i].calls = msgs[j].calls
                                     /\ \A x \in DOMAIN rest : of[x] = j => x = i
  BY <1>1 DEF LaidOut
<1>6. \A i \in 1 .. n : of[i] \in DOMAIN msgs
  BY <1>4, <1>5
<1> DEFINE to == [i \in DOMAIN sent |-> IF i <= p THEN 0 ELSE of[i - p]]
<1>7. /\ \A i \in DOMAIN sent : i \in 1 .. p => to[i] = 0
      /\ \A i \in DOMAIN sent : i \notin 1 .. p =>
            i - p \in DOMAIN rest /\ to[i] = of[i - p] /\ sent[i] = rest[i - p]
      /\ \A i \in DOMAIN rest : p + i \in DOMAIN sent /\ p + i \notin 1 .. p /\ (p + i) - p = i
  <2>1. ASSUME NEW i \in DOMAIN sent, i \notin 1 .. p
        PROVE  ~ (i <= p) /\ i - p \in 1 .. n /\ p + (i - p) = i
    BY <1>3, <1>4, <2>1
  <2>2. \A i \in DOMAIN rest : p + i \in DOMAIN sent /\ p + i \notin 1 .. p /\ (p + i) - p = i
    BY <1>3, <1>4
  <2>3. \A i \in 1 .. p : i <= p
    BY <1>4
  <2> QED BY <1>3, <1>4, <2>1, <2>2, <2>3
<1>8. to \in [DOMAIN sent -> 0 .. Len(msgs)]
  <2>1. \A i \in DOMAIN sent : to[i] \in 0 .. Len(msgs)
    BY <1>4, <1>6, <1>7
  <2> QED BY <2>1
<1> HIDE DEF to
<1>9. Sends(sent, msgs)
  <2>1. ASSUME NEW i \in DOMAIN sent, NEW k \in DOMAIN sent, i <= k PROVE to[i] <= to[k]
    <3>1. CASE i \in 1 .. p
      BY <1>4, <1>7, <1>8, <3>1
    <3>2. CASE i \notin 1 .. p
      <4>1. k \notin 1 .. p /\ i - p <= k - p
        BY <1>3, <1>4, <2>1, <3>2
      <4> QED BY <1>5, <1>7, <3>2, <4>1
    <3> QED BY <3>1, <3>2
  <2>2. ASSUME NEW i \in DOMAIN sent
        PROVE  IF to[i] = 0 THEN sent[i].role = "system"
               ELSE sent[i].role = msgs[to[i]].role /\ sent[i].calls \subseteq msgs[to[i]].calls
    <3>1. CASE i \in 1 .. p
      BY <1>2, <1>3, <1>7, <3>1
    <3>2. CASE i \notin 1 .. p
      <4>1. to[i] # 0
        BY <1>4, <1>6, <1>7, <3>2
      <4> QED BY <1>5, <1>7, <3>2, <4>1
    <3> QED BY <3>1, <3>2
  <2>3. ASSUME NEW j \in DOMAIN msgs, msgs[j].role = "assistant"
        PROVE  \E i \in DOMAIN sent : /\ to[i] = j /\ sent[i].calls = msgs[j].calls
                                      /\ \A k \in DOMAIN sent : to[k] = j => k = i
    <3>1. PICK i \in DOMAIN rest : /\ of[i] = j /\ rest[i].calls = msgs[j].calls
                                   /\ \A x \in DOMAIN rest : of[x] = j => x = i
      BY <1>4, <1>5, <2>3
    <3>2. p + i \in DOMAIN sent /\ to[p + i] = j /\ sent[p + i].calls = msgs[j].calls
      BY <1>7, <3>1
    <3>3. ASSUME NEW k \in DOMAIN sent, to[k] = j PROVE k = p + i
      <4>1. k \notin 1 .. p
        BY <1>4, <1>7, <3>3
      <4>2. k - p = i
        BY <1>7, <3>1, <3>3, <4>1
      <4> QED BY <1>3, <1>4, <4>2
    <3> QED BY <3>2, <3>3
  <2> QED BY <1>8, <2>1, <2>2, <2>3 DEF Sends
<1>10. \A i \in DOMAIN rest : rest[i].role # "system"
  <2>1. \A j \in DOMAIN msgs : msgs[j] \in Message
    OBVIOUS
  <2>2. \A m \in Message : m.role # "system"
    BY DEF Message
  <2> QED BY <1>4, <1>5, <1>6, <2>1, <2>2
<1>11. Leading(sent, "system") = p
  <2> DEFINE l == Leading(sent, "system")
  <2>1. /\ l \in 0 .. p + n /\ \A i \in 1 .. l : sent[i].role = "system"
        /\ l < p + n => sent[l + 1].role # "system"
    BY <1>3, LeadingIs
  <2> HIDE DEF l
  <2>2. ~ (l < p)
    <3> SUFFICES ASSUME l < p PROVE FALSE
      OBVIOUS
    <3>1. l + 1 \in 1 .. p /\ l < p + n
      BY <1>4, <2>1
    <3> QED BY <1>2, <1>3, <2>1, <3>1
  <2>3. ~ (l > p)
    <3> SUFFICES ASSUME l > p PROVE FALSE
      OBVIOUS
    <3>1. p + 1 \in 1 .. l /\ p + 1 \in DOMAIN sent /\ p + 1 \notin 1 .. p /\ 1 \in 1 .. n
      BY <1>3, <1>4, <2>1
    <3>2. sent[p + 1] = rest[1] /\ 1 \in DOMAIN rest
      BY <1>3, <1>4, <3>1
    <3> QED BY <1>10, <2>1, <3>1, <3>2
  <2>4. l = p
    BY <1>4, <2>1, <2>2, <2>3
  <2> QED BY <2>4 DEF l
<1> QED BY <1>2, <1>3, <1>9, <1>11 DEF sent, p, rest

\* The last n of a sequence are its end.
LEMMA LastOfIsSuffix ==
    ASSUME NEW M, NEW s \in Seq(M), NEW n \in 0 .. Len(s)
    PROVE  IsSuffix(LastOf(s, n), s)
<1> DEFINE l == LastOf(s, n)
           a == Reverse(l)
           b == Reverse(s)
           N == Len(s)
<1>1. N \in Nat /\ n \in Nat /\ n <= N /\ \A i \in 1 .. N : s[i] \in M
  OBVIOUS
<1>2. /\ l \in Seq(M) /\ Len(l) = n
      /\ \A i \in 1 .. n : l[i] = s[N - n + i]
  BY LastOfIs
<1> HIDE DEF l, N
<1>3. a = [i \in 1 .. n |-> l[(n - i) + 1]]
  BY <1>2 DEF Reverse
<1>4. b = [i \in 1 .. N |-> s[(N - i) + 1]]
  BY DEF Reverse, N
<1> HIDE DEF a, b
<1>5. a \in Seq(M) /\ Len(a) = n
  <2>1. \A i \in 1 .. n : l[(n - i) + 1] \in M
    BY <1>1, <1>2
  <2>2. a \in [1 .. n -> M]
    BY <1>3, <2>1
  <2> QED BY <1>1, <2>2
<1>6. b \in Seq(M) /\ Len(b) = N
  <2>1. \A i \in 1 .. N : s[(N - i) + 1] \in M
    BY <1>1
  <2>2. b \in [1 .. N -> M]
    BY <1>4, <2>1
  <2> QED BY <1>1, <2>2
<1>7. \A i \in 1 .. n : a[i] = b[i]
  <2> TAKE i \in 1 .. n
  <2>1. (n - i) + 1 \in 1 .. n /\ i \in 1 .. N /\ N - n + ((n - i) + 1) = (N - i) + 1
    BY <1>1
  <2> QED BY <1>2, <1>3, <1>4, <2>1
<1>8. SubSeq(a, 1, n) = SubSeq(b, 1, n)
  <2>1. /\ SubSeq(a, 1, n) = [i \in 1 .. n |-> a[i]]
        /\ SubSeq(b, 1, n) = [i \in 1 .. n |-> b[i]]
    <3>1. \A i \in 1 .. n : 1 + i - 1 = i
      BY <1>1
    <3> QED BY <1>1, <1>5, <1>6, <3>1
  <2> QED BY <1>7, <2>1
<1>9. IsPrefix(a, b)
  BY <1>1, <1>5, <1>6, <1>8 DEF IsPrefix
<1> QED BY <1>9 DEF IsSuffix, a, b, l

\* What a window begins and ends with, of a conversation that follows an opening.
LEMMA WindowEnds ==
    ASSUME NEW M, NEW opening \in Seq(M), NEW rest \in Seq(M), NEW n \in 0 .. Len(rest)
    PROVE  LET window == opening \o LastOf(opening \o rest, n)
           IN /\ window \in Seq(M)
              /\ IsPrefix(opening, window)
              /\ IsSuffix(SubSeq(window, Len(opening) + 1, Len(window)), rest)
<1> DEFINE sent == opening \o rest
           end == LastOf(sent, n)
           window == opening \o end
           p == Len(opening)
           N == Len(rest)
           tail == SubSeq(window, p + 1, Len(window))
<1>1. p \in Nat /\ N \in Nat /\ n \in Nat /\ n <= N
  OBVIOUS
<1>2. /\ sent \in Seq(M) /\ Len(sent) = p + N
      /\ \A i \in 1 .. N : sent[p + i] = rest[i]
  BY Joined
<1> HIDE DEF sent
<1>3. /\ end \in Seq(M) /\ Len(end) = n
      /\ \A i \in 1 .. n : end[i] = sent[(p + N) - n + i]
  <2>1. n \in 0 .. Len(sent)
    BY <1>1, <1>2
  <2> HIDE DEF sent
  <2>2. /\ LastOf(sent, n) \in Seq(M) /\ Len(LastOf(sent, n)) = n
        /\ \A i \in 1 .. n : LastOf(sent, n)[i] = sent[Len(sent) - n + i]
    BY <1>2, <2>1, LastOfIs
  <2> QED BY <1>2, <2>2
<1> HIDE DEF end
<1>4. /\ window \in Seq(M) /\ Len(window) = p + n
      /\ \A i \in 1 .. p : window[i] = opening[i]
      /\ \A i \in 1 .. n : window[p + i] = end[i]
  <2> HIDE DEF window, tail, p, N
  <2>0. opening \in Seq(M) /\ end \in Seq(M)
    BY <1>3
  <2>1. /\ opening \o end \in Seq(M) /\ Len(opening \o end) = Len(opening) + Len(end)
        /\ \A i \in 1 .. Len(opening) : (opening \o end)[i] = opening[i]
        /\ \A i \in 1 .. Len(end) : (opening \o end)[Len(opening) + i] = end[i]
    BY <2>0, Joined
  <2> QED BY <1>3, <2>1 DEF window, p
<1>5. LastOf(rest, n) \in Seq(M) /\ Len(LastOf(rest, n)) = n
      /\ \A i \in 1 .. n : LastOf(rest, n)[i] = rest[N - n + i] /\ N - n + i \in 1 .. N
  BY LastOfIs
<1> HIDE DEF window, p, N
<1>6. IsPrefix(opening, window)
  <2>1. SubSeq(opening, 1, p) = [i \in 1 .. p |-> opening[i]]
    BY <1>1 DEF p
  <2>2. SubSeq(window, 1, p) = [i \in 1 .. p |-> window[i]]
    BY <1>1, <1>4
  <2>3. SubSeq(opening, 1, p) = SubSeq(window, 1, p)
    BY <1>4, <2>1, <2>2
  <2> QED BY <1>1, <1>4, <2>3 DEF IsPrefix, p
<1>7. tail = LastOf(rest, n)
  <2>1. tail \in Seq(M) /\ Len(tail) = n /\ \A i \in 1 .. n : tail[i] = window[p + i]
    <3>1. p + 1 \in 1 .. p + n + 1 /\ p + n <= Len(window)
      BY <1>1, <1>4
    <3> QED BY <1>1, <1>4, <3>1
  <2> HIDE DEF tail
  <2>2. \A i \in 1 .. n : tail[i] = LastOf(rest, n)[i]
    <3> TAKE i \in 1 .. n
    <3>1. N - n + i \in 1 .. N /\ p + (N - n + i) = (p + N) - n + i
      BY <1>1
    <3>2. sent[p + (N - n + i)] = rest[N - n + i]
      BY <1>2, <3>1 DEF N
    <3> QED BY <1>3, <1>4, <1>5, <2>1, <3>1, <3>2
  <2> QED BY <1>5, <2>1, <2>2
<1>8. IsSuffix(tail, rest)
  BY <1>7, LastOfIsSuffix
<1> QED BY <1>4, <1>6, <1>8 DEF window, end, sent, p

LEMMA PinnedWindow ==
    ASSUME NEW M, NEW messages \in Seq(M), Paired(messages),
           NEW maxMessages \in Nat \cup {Unset}, NEW maxTokens
    PROVE  LET window == RecentMessages(messages, maxMessages, maxTokens, TRUE)
               pinned == Leading(messages, "system")
           IN /\ Paired(window)
              /\ \E n \in 0 .. Len(messages) - pinned :
                    window = SubSeq(messages, 1, pinned) \o LastOf(messages, n)
<1>1. ASSUME NEW keepSystem \in BOOLEAN
      PROVE  LET window == RecentMessages(messages, maxMessages, maxTokens, keepSystem)
                 pinned == IF keepSystem THEN Leading(messages, "system") ELSE 0
             IN /\ Paired(window)
                /\ \E n \in 0 .. Len(messages) - pinned :
                      /\ window = SubSeq(messages, 1, pinned) \o LastOf(messages, n)
                      /\ maxMessages # Unset => n <= maxMessages
  BY WindowKeepsPairs
<1>2. TRUE \in BOOLEAN
  OBVIOUS
<1> QED BY <1>1, <1>2

\* Whatever the bounds of a withMessageWindow around the model and whatever its
\* messages cost, every request of the agent is one a provider takes: it begins with
\* the system message there is, is otherwise the end of the conversation, and holds no
\* tool result without the call that asked for it (callLLM, executeTools and
\* recentMessages), if the application lets a turn close before it starts another.
THEOREM EveryWindowIsValid ==
    ASSUME Careful
    PROVE  Spec => []WindowIsValid
<1>1. Init => PairInv
  BY DEF Init, PairInv, PairsOK, Paired, NewAgent
<1>2. Typed /\ ReactInv /\ PairInv /\ [Next]_vars => PairInv'
  BY PairStep
<1>3. Typed /\ PairInv => WindowIsValid
  <2> SUFFICES ASSUME Typed, PairInv, NEW opening \in Openings, NEW w \in Windows
               PROVE  LET conversation == RequestMessages(agent.msgs)
                          window == RecentMessages(opening \o conversation, w[1], w[2], TRUE)
                      IN /\ IsPrefix(opening, window)
                         /\ IsSuffix(SubSeq(window, Len(opening) + 1, Len(window)), conversation)
                         /\ \A i \in DOMAIN window : window[i].role = "tool" =>
                               window[i].calls \subseteq Asked(SubSeq(window, 1, i))
    BY DEF WindowIsValid
  <2> DEFINE rest == RequestMessages(agent.msgs)
             sent == opening \o rest
             window == RecentMessages(sent, w[1], w[2], TRUE)
             p == Len(opening)
  <2>1. agent.msgs \in Seq(Message) /\ Paired(agent.msgs)
    BY DEF Typed, TypeOK, Components, PairInv, PairsOK
  <2>2. rest \in Seq(Sent)
    BY <2>1, RequestIs
  <2>3. opening \in Seq(Sent) /\ sent \in Seq(Sent) /\ Sends(sent, agent.msgs) /\ Leading(sent, "system") = p
    BY <2>1, SentIs
  <2>4. Paired(sent)
    <3> HIDE DEF sent
    <3> QED BY <2>1, <2>3, SendingKeepsPairs
  <2>5. w[1] \in Nat \cup {Unset} /\ w[2] \in Nat \cup {Unset}
    BY WindowsAssumption
  <2>6. /\ Paired(window)
        /\ \E n \in 0 .. Len(sent) - p : window = SubSeq(sent, 1, p) \o LastOf(sent, n)
    <3> HIDE DEF sent, p
    <3> QED BY <2>3, <2>4, <2>5, PinnedWindow
  <2> HIDE DEF window, rest
  <2>7. SubSeq(sent, 1, p) = opening /\ Len(sent) - p = Len(rest)
    <3>1. /\ Len(sent) = p + Len(rest) /\ p \in Nat /\ Len(rest) \in Nat
          /\ \A i \in 1 .. p : sent[i] = opening[i]
      BY <2>2, <2>3, Joined
    <3>2. opening = [i \in 1 .. p |-> opening[i]]
      BY <2>3
    <3> HIDE DEF sent, p
    <3>3. SubSeq(sent, 1, p) = [i \in 1 .. p |-> sent[i]]
      BY <2>3, <3>1
    <3> QED BY <3>1, <3>2, <3>3
  <2>8. PICK n \in 0 .. Len(rest) : window = opening \o LastOf(sent, n)
    BY <2>6, <2>7
  <2>9. /\ window \in Seq(Sent) /\ IsPrefix(opening, window)
        /\ IsSuffix(SubSeq(window, Len(opening) + 1, Len(window)), rest)
    BY <2>2, <2>3, <2>8, WindowEnds
  <2>10. ASSUME NEW i \in DOMAIN window, window[i].role = "tool"
         PROVE  window[i].calls \subseteq Asked(SubSeq(window, 1, i))
    <3>1. PICK j \in DOMAIN window : /\ j < i /\ window[j].role = "assistant"
                                     /\ window[i].calls \subseteq window[j].calls
      BY <2>6, <2>10 DEF Paired
    <3>2. j \in DOMAIN SubSeq(window, 1, i) /\ SubSeq(window, 1, i)[j] = window[j]
      BY <2>9, <3>1
    <3> QED BY <3>1, <3>2 DEF Asked
  <2> QED BY <2>9, <2>10 DEF window, sent, rest
<1> QED
  BY <1>1, <1>2, <1>3, ReactInvHolds, PTL DEF Spec
=============================================================================
