---------------------------- MODULE DevtoolsServer ----------------------------
(***************************************************************************)
(* The devtools server (packages/devtools/src/server.ts) beside a live     *)
(* world: it pushes what its observer hears down a WebSocket, answers      *)
(* commands with the world's external operations, keeps the adapter's      *)
(* history and a ring buffer of the spans it receives over HTTP.           *)
(* The world is reduced to what the server shows: a version for its        *)
(* committed content, the step, whether a run is in progress, and the      *)
(* flight recorder as the contents its steps left.                         *)
(* X_Variant is X with a plausible defect; nothing uses it.                *)
(***************************************************************************)
EXTENDS Naturals, Sequences, FiniteSets, SequencesExt

CONSTANTS
    MaxContent,   \* bound of versions of the content
    MaxRuns,      \* bound of runs
    Span,         \* spans an exporter sends
    MaxExports,   \* bound of exports, retries included
    SpanBuffer    \* DevtoolsOptions.spanBufferSize

VARIABLES
    world,      \* [content, step, running, trace]
    runs,       \* runs started so far
    saved,      \* the adapter's history: saved[s] is the content of step s
    conn,       \* sockets opened so far; the last one is the client's
    open,       \* whether it is still open
    down, up,   \* what travels from server to client, and back
    flush,      \* externalFlushScheduled
    shown,      \* historySteps
    refreshes,  \* what the refreshHistory calls in flight have read
    loading,    \* load-step commands waiting for the adapter
    spanBuffer,
    exports,    \* exports so far
    emitted,    \* run events emitted so far
    effects,    \* the commands that took effect, in order
    untold      \* history: [world, trace]: something threw half-way and no world was
                \* told since; entries the recorder got without its being told since

worldVars == <<world, runs, saved, flush, emitted, untold>>
spanVars == <<spanBuffer, exports>>
serverVars == <<worldVars, spanVars, conn, open, down, up, shown, refreshes, loading, effects>>

ServerTypeOK ==
    /\ world \in [content : 0 .. MaxContent, step : 0 .. MaxContent, running : BOOLEAN,
                  trace : BoundedSeq(1 .. MaxContent, MaxContent)]
    /\ runs \in 0 .. MaxRuns
    /\ DOMAIN saved \subseteq 0 .. MaxContent /\ Range(saved) \subseteq 0 .. MaxContent
    /\ open \in BOOLEAN /\ flush \in BOOLEAN
    /\ \A r \in refreshes \cup {shown} : r \subseteq DOMAIN saved
    /\ Range(spanBuffer) \subseteq Span /\ Len(spanBuffer) <= SpanBuffer
    /\ exports \in 0 .. MaxExports
    /\ untold \in [world : BOOLEAN, trace : 0 .. Len(world.trace)]

AllTold == [world |-> FALSE, trace |-> 0]
WorldTold == [untold EXCEPT !.world = FALSE]

ServerInit ==
    /\ world = [content |-> 0, step |-> 0, running |-> FALSE, trace |-> <<>>]
    /\ runs = 0
    /\ saved = <<>>
    /\ conn = 0
    /\ open = FALSE
    /\ down = <<>> /\ up = <<>>
    /\ flush = FALSE
    /\ shown = {}
    /\ refreshes = {} /\ loading = {}
    /\ spanBuffer = <<>>
    /\ exports = 0
    /\ emitted = 0
    /\ effects = <<>>
    /\ untold = AllTold

-----------------------------------------------------------------------------
(* Messages                                                                 *)

\* buildWorldState: a full state, built synchronously.
WorldMessage(w, hist) ==
    [type |-> "world", content |-> w.content, step |-> w.step, running |-> w.running, hist |-> hist]
TraceMessage(w) == [type |-> "trace", steps |-> w.trace]
Spans(s) == [type |-> "spans", spans |-> s]
Result(id, ok) == [type |-> "result", id |-> id, ok |-> ok]

\* What arrives over a socket is handled when no microtask is due.
Macrotask == ~flush

\* A message to a socket that is not open is dropped.
Broadcast(msgs) == down' = IF open THEN down \o msgs ELSE down
Send(c, msgs) == down' = IF open /\ c = conn THEN down \o msgs ELSE down

-----------------------------------------------------------------------------
(* The world, and what the observer broadcasts about it                     *)

\* onEvent(run:start), onEvent(step:applied) with the step's own number, and
\* onEvent(run:end) or onEvent(run:reject).
StartMessages(w) ==
    <<[type |-> "event", n |-> emitted + 1, kind |-> "start"], WorldMessage(w, shown)>>
StepMessages(w, step) ==
    <<[type |-> "event", n |-> emitted + 1, kind |-> "step"],
      WorldMessage([w EXCEPT !.step = step], shown), TraceMessage(w)>>
EndMessages(w) ==
    <<[type |-> "event", n |-> emitted + 1, kind |-> "end"], WorldMessage(w, shown)>>

Running(w) == [w EXCEPT !.running = TRUE]

\* A run of world w: the world as it is, or as the writes of a send left it, which
\* are external changes like any other.
StartRun(w) ==
    /\ ~world.running /\ runs < MaxRuns
    /\ world' = Running(w)
    /\ runs' = runs + 1
    /\ emitted' = emitted + 1
    /\ flush' = (flush \/ w # world)
    /\ untold' = WorldTold
    /\ UNCHANGED saved

\* An external change that a microtask will broadcast.
Change(w) ==
    /\ world' = w
    /\ flush' = TRUE
    /\ UNCHANGED <<runs, saved, emitted>>

\* One that throws before it notifies anyone.
Tear(w) ==
    /\ world' = w
    /\ untold' = [world |-> TRUE, trace |-> IF w.trace = <<>> THEN 0 ELSE untold.trace]
    /\ UNCHANGED <<runs, saved, flush, emitted>>

\* The program mutates its idle world (a spawn may throw half-way), or starts a run.
ProgramWrites ==
    /\ ~world.running /\ world.content < MaxContent
    /\ LET w == [world EXCEPT !.content = @ + 1] IN
       \/ Change(w) /\ UNCHANGED untold
       \/ Tear(w)
    /\ UNCHANGED <<spanVars, conn, open, down, up, shown, refreshes, loading, effects>>

ProgramRuns ==
    /\ StartRun(world)
    /\ Broadcast(StartMessages(Running(world)))
    /\ UNCHANGED <<spanVars, conn, open, up, shown, refreshes, loading, effects>>

\* The history once step has been saved, over what was kept for it.
Kept(step, content) ==
    [s \in DOMAIN saved \cup {step} |-> IF s = step THEN content ELSE saved[s]]

\* A barrier commits; the step counter moves on after the event.  The save of
\* the step is taken to land with it.
Step ==
    /\ world.running /\ world.content < MaxContent
    /\ LET w == [world EXCEPT !.content = @ + 1, !.trace = Append(@, world.content + 1)] IN
       /\ world' = [w EXCEPT !.step = @ + 1]
       /\ Broadcast(StepMessages(w, w.step))
       /\ saved' = Kept(w.step + 1, w.content)
    /\ emitted' = emitted + 1
    /\ untold' = AllTold
    /\ UNCHANGED <<runs, flush, spanVars, conn, open, up, shown, refreshes, loading, effects>>

\* run:end and run:reject alike; refreshHistory reads the adapter.  A run whose last
\* candidates are all vetoed consumes them and has the recorder keep the step, which
\* no step:applied announces.  A run that does not reject saves what has changed, at
\* the step it stopped at.
Ended(w) == [w EXCEPT !.running = FALSE]
EndRun ==
    /\ world.running
    /\ \/ world' = Ended(world) /\ untold' = WorldTold
       \/ /\ world.content < MaxContent
          /\ world' = Ended([world EXCEPT !.content = @ + 1,
                                          !.trace = Append(@, world.content + 1)])
          /\ untold' = [world |-> FALSE, trace |-> untold.trace + 1]
    /\ emitted' = emitted + 1
    /\ saved' \in {saved, Kept(world.step, world'.content)}
    /\ Broadcast(EndMessages(world'))
    /\ refreshes' = refreshes \cup {DOMAIN saved'}
    /\ UNCHANGED <<runs, flush, spanVars, conn, open, up, shown, loading, effects>>

\* The microtask of scheduleExternalBroadcast.
Flush ==
    /\ flush
    /\ flush' = FALSE
    /\ Broadcast(<<WorldMessage(world, shown)>>)
    /\ untold' = WorldTold
    /\ UNCHANGED <<world, runs, saved, emitted, spanVars, conn, open, up, shown, refreshes,
                   loading, effects>>

\* refreshHistory after its await; two of them may land in either order.
RefreshLands ==
    /\ \E steps \in refreshes :
        /\ refreshes' = refreshes \ {steps}
        /\ shown' = steps
        /\ IF steps = shown THEN UNCHANGED <<down, untold>>
           ELSE Broadcast(<<WorldMessage(world, steps)>>) /\ untold' = WorldTold
    /\ UNCHANGED <<world, runs, saved, flush, emitted, spanVars, conn, open, up, loading, effects>>

-----------------------------------------------------------------------------
(* Commands                                                                 *)

Effect(cmd) == effects' = Append(effects, cmd.id)

\* handleCommand, up to its first await.  A command that throws (unknown entity,
\* WorldRunningError) is answered with ok: false.
Refuse(cmd) ==
    /\ Send(cmd.conn, <<Result(cmd.id, FALSE)>>)
    /\ UNCHANGED <<worldVars, loading, effects>>

Refresh(cmd) ==
    /\ cmd.type = "refresh"
    /\ Send(cmd.conn, <<WorldMessage(world, shown), TraceMessage(world), Result(cmd.id, TRUE)>>)
    /\ untold' = IF open /\ cmd.conn = conn THEN AllTold ELSE untold
    /\ UNCHANGED <<world, runs, saved, flush, emitted, loading, effects>>

\* mutate, spawn and despawn.
Mutate(cmd) ==
    /\ cmd.type = "mutate"
    /\ \/ Refuse(cmd)
       \/ /\ ~world.running /\ world.content < MaxContent
          /\ Change([world EXCEPT !.content = @ + 1])
          /\ Send(cmd.conn, <<Result(cmd.id, TRUE)>>)
          /\ Effect(cmd)
          /\ UNCHANGED <<loading, untold>>

\* What send and resume write before they run.
Sent(cmd) == IF cmd.type = "send" THEN [world EXCEPT !.content = @ + 1] ELSE world

\* run, send and resume: the run is fired, not awaited, so what the observer
\* broadcasts comes before the result.  A send whose second write throws has made
\* the first, and runs nothing.
RunCommand(cmd) ==
    /\ cmd.type \in {"run", "send"}
    /\ \/ Refuse(cmd)
       \/ /\ ~world.running /\ Sent(cmd) # world /\ Sent(cmd).content <= MaxContent
          /\ Change(Sent(cmd))
          /\ Send(cmd.conn, <<Result(cmd.id, FALSE)>>)
          /\ UNCHANGED <<untold, loading, effects>>
       \/ /\ Sent(cmd).content <= MaxContent
          /\ StartRun(Sent(cmd))
          /\ down' = IF ~open THEN down
                     ELSE down \o StartMessages(Running(Sent(cmd)))
                               \o (IF cmd.conn = conn THEN <<Result(cmd.id, TRUE)>> ELSE <<>>)
          /\ Effect(cmd)
          /\ UNCHANGED loading

LoadStep_Answers(cmd) ==
    /\ cmd.type = "load-step"
    /\ loading' = loading \cup {cmd}
    /\ Send(cmd.conn, <<Result(cmd.id, TRUE)>>)
    /\ UNCHANGED <<worldVars, effects>>
LoadStep(cmd) ==
    /\ cmd.type = "load-step"
    /\ loading' = loading \cup {cmd}
    /\ UNCHANGED <<worldVars, down, effects>>

HandleCommand ==
    /\ Macrotask
    /\ up # <<>>
    /\ up' = Tail(up)
    /\ LET cmd == Head(up) IN Refresh(cmd) \/ Mutate(cmd) \/ RunCommand(cmd) \/ LoadStep(cmd)
    /\ UNCHANGED <<spanVars, conn, open, shown, refreshes>>

\* load-step after its await: the adapter may not have the step, a run may have
\* started meanwhile, the load may refuse the snapshot, or a deserialize hook may
\* throw when the recorder is empty and part of the entities are replaced.
LoadStepLands ==
    /\ \E cmd \in loading :
        /\ loading' = loading \ {cmd}
        /\ \/ /\ Send(cmd.conn, <<Result(cmd.id, FALSE)>>)
              /\ UNCHANGED <<worldVars, effects, refreshes>>
           \/ /\ cmd.step \in DOMAIN saved /\ ~world.running /\ world.content < MaxContent
              /\ Tear([world EXCEPT !.content = @ + 1, !.trace = <<>>])
              /\ Send(cmd.conn, <<Result(cmd.id, FALSE)>>)
              /\ UNCHANGED <<effects, refreshes>>
           \/ /\ cmd.step \in DOMAIN saved /\ ~world.running
              /\ Change([world EXCEPT !.content = saved[cmd.step], !.step = cmd.step,
                                      !.trace = <<>>])
              /\ untold' = [untold EXCEPT !.trace = 0]
              /\ Send(cmd.conn, <<Result(cmd.id, TRUE)>>)
              /\ Effect(cmd)
              /\ refreshes' = refreshes \cup {DOMAIN saved}
    /\ UNCHANGED <<spanVars, conn, open, up, shown>>

-----------------------------------------------------------------------------
(* The span receiver                                                        *)

\* handleTraces: the newest SpanBuffer spans are kept for clients to come.
Trimmed(buffer) ==
    IF Len(buffer) > SpanBuffer THEN SubSeq(buffer, Len(buffer) - SpanBuffer + 1, Len(buffer)) ELSE buffer

Export ==
    /\ Macrotask /\ exports < MaxExports
    /\ exports' = exports + 1
    /\ \E s \in Span :
        /\ spanBuffer' = Trimmed(Append(spanBuffer, s))
        /\ Broadcast(<<Spans(<<s>>)>>)
    /\ UNCHANGED <<worldVars, conn, open, up, shown, refreshes, loading, effects>>

\* on('connection'): what a new client is told; what the old socket still had
\* to deliver is lost, what it had received is still handled.
Greeting ==
    <<WorldMessage(world, shown), TraceMessage(world)>>
        \o (IF spanBuffer = <<>> THEN <<>> ELSE <<Spans(spanBuffer)>>)

ServerNext ==
    \/ ProgramWrites \/ ProgramRuns \/ Step \/ EndRun
    \/ Flush \/ RefreshLands \/ HandleCommand \/ LoadStepLands \/ Export
================================================================================
