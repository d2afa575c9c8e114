-------------------------------- MODULE OtelSpans --------------------------------
(***************************************************************************)
(* One run of a world as those who watch it see it: the events of its      *)
(* loop (packages/core/src/world.ts), told to the run's stream and then to *)
(* every attached observer, and the spans that instrumentWorld             *)
(* (packages/otel/src/instrument-world.ts) makes of them, with observers   *)
(* that attach and detach at any time, pairs that fail, time out and end   *)
(* late, and the register method that each instrumentation patches.        *)
(* X_Variant is X with a plausible defect; nothing uses it.                *)
(***************************************************************************)
EXTENDS RunStream, SequencesExt, FiniteSetsExt, Functions

CONSTANTS
    Instrument,  \* calls of instrumentWorld
    Pair,        \* (system, entity) pairs
    MaxSteps     \* bound of steps

ASSUME PairsAreFinite == IsFiniteSet(Pair) /\ MaxSteps \in Nat
ASSUME EventsAreTheRuns ==
    Event = [type : {"run:start", "step:start", "system:start", "system:end", "system:error",
                     "step:applied", "run:end", "run:reject"},
             step : 0 .. MaxSteps, of : Pair \cup {0}]

VARIABLES
    phase,      \* "idle", "between" steps, "stepping" or "over"
    step,
    body,       \* body[n][p]: what became of pair p in step n
    observers,  \* the attached instrumentations, in the order of world.observe
    detached,   \* those that were detached
    otel,       \* otel[i]: the RunState kept for the run
    spans,      \* the spans started so far
    register    \* the patches of world.register, the outermost last

loopVars == <<phase, step, body>>
spanVars == <<otel, spans>>
vars == <<streamVars, loopVars, spanVars, register, observers, detached>>

SpanId == [by : Instrument \cup {0}, kind : {"none", "run", "step", "system"},
           step : 0 .. MaxSteps, of : Pair \cup {0}]
RunSpan(i) == [by |-> i, kind |-> "run", step |-> 0, of |-> 0]
StepSpan(i, n) == [by |-> i, kind |-> "step", step |-> n, of |-> 0]
SystemSpan(i, n, p) == [by |-> i, kind |-> "system", step |-> n, of |-> p]
NoSpan == [by |-> 0, kind |-> "none", step |-> 0, of |-> 0]

Outcome == {"none", "running", "ok", "failed", "guard", "late", "lateOk", "lateFailed"}

TypeOK ==
    /\ StreamTypeOK
    /\ phase \in {"idle", "between", "stepping", "over"} /\ step \in 0 .. MaxSteps
    /\ body \in [1 .. MaxSteps -> [Pair -> Outcome]]
    /\ Range(observers) \subseteq Instrument \ detached /\ detached \subseteq Instrument
    /\ \A i \in Instrument : /\ otel[i].known \in BOOLEAN /\ otel[i].step \in SpanId
                             /\ DOMAIN otel[i].open \subseteq Pair
    /\ DOMAIN spans \subseteq SpanId
    /\ \A s \in DOMAIN spans : /\ spans[s].parent \in SpanId /\ spans[s].ends \in 0 .. 2
                               /\ spans[s].error \in BOOLEAN
    /\ Range(register) \subseteq Instrument

NoRun == [known |-> FALSE, step |-> NoSpan, open |-> <<>>]

Init ==
    /\ StreamInit
    /\ phase = "idle" /\ step = 0
    /\ body = [n \in 1 .. MaxSteps |-> [p \in Pair |-> "none"]]
    /\ observers = <<>> /\ detached = {}
    /\ otel = [i \in Instrument |-> NoRun]
    /\ spans = <<>>
    /\ register = <<>>

-----------------------------------------------------------------------------
(* Spans.  [o, s] is the state of the instrumentations: otel and spans.  An *)
(* event is told to one observer after the other, but each has its own spans *)
(* and RunState and reads no other's: a handler below is what they all do,   *)
(* and, for a burst of one step, what they do about all its pairs.           *)

State == [o |-> otel, s |-> spans]

\* tracer.startSpan for every span of parents, under the parent it is given.
Started(st, parents) ==
    [o |-> st.o,
     s |-> [d \in DOMAIN st.s \cup DOMAIN parents |->
               IF d \in DOMAIN parents THEN [parent |-> parents[d], ends |-> 0, error |-> FALSE]
               ELSE st.s[d]]]

\* span.end(); an ended span takes no status any more.
EndedSpan(span, error) ==
    [parent |-> span.parent, ends |-> span.ends + 1,
     error |-> IF error /\ span.ends = 0 THEN TRUE ELSE span.error]
Ended(st, ids, error) ==
    [o |-> st.o,
     s |-> [d \in DOMAIN st.s |-> IF d \in ids THEN EndedSpan(st.s[d], error) ELSE st.s[d]]]

\* The RunStates of some instrumentations change.
Remembered(st, states) ==
    [o |-> [i \in Instrument |-> IF i \in DOMAIN states THEN states[i] ELSE st.o[i]],
     s |-> st.s]

\* Without a RunState (attached in the middle of the run) both onEvent and
\* wrapSystemRun stay out of the way.
Watching(st) == {i \in Range(observers) : st.o[i].known}

StepSpans(st, I) == {st.o[i].step : i \in I}

\* state.stepContext ?? state.runContext
Parent(st, i) == IF st.o[i].step = NoSpan THEN RunSpan(i) ELSE st.o[i].step

OnRunStart(st) ==
    Remembered(Started(st, [id \in {RunSpan(i) : i \in Range(observers)} |-> NoSpan]),
               [i \in Range(observers) |-> [NoRun EXCEPT !.known = TRUE]])

OnStepStart(st, n) ==
    LET I == Watching(st)
        begun == [id \in {StepSpan(i, n) : i \in I} |-> RunSpan(id.by)]
    IN Remembered(Started(Ended(st, StepSpans(st, I), FALSE), begun),
                  [i \in I |-> [st.o[i] EXCEPT !.step = StepSpan(i, n)]])

\* wrapSystemRun, up to the system's own code.
OnWrap(st, n, pairs) ==
    LET I == Watching(st)
        begun == [id \in {SystemSpan(i, n, p) : i \in I, p \in pairs} |-> Parent(st, id.by)]
    IN Remembered(Started(st, begun),
                  [i \in I |-> [st.o[i] EXCEPT !.open =
                      [p \in DOMAIN @ \cup pairs |->
                          IF p \in pairs THEN SystemSpan(i, n, p) ELSE @[p]]]])

Forgotten(st, I, pairs) ==
    Remembered(st, [i \in I |-> [st.o[i] EXCEPT !.open = Restrict(@, DOMAIN @ \ pairs)]])

OnSystemEnd(st, pairs) == Forgotten(st, Watching(st), pairs)

\* A failed pair that was never wrapped is one whose guard threw.
OnSystemError(st, n, pairs) ==
    LET I == Watching(st)
        vetoed == {SystemSpan(x[1], n, x[2]) :
                     x \in {x \in I \X pairs : x[2] \notin DOMAIN st.o[x[1]].open}}
        told == Ended(Started(st, [id \in vetoed |-> Parent(st, id.by)]), vetoed, TRUE)
    IN Forgotten(told, I, pairs)

OnApplied(st) ==
    LET I == Watching(st)
    IN Remembered(Ended(st, StepSpans(st, I), FALSE),
                  [i \in I |-> [st.o[i] EXCEPT !.step = NoSpan]])

\* endLeftovers
Finished_StepOnly(st, I) == Ended(st, StepSpans(st, I), FALSE)
Finished(st, I) ==
    LET open == {id \in UNION {Range(st.o[i].open) : i \in I} : st.s[id].ends = 0}
    IN Ended(st, open \cup StepSpans(st, I), FALSE)

\* run:end and run:reject, and the end of a RunState when its observer leaves.
OnRunOver(st, I, error) ==
    Remembered(Ended(Finished(st, I), {RunSpan(i) : i \in I}, error), [i \in I |-> NoRun])

\* wrapSystemRun once fn() is over: the span ends whoever is still attached.
Unwrapped(st, n, p, error) == Ended(st, {SystemSpan(i, n, p) : i \in Instrument}, error)

Becomes(st) == otel' = st.o /\ spans' = st.s

-----------------------------------------------------------------------------
(* The run's loop                                                           *)

E(type, n, p) == [type |-> type, step |-> n, of |-> p]

StartRun ==
    /\ phase = "idle"
    /\ phase' = "between"
    /\ Emit(<<E("run:start", 0, 0)>>)
    /\ Becomes(OnRunStart(State))
    /\ UNCHANGED <<step, body, observers, detached, register>>

\* What a step tells before its first await: each pair that starts, and right
\* after it the guard that threw.
Burst(n, scheduled, threw) ==
    LET order == SetToSeq(scheduled)
        told(p) == <<E("system:start", n, p)>>
                   \o (IF p \in threw THEN <<E("system:error", n, p)>> ELSE <<>>)
    IN <<E("step:start", n, 0)>> \o FlattenSeq([k \in DOMAIN order |-> told(order[k])])

\* step:start, and executePair for every scheduled pair up to its first await.
StartStep ==
    /\ phase = "between" /\ step < MaxSteps
    /\ phase' = "stepping" /\ step' = step + 1
    /\ \E scheduled \in SUBSET Pair \ {{}} : \E threw \in SUBSET scheduled :
        /\ body' = [body EXCEPT ![step'] = [p \in Pair |->
                IF p \in threw THEN "guard" ELSE IF p \in scheduled THEN "running" ELSE "none"]]
        /\ Emit(Burst(step', scheduled, threw))
        /\ Becomes(OnSystemError(OnWrap(OnStepStart(State, step'), step', scheduled \ threw),
                                 step', threw))
    /\ UNCHANGED <<observers, detached, register>>

\* The body of a pair settles, and so do the wrappers around it; the loop hears
\* of it unless the deadline came first.
SettleBody(n, p, ok) ==
    /\ body[n][p] \in {"running", "late"}
    /\ LET st == Unwrapped(State, n, p, ~ok) IN
       IF body[n][p] = "running"
       THEN /\ body' = [body EXCEPT ![n][p] = IF ok THEN "ok" ELSE "failed"]
            /\ Emit(<<E(IF ok THEN "system:end" ELSE "system:error", n, p)>>)
            /\ Becomes(IF ok THEN OnSystemEnd(st, {p}) ELSE OnSystemError(st, n, {p}))
       ELSE /\ body' = [body EXCEPT ![n][p] = IF ok THEN "lateOk" ELSE "lateFailed"]
            /\ Becomes(st)
            /\ UNCHANGED streamVars
    /\ UNCHANGED <<phase, step, observers, detached, register>>

\* The deadline: the pair is reported and abandoned, its body goes on.
Timeout(n, p) ==
    /\ body[n][p] = "running"
    /\ body' = [body EXCEPT ![n][p] = "late"]
    /\ Emit(<<E("system:error", n, p)>>)
    /\ Becomes(OnSystemError(State, n, {p}))
    /\ UNCHANGED <<phase, step, observers, detached, register>>

AllSettled == \A p \in Pair : body[step][p] # "running"

ApplyStep ==
    /\ phase = "stepping" /\ AllSettled
    /\ phase' = "between"
    /\ Emit(<<E("step:applied", step, 0)>>)
    /\ Becomes(OnApplied(State))
    /\ UNCHANGED <<step, body, observers, detached, register>>

\* run:end and resolve; a cancel that came during the last save is told as one
\* more step:applied before.
EndRun ==
    /\ phase = "between"
    /\ phase' = "over"
    /\ \E lateCancel \in BOOLEAN :
        /\ Settle((IF lateCancel THEN <<E("step:applied", step, 0)>> ELSE <<>>)
                      \o <<E("run:end", 0, 0)>>, "ok")
        /\ \E st \in {IF lateCancel THEN OnApplied(State) ELSE State} :
              Becomes(OnRunOver(st, Watching(st), FALSE))
    /\ UNCHANGED <<step, body, observers, detached, register>>

\* A barrier or a save that throws: observers are told, the stream rejects.
RejectRun ==
    /\ phase = "between" \/ (phase = "stepping" /\ AllSettled)
    /\ phase' = "over"
    /\ Becomes(OnRunOver(State, Watching(State), TRUE))
    /\ Settle(<<>>, "rejected")
    /\ UNCHANGED <<step, body, observers, detached, register>>

-----------------------------------------------------------------------------
(* Attaching, detaching, registering                                        *)

Attach(i) ==
    /\ phase # "over" /\ i \notin Range(observers) \cup detached
    /\ observers' = Append(observers, i)
    /\ register' = Append(register, i)
    /\ UNCHANGED <<streamVars, loopVars, spanVars, detached>>

\* indexOf and splice
Removed(i) == RemoveAt(observers, CHOOSE k \in DOMAIN observers : observers[k] = i)

\* restoreRegister leaves a register that somebody else has patched since.
Restored(i) == IF Last(register) = i THEN Front(register) ELSE register

Detach(i) ==
    /\ i \in Range(observers)
    /\ observers' = Removed(i)
    /\ detached' = detached \cup {i}
    /\ register' = Restored(i)
    /\ Becomes(IF otel[i].known THEN OnRunOver(State, {i}, FALSE) ELSE State)
    /\ UNCHANGED <<streamVars, loopVars>>

\* How often a model registered now is wrapped: it runs through every patch, and
\* one that is instrumented already is left as it is.
MaybeWrap(times) == IF times > 0 THEN times ELSE 1

Wraps ==
    LET after[n \in 0 .. Len(register)] == IF n = 0 THEN 0 ELSE MaybeWrap(after[n - 1])
    IN after[Len(register)]

-----------------------------------------------------------------------------

LoopNext ==
    \/ StartRun \/ StartStep \/ ApplyStep \/ EndRun \/ RejectRun
    \/ \E n \in 1 .. MaxSteps, p \in Pair :
          Timeout(n, p) \/ \E ok \in BOOLEAN : SettleBody(n, p, ok)

WatcherNext == \E i \in Instrument : Attach(i) \/ Detach(i)

Read(r) == Iterate(r) /\ UNCHANGED <<loopVars, spanVars, register, observers, detached>>

Next ==
    \/ LoopNext
    \/ WatcherNext
    \/ \E r \in Reader : Read(r)

\* An iterator asks for the next event as long as it gets one.
Spec == Init /\ [][Next]_vars /\ \A r \in Reader : WF_vars(Read(r))

-----------------------------------------------------------------------------
(* Properties                                                               *)

Attached(i) == i \in Range(observers)

\* The spans of a run form its tree: a step lies under its run and a pair under
\* the very step that scheduled it, guard failures and re-runs of a pair whose
\* earlier body is still going included.
SpansFormTheRun ==
    \A s \in DOMAIN spans :
        spans[s].parent = CASE s.kind = "run" -> NoSpan
                            [] s.kind = "step" -> RunSpan(s.by)
                            [] s.kind = "system" -> StepSpan(s.by, s.step)

\* A span is open exactly while what it stands for goes on: the run's until the
\* run ends, rejects or is no longer watched, a step's until its barrier, a
\* pair's until its body settles, which for an abandoned pair may be never.
SpanLife ==
    \A s \in DOMAIN spans :
        LET open == spans[s].ends = 0 IN
        CASE s.kind = "run" -> open <=> Attached(s.by) /\ phase # "over"
          [] s.kind = "step" -> open <=> Attached(s.by) /\ phase = "stepping" /\ s.step = step
          [] s.kind = "system" ->
                /\ open => body[s.step][s.of] = "late" \/ Attached(s.by)
                /\ Attached(s.by) /\ open => body[s.step][s.of] \in {"running", "late"}
                /\ Attached(s.by) /\ body[s.step][s.of] = "running" => open

\* No span is ended twice, except a pair's whose watcher left while it ran.
EndedOnce ==
    \A s \in DOMAIN spans : spans[s].ends > 1 => s.kind = "system" /\ s.by \in detached

\* A pair's span is marked failed when its guard or its body failed under watch, and
\* only then, and no pair that was reported lacks one.  A deadline is the exception,
\* and it is one the code makes: the failure the engine reports for an abandoned pair
\* is on no span, whose pair's own stays open and then tells how the body ended, late
\* (EndedWithError says otherwise).
ErrorsTold ==
    \A n \in 1 .. MaxSteps, p \in Pair : \A i \in Range(observers) :
        LET s == SystemSpan(i, n, p) IN
        /\ s \in DOMAIN spans =>
              (spans[s].error <=> body[n][p] \in {"guard", "failed", "lateFailed"})
        /\ body[n][p] # "none" /\ StepSpan(i, n) \in DOMAIN spans => s \in DOMAIN spans

\* No detach takes another's patch of register away, nor moves it before or
\* behind one it was not, and a model is wrapped once however many patches it runs
\* through.
PatchesHold ==
    /\ Range(observers) \subseteq Range(register)
    /\ \A a, b \in DOMAIN observers, c, d \in DOMAIN register :
          register[c] = observers[a] /\ register[d] = observers[b] => (a < b <=> c < d)
    /\ Wraps <= 1

\* The exported spans tell the run as it went: its tree, its times, its failures
\* except deadlines, through late bodies, observers that come and go, and models that
\* are instrumented more than once; and no iterator of the run misses its wake-up.
SpansAreTrue ==
    /\ TypeOK /\ NoLostWakeup
    /\ SpansFormTheRun /\ SpanLife /\ EndedOnce /\ ErrorsTold /\ PatchesHold

\* The comment of instrumentWorld: detaching "defensively ends any spans still
\* open".
DetachEndsSpans == \A s \in DOMAIN spans : s.by \in detached => spans[s].ends > 0

\* The comment of its system:error handler: the span of a pair whose error is told
\* "was already ended (with ERROR)".  It is not when the error is a deadline.
EndedWithError ==
    \A s \in DOMAIN spans :
        s.kind = "system" /\ body[s.step][s.of] \in {"failed", "guard", "late", "lateOk"}
            => spans[s].ends > 0 /\ spans[s].error
==================================================================================
