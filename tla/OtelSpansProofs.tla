----------------------------- MODULE OtelSpansProofs -----------------------------
(***************************************************************************)
(* The stream of a run implements the event log, for every set of events   *)
(* and of iterators and for runs of any length; and the spans made of the  *)
(* events tell the run as it went, for any number of pairs, of steps and   *)
(* of instrumentations that come and go.                                   *)
(***************************************************************************)
EXTENDS Timeline, FiniteSetTheorems, SequenceTheorems, WellFoundedInduction, TLAPS

\* No iterator is ahead of the buffer, and one that has left had read all of it
\* and left with the outcome of the run.
PositionsOK ==
    \A r \in Reader :
        /\ at[r] <= Len(events)
        /\ reader[r] \in {"ok", "rejected"} =>
              reader[r] = settled /\ at[r] = Len(events)

StreamInv == StreamTypeOK /\ NoLostWakeup /\ PositionsOK

LEMMA InitIInv == StreamInit => StreamInv
  BY DEF StreamInit, StreamInv, StreamTypeOK, NoLostWakeup, PositionsOK

\* Waking turns exactly the parked iterators into running ones.
LEMMA WakeAll ==
  ASSUME StreamInv, Wake
  PROVE  /\ notifiers' = {} /\ at' = at
         /\ reader' \in [Reader -> {"running", "parked", "ok", "rejected"}]
         /\ \A r \in Reader : /\ reader'[r] # "parked"
                              /\ reader'[r] \in {"ok", "rejected"} => reader'[r] = reader[r]
                              /\ reader[r] \in {"ok", "rejected"} => reader'[r] = reader[r]
  BY DEF StreamInv, StreamTypeOK, NoLostWakeup, Wake

LEMMA EmitIInv ==
  ASSUME StreamInv, settled = "open", NEW s \in Seq(Event), Emit(s)
  PROVE  StreamInv'
<1>1. events' \in Seq(Event) /\ Len(events') = Len(events) + Len(s) /\ settled' = settled
  BY DEF StreamInv, StreamTypeOK, Emit
<1>2. Wake
  BY DEF Emit
<1>3. Len(events) \in Nat /\ Len(s) \in Nat
  BY DEF StreamInv, StreamTypeOK
<1>4. StreamTypeOK'
  BY <1>1, <1>2, WakeAll DEF StreamInv, StreamTypeOK
<1>5. NoLostWakeup'
  BY <1>1, <1>2, WakeAll DEF NoLostWakeup
<1>6. PositionsOK'
  BY <1>1, <1>2, <1>3, WakeAll DEF StreamInv, StreamTypeOK, PositionsOK
<1> QED BY <1>4, <1>5, <1>6 DEF StreamInv

LEMMA SettleIInv ==
  ASSUME StreamInv, settled = "open", NEW s \in Seq(Event), NEW how \in {"ok", "rejected"},
         Settle(s, how)
  PROVE  StreamInv'
<1>1. events' \in Seq(Event) /\ Len(events') = Len(events) + Len(s) /\ settled' = how
  BY DEF StreamInv, StreamTypeOK, Settle
<1>2. Wake
  BY DEF Settle
<1>3. Len(events) \in Nat /\ Len(s) \in Nat
  BY DEF StreamInv, StreamTypeOK
<1>4. StreamTypeOK'
  BY <1>1, <1>2, WakeAll DEF StreamInv, StreamTypeOK
<1>5. NoLostWakeup'
  BY <1>1, <1>2, WakeAll DEF NoLostWakeup
<1>6. PositionsOK'
  BY <1>1, <1>2, <1>3, WakeAll DEF StreamInv, StreamTypeOK, PositionsOK
<1> QED BY <1>4, <1>5, <1>6 DEF StreamInv

LEMMA IterateIInv ==
  ASSUME StreamInv, NEW r \in Reader, Iterate(r)
  PROVE  StreamInv'
<1>1. CASE Yield(r)
  <2>1. Len(events) \in Nat /\ at[r] \in Nat
    BY DEF StreamInv, StreamTypeOK
  <2> QED BY <1>1, <2>1 DEF Yield, StreamInv, StreamTypeOK, NoLostWakeup, PositionsOK
<1>2. CASE Finish(r)
  BY <1>2 DEF Finish, StreamInv, StreamTypeOK, NoLostWakeup, PositionsOK
<1>3. CASE Park(r)
  BY <1>3 DEF Park, StreamInv, StreamTypeOK, NoLostWakeup, PositionsOK
<1> QED BY <1>1, <1>2, <1>3 DEF Iterate

LEMMA StepIInv == StreamInv /\ [StreamNext]_streamVars => StreamInv'
<1> SUFFICES ASSUME StreamInv, [StreamNext]_streamVars PROVE StreamInv'
  OBVIOUS
<1>1. CASE UNCHANGED streamVars
  BY <1>1 DEF streamVars, StreamInv, StreamTypeOK, NoLostWakeup, PositionsOK
<1>2. CASE StreamNext
  BY <1>2, EmitIInv, SettleIInv, IterateIInv DEF StreamNext
<1> QED BY <1>1, <1>2

LEMMA AlwaysIInv == StreamSpec => []StreamInv
<1>1. StreamInit => StreamInv
  BY InitIInv
<1>2. StreamInv /\ [StreamNext]_streamVars => StreamInv'
  BY StepIInv
<1> QED BY <1>1, <1>2, PTL DEF StreamSpec

\* No iterator waits without being registered for the next emit, and none waits
\* once the run has settled: the check for more events and the parking of the
\* notifier are one step of the generator (events.ts).
THEOREM StreamNoLostWakeup == StreamSpec => []NoLostWakeup
<1>1. StreamInv => NoLostWakeup
  BY DEF StreamInv
<1> QED BY <1>1, AlwaysIInv, PTL

LEMMA InitRefines == StreamInit => Log!Init
  BY DEF StreamInit, Log!Init

\* Appending leaves what was there.
LEMMA AppendExtends ==
  ASSUME StreamInv, NEW s \in Seq(Event), events' = events \o s
  PROVE  Log!Extended
<1>1. events \in Seq(Event)
  BY DEF StreamInv, StreamTypeOK
<1>2. events' \in Seq(Event) /\ Len(events') >= Len(events)
  BY <1>1
<1>3. SubSeq(events', 1, Len(events)) = events
  BY <1>1
<1> QED BY <1>2, <1>3 DEF Log!Extended

\* Waking changes neither a position nor an outcome an iterator left with.
LEMMA WakeKeepsLeft ==
  ASSUME StreamInv, Wake
  PROVE  /\ at' = at
         /\ [r \in Reader |-> IF reader[r] \in {"ok", "rejected"} THEN reader[r] ELSE "open"]'
            = [r \in Reader |-> IF reader[r] \in {"ok", "rejected"} THEN reader[r] ELSE "open"]
  BY WakeAll

LEMMA StepRefines == StreamInv /\ [StreamNext]_streamVars => [Log!Next]_Log!vars
<1> SUFFICES ASSUME StreamInv, [StreamNext]_streamVars PROVE [Log!Next]_Log!vars
  OBVIOUS
<1>1. CASE UNCHANGED streamVars
  BY <1>1 DEF streamVars, Log!vars
<1>2. ASSUME NEW s \in Seq(Event), settled = "open", Emit(s) PROVE Log!Next
  <2>1. Log!Grow
    BY <1>2, AppendExtends, WakeKeepsLeft DEF Log!Grow, Emit
  <2> QED BY <2>1 DEF Log!Next
<1>3. ASSUME NEW s \in Seq(Event), NEW how \in {"ok", "rejected"}, settled = "open",
             Settle(s, how)
      PROVE  Log!Next
  <2>1. Log!Close
    BY <1>3, AppendExtends, WakeKeepsLeft DEF Log!Close, Settle
  <2> QED BY <2>1 DEF Log!Next
<1>4. ASSUME NEW r \in Reader, Yield(r) PROVE Log!Next
  <2>1. Log!Deliver(r)
    BY <1>4 DEF Log!Deliver, Yield, StreamInv, StreamTypeOK
  <2> QED BY <2>1 DEF Log!Next
<1>5. ASSUME NEW r \in Reader, Finish(r) PROVE Log!Next
  <2>1. settled \in {"ok", "rejected"} /\ at[r] = Len(events) /\ reader[r] = "running"
    BY <1>5 DEF Finish, StreamInv, StreamTypeOK
  <2>2. Log!Leave(r)
    BY <1>5, <2>1 DEF Log!Leave, Finish, StreamInv, StreamTypeOK
  <2> QED BY <2>2 DEF Log!Next
<1>6. ASSUME NEW r \in Reader, Park(r) PROVE UNCHANGED Log!vars
  BY <1>6 DEF Log!vars, Park, StreamInv, StreamTypeOK
<1>7. CASE StreamNext
  BY <1>2, <1>3, <1>4, <1>5, <1>6, <1>7 DEF StreamNext, Iterate
<1> QED BY <1>1, <1>7

\* The handle world.run() returns implements the event log: every iterator is
\* given every event once and in order, from the run's start, and leaves with
\* the run's outcome after the last one.
THEOREM StreamRefinesLog == StreamSpec => StreamIsLog
<1>1. StreamInit => Log!Init
  BY InitRefines
<1>2. StreamInv /\ [StreamNext]_streamVars => [Log!Next]_Log!vars
  BY StepRefines
<1> QED BY <1>1, <1>2, AlwaysIInv, PTL DEF StreamSpec, StreamIsLog, Log!Spec

-----------------------------------------------------------------------------
(***************************************************************************)
(* Spans.                                                                  *)
(***************************************************************************)
\* The parts of the name of a span.
LEMMA Names ==
    /\ \A i : RunSpan(i).by = i /\ RunSpan(i).kind = "run"
    /\ \A i, n : /\ StepSpan(i, n).by = i /\ StepSpan(i, n).kind = "step"
                 /\ StepSpan(i, n).step = n
    /\ \A i, n, p : /\ SystemSpan(i, n, p).by = i /\ SystemSpan(i, n, p).kind = "system"
                    /\ SystemSpan(i, n, p).step = n /\ SystemSpan(i, n, p).of = p
    /\ NoSpan.kind = "none"
BY DEF RunSpan, StepSpan, SystemSpan, NoSpan

LEMMA NameTypes ==
    /\ NoSpan \in SpanId
    /\ \A i \in Instrument : RunSpan(i) \in SpanId
    /\ \A i \in Instrument, n \in 0 .. MaxSteps : StepSpan(i, n) \in SpanId
    /\ \A i \in Instrument, n \in 0 .. MaxSteps, p \in Pair : SystemSpan(i, n, p) \in SpanId
<1>1. 0 \in 0 .. MaxSteps
  BY PairsAreFinite
<1> QED
  BY <1>1 DEF RunSpan, StepSpan, SystemSpan, NoSpan, SpanId

SpanRecord == [parent : SpanId, ends : Nat, error : BOOLEAN]
IsState(st) ==
    /\ st = [o |-> st.o, s |-> st.s]
    /\ \A d \in DOMAIN st.s : st.s[d] \in SpanRecord

LEMMA StartedIs ==
    ASSUME NEW st, IsState(st), NEW parents, \A d \in DOMAIN parents : parents[d] \in SpanId
    PROVE  LET new == Started(st, parents) IN
           /\ IsState(new) /\ new.o = st.o
           /\ DOMAIN new.s = DOMAIN st.s \cup DOMAIN parents
           /\ \A d \in DOMAIN parents : new.s[d] = [parent |-> parents[d], ends |-> 0, error |-> FALSE]
           /\ \A d \in DOMAIN st.s : d \notin DOMAIN parents => new.s[d] = st.s[d]
<1> DEFINE all == [d \in DOMAIN st.s \cup DOMAIN parents |->
                     IF d \in DOMAIN parents THEN [parent |-> parents[d], ends |-> 0, error |-> FALSE]
                     ELSE st.s[d]]
           new == Started(st, parents)
<1>1. new.o = st.o /\ new.s = all /\ new = [o |-> new.o, s |-> new.s]
  BY DEF Started
<1>2. \A d \in DOMAIN all : all[d] \in SpanRecord
  BY DEF IsState, SpanRecord
<1>3. IsState(new)
  <2> HIDE DEF new, all
  <2> QED BY <1>1, <1>2 DEF IsState
<1> HIDE DEF new
<1> QED
  BY <1>1, <1>3 DEF new

LEMMA EndedIs ==
    ASSUME NEW st, IsState(st), NEW ids, NEW error \in BOOLEAN
    PROVE  LET new == Ended(st, ids, error) IN
           /\ IsState(new) /\ new.o = st.o /\ DOMAIN new.s = DOMAIN st.s
           /\ \A d \in DOMAIN st.s \ ids : new.s[d] = st.s[d]
           /\ \A d \in DOMAIN st.s \cap ids : new.s[d] = EndedSpan(st.s[d], error)
<1> DEFINE all == [d \in DOMAIN st.s |->
                      IF d \in ids THEN EndedSpan(st.s[d], error) ELSE st.s[d]]
           new == Ended(st, ids, error)
<1>1. new.o = st.o /\ new.s = all /\ new = [o |-> new.o, s |-> new.s]
  BY DEF Ended
<1>2. \A x \in SpanRecord : EndedSpan(x, error) \in SpanRecord
  <2> SUFFICES ASSUME NEW x \in SpanRecord PROVE EndedSpan(x, error) \in SpanRecord
    OBVIOUS
  <2>1. x.parent \in SpanId /\ x.ends + 1 \in Nat /\ x.error \in BOOLEAN
    BY DEF SpanRecord
  <2> DEFINE mark == IF error /\ x.ends = 0 THEN TRUE ELSE x.error
  <2>2. mark \in BOOLEAN
    BY <2>1
  <2> HIDE DEF mark
  <2>3. [parent |-> x.parent, ends |-> x.ends + 1, error |-> mark] \in SpanRecord
    BY <2>1, <2>2 DEF SpanRecord
  <2> QED
    BY <2>3 DEF EndedSpan, mark
<1>3. \A d \in DOMAIN all : all[d] \in SpanRecord
  BY <1>2 DEF IsState
<1>4. IsState(new)
  <2> HIDE DEF new, all
  <2> QED BY <1>1, <1>3 DEF IsState
<1> HIDE DEF new
<1> QED
  BY <1>1, <1>4 DEF new

LEMMA RememberedIs ==
    ASSUME NEW st, IsState(st), NEW states
    PROVE  LET new == Remembered(st, states) IN
           /\ IsState(new) /\ new.s = st.s
           /\ \A i \in Instrument \cap DOMAIN states : new.o[i] = states[i]
           /\ \A i \in Instrument \ DOMAIN states : new.o[i] = st.o[i]
<1> DEFINE all == [i \in Instrument |-> IF i \in DOMAIN states THEN states[i] ELSE st.o[i]]
           new == Remembered(st, states)
<1>1. new.o = all /\ new.s = st.s /\ new = [o |-> new.o, s |-> new.s]
  BY DEF Remembered
<1>2. IsState(new)
  <2> HIDE DEF new, all
  <2> QED BY <1>1 DEF IsState
<1> HIDE DEF new
<1> QED
  BY <1>1, <1>2 DEF new

-----------------------------------------------------------------------------
(***************************************************************************)
(* The inductive invariant.                                                *)
(***************************************************************************)
\* The types of what the loop keeps.
LoopTypes ==
    /\ phase \in {"idle", "between", "stepping", "over"} /\ step \in 0 .. MaxSteps
    /\ body \in [1 .. MaxSteps -> [Pair -> Outcome]]

\* What a step did with its pairs.
BodiesOK ==
    /\ \A n \in 1 .. MaxSteps, p \in Pair :
          /\ body[n][p] # "none" => n <= step
          /\ body[n][p] = "running" => n = step /\ phase = "stepping"
    /\ phase = "idle" => step = 0
    /\ phase = "stepping" => step \in 1 .. MaxSteps

\* Nobody attaches twice, and the stack of patches is in the order of attaching.
OrderOK ==
    /\ observers \in Seq(Instrument) /\ detached \subseteq Instrument
    /\ Range(observers) \cap detached = {}
    /\ \A a, b \in DOMAIN observers : observers[a] = observers[b] => a = b
    /\ register \in Seq(Instrument)
    /\ \A a, b \in DOMAIN register : register[a] = register[b] => a = b
    /\ Range(register) \subseteq Range(observers) \cup detached
    /\ Range(observers) \subseteq Range(register)
    /\ \A a, b \in DOMAIN observers, c, d \in DOMAIN register :
          register[c] = observers[a] /\ register[d] = observers[b] => (a < b <=> c < d)

\* What is kept of an instrumentation that watches the run: its step's span, and the
\* spans of the pairs that run and have not been reported.
Running == IF phase = "stepping" THEN {p \in Pair : body[step][p] = "running"} ELSE {}
RunStateOK(i) ==
    /\ otel[i] = [known |-> otel[i].known, step |-> otel[i].step, open |-> otel[i].open]
    /\ otel[i].known \in BOOLEAN
    /\ otel[i].known <=> /\ Attached(i) /\ phase \in {"between", "stepping"}
                         /\ RunSpan(i) \in DOMAIN spans
    /\ otel[i].step = IF otel[i].known /\ phase = "stepping" THEN StepSpan(i, step) ELSE NoSpan
    /\ DOMAIN otel[i].open = IF otel[i].known THEN Running ELSE {}
    /\ \A p \in DOMAIN otel[i].open : otel[i].open[p] = SystemSpan(i, step, p)
RunStatesOK == \A i \in Instrument : RunStateOK(i)

\* Which spans there are.
Family(s) ==
    \/ s = RunSpan(s.by)
    \/ s.step \in 1 .. step /\ s = StepSpan(s.by, s.step)
    \/ /\ s.step \in 1 .. step /\ s.of \in Pair /\ s = SystemSpan(s.by, s.step, s.of)
       /\ StepSpan(s.by, s.step) \in DOMAIN spans
       /\ body[s.step][s.of] # "none"
FamilyOK(s) ==
    /\ s.by \in Instrument /\ Family(s) /\ RunSpan(s.by) \in DOMAIN spans
    /\ Attached(s.by) \/ s.by \in detached
SpansOK ==
    /\ \A s \in DOMAIN spans : FamilyOK(s)
    /\ phase = "idle" => DOMAIN spans = {}
    /\ phase = "stepping" =>
          \A i \in Range(observers) :
             RunSpan(i) \in DOMAIN spans => StepSpan(i, step) \in DOMAIN spans

\* No pair of a step that was watched goes without its span.
PairsTold ==
    \A i \in Instrument, n \in 1 .. MaxSteps, p \in Pair :
        body[n][p] # "none" /\ StepSpan(i, n) \in DOMAIN spans => SystemSpan(i, n, p) \in DOMAIN spans

\* When a span has ended, and with an error.
PairLife(s, b) ==
    /\ Attached(s.by) =>
          /\ spans[s].ends = IF b \in {"running", "late"} THEN 0 ELSE 1
          /\ spans[s].error <=> b \in {"guard", "failed", "lateFailed"}
    /\ ~Attached(s.by) =>
          /\ b = "running" => spans[s].ends = 1
          /\ b = "late" => spans[s].ends \in {0, 1}
          /\ spans[s].ends \in 0 .. 2
          /\ spans[s].ends = 0 => b = "late"
LifeOK(s) ==
    /\ s.kind = "run" =>
          spans[s].ends = IF Attached(s.by) /\ phase # "over" THEN 0 ELSE 1
    /\ s.kind = "step" =>
          spans[s].ends = IF Attached(s.by) /\ phase = "stepping" /\ s.step = step THEN 0 ELSE 1
    /\ s.kind = "system" => PairLife(s, body[s.step][s.of])
LivesOK == \A s \in DOMAIN spans : LifeOK(s)

RecordsOK == \A s \in DOMAIN spans : spans[s] \in SpanRecord

\* The stream is open until the run is over.
SettledOK == settled = "open" <=> phase # "over"

OtelInv ==
    /\ StreamInv /\ SettledOK /\ LoopTypes /\ BodiesOK /\ OrderOK
    /\ RunStatesOK /\ SpansOK /\ PairsTold /\ RecordsOK /\ SpansFormTheRun /\ LivesOK

-----------------------------------------------------------------------------
(***************************************************************************)
(* What a handler makes of the spans and RunStates it is given.            *)
(***************************************************************************)
\* A RunState, and one of which a field changed.
IsRunState(r) == r = [known |-> r.known, step |-> r.step, open |-> r.open]

LEMMA KnownSet ==
    ASSUME NEW r, IsRunState(r), NEW x
    PROVE  [r EXCEPT !.known = x] = [known |-> x, step |-> r.step, open |-> r.open]
BY DEF IsRunState

LEMMA StepSet ==
    ASSUME NEW r, IsRunState(r), NEW x
    PROVE  [r EXCEPT !.step = x] = [known |-> r.known, step |-> x, open |-> r.open]
BY DEF IsRunState

LEMMA OpenSet ==
    ASSUME NEW r, IsRunState(r), NEW x
    PROVE  [r EXCEPT !.open = x] = [known |-> r.known, step |-> r.step, open |-> x]
BY DEF IsRunState

\* The same spans, told pointwise.
Same(st, new) ==
    /\ IsState(new) /\ DOMAIN new.s = DOMAIN st.s
    /\ \A d \in DOMAIN st.s : new.s[d] = st.s[d]

LEMMA NewKnown ==
    NoRun.known = FALSE /\ [NoRun EXCEPT !.known = TRUE] = [known |-> TRUE, step |-> NoSpan, open |-> <<>>]
    /\ NoRun = [known |-> FALSE, step |-> NoSpan, open |-> <<>>]
    /\ DOMAIN NoRun.open = {}
<1>1. NoRun = [known |-> FALSE, step |-> NoSpan, open |-> <<>>]
  BY DEF NoRun
<1>2. NoRun.known = FALSE /\ NoRun.open = <<>>
  BY DEF NoRun
<1>3. [NoRun EXCEPT !.known = TRUE] = [known |-> TRUE, step |-> NoRun.step, open |-> NoRun.open]
  BY <1>1, KnownSet DEF IsRunState
<1>4. DOMAIN NoRun.open = {}
  BY <1>2
<1>5. NoRun.step = NoSpan
  BY <1>1
<1> QED
  BY <1>1, <1>2, <1>3, <1>4, <1>5

LEMMA OnRunStartIs ==
    ASSUME NEW st, IsState(st), Range(observers) \subseteq Instrument
    PROVE  LET new == OnRunStart(st) IN
           /\ IsState(new)
           /\ DOMAIN new.s = DOMAIN st.s \cup {RunSpan(i) : i \in Range(observers)}
           /\ \A i \in Range(observers) :
                 /\ new.s[RunSpan(i)] = [parent |-> NoSpan, ends |-> 0, error |-> FALSE]
                 /\ new.o[i] = [known |-> TRUE, step |-> NoSpan, open |-> <<>>]
           /\ \A i \in Instrument \ Range(observers) : new.o[i] = st.o[i]
<1> DEFINE runs == [id \in {RunSpan(i) : i \in Range(observers)} |-> NoSpan]
           st1 == Started(st, runs)
           states == [i \in Range(observers) |-> [NoRun EXCEPT !.known = TRUE]]
           new == Remembered(st1, states)
<1>1. \A d \in DOMAIN runs : runs[d] \in SpanId
  BY NameTypes
<1>2. /\ IsState(st1) /\ st1.o = st.o /\ DOMAIN st1.s = DOMAIN st.s \cup DOMAIN runs
      /\ \A d \in DOMAIN runs : st1.s[d] = [parent |-> runs[d], ends |-> 0, error |-> FALSE]
  <2> HIDE DEF runs
  <2> QED BY <1>1, StartedIs
<1>3. /\ IsState(new) /\ new.s = st1.s
      /\ \A i \in Instrument \cap DOMAIN states : new.o[i] = states[i]
      /\ \A i \in Instrument \ DOMAIN states : new.o[i] = st1.o[i]
  <2> HIDE DEF st1, states
  <2> QED BY <1>2, RememberedIs
<1>4. OnRunStart(st) = new
  BY DEF OnRunStart
<1>5. DOMAIN runs = {RunSpan(i) : i \in Range(observers)} /\ DOMAIN states = Range(observers)
      /\ \A d \in DOMAIN runs : runs[d] = NoSpan
      /\ \A i \in Range(observers) : states[i] = [known |-> TRUE, step |-> NoSpan, open |-> <<>>]
  BY NewKnown
<1> HIDE DEF st1, new, runs, states
<1>6. \A i \in Range(observers) :
         /\ new.s[RunSpan(i)] = [parent |-> NoSpan, ends |-> 0, error |-> FALSE]
         /\ new.o[i] = [known |-> TRUE, step |-> NoSpan, open |-> <<>>]
  BY <1>2, <1>3, <1>5
<1>7. \A i \in Instrument \ Range(observers) : new.o[i] = st.o[i]
  BY <1>2, <1>3, <1>5
<1> QED
  BY <1>2, <1>3, <1>4, <1>5, <1>6, <1>7

LEMMA OnStepStartIs ==
    ASSUME NEW st, IsState(st), Range(observers) \subseteq Instrument, NEW n \in 1 .. MaxSteps,
           \A i \in Watching(st) : IsRunState(st.o[i]) /\ st.o[i].step = NoSpan,
           NoSpan \notin DOMAIN st.s
    PROVE  LET new == OnStepStart(st, n)
               I == Watching(st)
           IN /\ IsState(new)
              /\ DOMAIN new.s = DOMAIN st.s \cup {StepSpan(i, n) : i \in I}
              /\ \A i \in I :
                    /\ new.s[StepSpan(i, n)] = [parent |-> RunSpan(i), ends |-> 0, error |-> FALSE]
                    /\ new.o[i] = [known |-> st.o[i].known, step |-> StepSpan(i, n),
                                   open |-> st.o[i].open]
              /\ \A i \in Instrument \ I : new.o[i] = st.o[i]
              /\ \A d \in DOMAIN st.s \ {StepSpan(i, n) : i \in I} : new.s[d] = st.s[d]
              /\ Watching(new) = I
<1> DEFINE I == Watching(st)
           begun == [id \in {StepSpan(i, n) : i \in I} |-> RunSpan(id.by)]
           st1 == Ended(st, StepSpans(st, I), FALSE)
           st2 == Started(st1, begun)
           states == [i \in I |-> [st.o[i] EXCEPT !.step = StepSpan(i, n)]]
           new == Remembered(st2, states)
<1>0. I \subseteq Instrument
  BY DEF Watching
<1>1. /\ \A d \in DOMAIN begun : begun[d] \in SpanId
      /\ \A i \in I : StepSpan(i, n) \in DOMAIN begun /\ begun[StepSpan(i, n)] = RunSpan(i)
  BY <1>0, NameTypes, Names
<1>2. IsState(st1) /\ st1.o = st.o /\ DOMAIN st1.s = DOMAIN st.s
      /\ \A d \in DOMAIN st.s : st1.s[d] = st.s[d]
  <2>1. StepSpans(st, I) \subseteq {NoSpan}
    BY DEF StepSpans
  <2> HIDE DEF I
  <2>2. /\ IsState(st1) /\ st1.o = st.o /\ DOMAIN st1.s = DOMAIN st.s
        /\ \A d \in DOMAIN st.s \ StepSpans(st, I) : st1.s[d] = st.s[d]
    BY EndedIs
  <2> QED BY <2>1, <2>2
<1>3. /\ IsState(st2) /\ st2.o = st1.o /\ DOMAIN st2.s = DOMAIN st1.s \cup DOMAIN begun
      /\ \A d \in DOMAIN begun : st2.s[d] = [parent |-> begun[d], ends |-> 0, error |-> FALSE]
      /\ \A d \in DOMAIN st1.s : d \notin DOMAIN begun => st2.s[d] = st1.s[d]
  <2> HIDE DEF begun, st1
  <2> QED BY <1>1, <1>2, StartedIs
<1>4. /\ IsState(new) /\ new.s = st2.s
      /\ \A i \in Instrument \cap DOMAIN states : new.o[i] = states[i]
      /\ \A i \in Instrument \ DOMAIN states : new.o[i] = st2.o[i]
  <2>1. IsState(st2)
    BY <1>3
  <2> HIDE DEF st2, states
  <2> QED BY <2>1, RememberedIs
<1>5. OnStepStart(st, n) = new
  BY DEF OnStepStart
<1>6. DOMAIN begun = {StepSpan(i, n) : i \in I}
  OBVIOUS
<1>7. \A i \in I : new.o[i] = [known |-> st.o[i].known, step |-> StepSpan(i, n), open |-> st.o[i].open]
  <2>1. DOMAIN states = I /\ \A i \in I : states[i] = [st.o[i] EXCEPT !.step = StepSpan(i, n)]
    OBVIOUS
  <2> HIDE DEF new, states
  <2> QED BY <1>0, <1>4, <2>1, StepSet
<1>8. \A i \in Instrument \ I : new.o[i] = st.o[i]
  <2>1. DOMAIN states = I
    OBVIOUS
  <2> HIDE DEF new, states, st2, st1
  <2> QED BY <1>4, <1>2, <1>3, <2>1
<1>9. Watching(new) = I
  <2>1. \A i \in Range(observers) : new.o[i].known = st.o[i].known
    <3> HIDE DEF new, I
    <3>1. \A i \in I : new.o[i].known = st.o[i].known
      <4> SUFFICES ASSUME NEW i \in I PROVE new.o[i].known = st.o[i].known
        OBVIOUS
      <4>1. new.o[i] = [known |-> st.o[i].known, step |-> StepSpan(i, n), open |-> st.o[i].open]
        BY <1>7
      <4> QED BY <4>1
    <3> QED BY <3>1, <1>8
  <2> QED
    BY <2>1 DEF Watching
<1> HIDE DEF st1, st2, new, begun, I
<1>10. \A i \in I : new.s[StepSpan(i, n)] = [parent |-> RunSpan(i), ends |-> 0, error |-> FALSE]
  BY <1>1, <1>3, <1>4
<1> QED
  BY <1>2, <1>3, <1>4, <1>5, <1>6, <1>7, <1>8, <1>9, <1>10 DEF I

LEMMA OnWrapIs ==
    ASSUME NEW st, IsState(st), Range(observers) \subseteq Instrument, NEW n \in 1 .. MaxSteps,
           NEW pairs \in SUBSET Pair,
           \A i \in Watching(st) :
              /\ IsRunState(st.o[i]) /\ st.o[i].step = StepSpan(i, n) /\ DOMAIN st.o[i].open = {}
    PROVE  LET new == OnWrap(st, n, pairs)
               I == Watching(st)
           IN /\ IsState(new)
              /\ DOMAIN new.s = DOMAIN st.s \cup {SystemSpan(i, n, p) : i \in I, p \in pairs}
              /\ \A i \in I : \A p \in pairs :
                    new.s[SystemSpan(i, n, p)] = [parent |-> StepSpan(i, n), ends |-> 0, error |-> FALSE]
              /\ \A i \in I :
                    /\ IsRunState(new.o[i]) /\ new.o[i].known = st.o[i].known
                    /\ new.o[i].step = StepSpan(i, n) /\ DOMAIN new.o[i].open = pairs
                    /\ \A p \in pairs : new.o[i].open[p] = SystemSpan(i, n, p)
              /\ \A i \in Instrument \ I : new.o[i] = st.o[i]
              /\ \A d \in DOMAIN st.s \ {SystemSpan(i, n, p) : i \in I, p \in pairs} :
                    new.s[d] = st.s[d]
              /\ Watching(new) = I
<1> DEFINE I == Watching(st)
           ids == {SystemSpan(i, n, p) : i \in I, p \in pairs}
           begun == [id \in ids |-> Parent(st, id.by)]
           st1 == Started(st, begun)
           wrapped(i) == [p \in DOMAIN st.o[i].open \cup pairs |->
                             IF p \in pairs THEN SystemSpan(i, n, p) ELSE st.o[i].open[p]]
           states == [i \in I |-> [st.o[i] EXCEPT !.open =
                      [p \in DOMAIN @ \cup pairs |->
                          IF p \in pairs THEN SystemSpan(i, n, p) ELSE @[p]]]]
           new == Remembered(st1, states)
<1>0. I \subseteq Instrument
  BY DEF Watching
<1>1. \A i \in I : Parent(st, i) = StepSpan(i, n)
  BY Names DEF Parent
<1>2. DOMAIN begun = ids /\ \A i \in I : \A p \in pairs :
         /\ SystemSpan(i, n, p) \in ids
         /\ begun[SystemSpan(i, n, p)] = StepSpan(i, n)
  <2> SUFFICES ASSUME NEW i \in I, NEW p \in pairs
               PROVE  begun[SystemSpan(i, n, p)] = StepSpan(i, n)
    OBVIOUS
  <2>1. SystemSpan(i, n, p) \in ids
    OBVIOUS
  <2>2. begun[SystemSpan(i, n, p)] = Parent(st, SystemSpan(i, n, p).by)
    <3> HIDE DEF ids
    <3> QED BY <2>1
  <2> HIDE DEF I, begun, ids
  <2> QED
    BY <1>1, <2>2, Names
<1>3. \A d \in DOMAIN begun : begun[d] \in SpanId
  <2> HIDE DEF begun
  <2> SUFFICES ASSUME NEW i \in I, NEW p \in pairs
               PROVE  begun[SystemSpan(i, n, p)] \in SpanId
    BY <1>2
  <2>1. StepSpan(i, n) \in SpanId
    BY <1>0, NameTypes
  <2> HIDE DEF I, ids
  <2> QED
    BY <1>2, <2>1
<1>4. /\ IsState(st1) /\ st1.o = st.o /\ DOMAIN st1.s = DOMAIN st.s \cup DOMAIN begun
      /\ \A d \in DOMAIN begun : st1.s[d] = [parent |-> begun[d], ends |-> 0, error |-> FALSE]
      /\ \A d \in DOMAIN st.s : d \notin DOMAIN begun => st1.s[d] = st.s[d]
  <2> HIDE DEF begun
  <2> QED BY <1>3, StartedIs
<1>5. /\ IsState(new) /\ new.s = st1.s
      /\ \A i \in Instrument \cap DOMAIN states : new.o[i] = states[i]
      /\ \A i \in Instrument \ DOMAIN states : new.o[i] = st1.o[i]
  <2>1. IsState(st1)
    BY <1>4
  <2> HIDE DEF st1, states
  <2> QED BY <2>1, RememberedIs
<1>6. OnWrap(st, n, pairs) = new
  BY DEF OnWrap
<1>61. Watching(st) = I /\ DOMAIN states = I
      /\ \A i \in I : states[i] = [st.o[i] EXCEPT !.open = wrapped(i)]
  OBVIOUS
<1>62. \A i \in I : IsRunState(st.o[i]) /\ st.o[i].step = StepSpan(i, n) /\ DOMAIN st.o[i].open = {}
  OBVIOUS
<1>63. \A i \in I : DOMAIN wrapped(i) = pairs /\ \A p \in pairs : wrapped(i)[p] = SystemSpan(i, n, p)
  <2> SUFFICES ASSUME NEW i \in I
               PROVE  DOMAIN wrapped(i) = pairs /\ \A p \in pairs : wrapped(i)[p] = SystemSpan(i, n, p)
    OBVIOUS
  <2>1. DOMAIN st.o[i].open = {}
    BY <1>62
  <2> QED BY <2>1
<1> HIDE DEF new, states, st1, begun, I, ids, wrapped
<1>7. \A i \in I : new.o[i] = [known |-> st.o[i].known, step |-> StepSpan(i, n), open |-> wrapped(i)]
  <2> SUFFICES ASSUME NEW i \in I
               PROVE  new.o[i] = [known |-> st.o[i].known, step |-> StepSpan(i, n), open |-> wrapped(i)]
    OBVIOUS
  <2>1. new.o[i] = states[i]
    BY <1>0, <1>5, <1>61
  <2>2. new.o[i] = [st.o[i] EXCEPT !.open = wrapped(i)]
    BY <2>1, <1>61
  <2> QED BY <2>2, <1>62, OpenSet
<1>8. \A i \in Instrument \ I : new.o[i] = st.o[i]
  BY <1>5, <1>4, <1>61
<1>9. \A i \in I :
         /\ IsRunState(new.o[i]) /\ new.o[i].known = st.o[i].known
         /\ new.o[i].step = StepSpan(i, n) /\ DOMAIN new.o[i].open = pairs
         /\ \A p \in pairs : new.o[i].open[p] = SystemSpan(i, n, p)
  <2> SUFFICES ASSUME NEW i \in I
               PROVE  /\ IsRunState(new.o[i]) /\ new.o[i].known = st.o[i].known
                      /\ new.o[i].step = StepSpan(i, n) /\ DOMAIN new.o[i].open = pairs
                      /\ \A p \in pairs : new.o[i].open[p] = SystemSpan(i, n, p)
    OBVIOUS
  <2>1. new.o[i] = [known |-> st.o[i].known, step |-> StepSpan(i, n), open |-> wrapped(i)]
    BY <1>7
  <2>2. /\ new.o[i].known = st.o[i].known /\ new.o[i].step = StepSpan(i, n)
        /\ new.o[i].open = wrapped(i) /\ IsRunState(new.o[i])
    BY <2>1 DEF IsRunState
  <2> QED BY <2>2, <1>63
<1>10. Watching(new) = I
  <2>1. \A i \in Range(observers) : new.o[i].known = st.o[i].known
    BY <1>9, <1>8
  <2> QED
    BY <1>61, <2>1 DEF Watching
<1>11. \A i \in I : \A p \in pairs :
          new.s[SystemSpan(i, n, p)] = [parent |-> StepSpan(i, n), ends |-> 0, error |-> FALSE]
  BY <1>2, <1>4, <1>5
<1>12. DOMAIN new.s = DOMAIN st.s \cup ids /\ \A d \in DOMAIN st.s \ ids : new.s[d] = st.s[d]
  BY <1>2, <1>4, <1>5
<1> QED
  BY <1>5, <1>6, <1>61, <1>8, <1>9, <1>10, <1>11, <1>12 DEF ids

\* The instrumentations of I forgot pairs, and nothing else of a RunState changed.
Forgot(st, new, I, pairs) ==
    /\ \A i \in I :
          /\ IsRunState(new.o[i]) /\ new.o[i].known = st.o[i].known
          /\ new.o[i].step = st.o[i].step
          /\ DOMAIN new.o[i].open = DOMAIN st.o[i].open \ pairs
          /\ \A p \in DOMAIN new.o[i].open : new.o[i].open[p] = st.o[i].open[p]
    /\ \A i \in Instrument \ I : new.o[i] = st.o[i]

LEMMA ForgottenIs ==
    ASSUME NEW st, IsState(st), NEW I \in SUBSET Instrument, NEW pairs,
           \A i \in I : IsRunState(st.o[i])
    PROVE  LET new == Forgotten(st, I, pairs) IN
           IsState(new) /\ new.s = st.s /\ Forgot(st, new, I, pairs)
<1> DEFINE kept(i) == Restrict(st.o[i].open, DOMAIN st.o[i].open \ pairs)
           states == [i \in I |-> [st.o[i] EXCEPT !.open = Restrict(@, DOMAIN @ \ pairs)]]
           new == Remembered(st, states)
<1>1. Forgotten(st, I, pairs) = new
  BY DEF Forgotten
<1>2. DOMAIN states = I /\ \A i \in I : states[i] = [st.o[i] EXCEPT !.open = kept(i)]
  OBVIOUS
<1>3. /\ IsState(new) /\ new.s = st.s
      /\ \A i \in Instrument \cap DOMAIN states : new.o[i] = states[i]
      /\ \A i \in Instrument \ DOMAIN states : new.o[i] = st.o[i]
  <2> HIDE DEF states
  <2> QED BY RememberedIs
<1>4. \A i \in I :
         /\ IsRunState(new.o[i]) /\ new.o[i].known = st.o[i].known
         /\ new.o[i].step = st.o[i].step
         /\ DOMAIN new.o[i].open = DOMAIN st.o[i].open \ pairs
         /\ \A p \in DOMAIN new.o[i].open : new.o[i].open[p] = st.o[i].open[p]
  <2> SUFFICES ASSUME NEW i \in I
               PROVE  /\ IsRunState(new.o[i]) /\ new.o[i].known = st.o[i].known
                      /\ new.o[i].step = st.o[i].step
                      /\ DOMAIN new.o[i].open = DOMAIN st.o[i].open \ pairs
                      /\ \A p \in DOMAIN new.o[i].open : new.o[i].open[p] = st.o[i].open[p]
    OBVIOUS
  <2>1. new.o[i] = [st.o[i] EXCEPT !.open = kept(i)]
    <3> HIDE DEF new, states
    <3> QED BY <1>2, <1>3
  <2>2. new.o[i] = [known |-> st.o[i].known, step |-> st.o[i].step, open |-> kept(i)]
    <3> HIDE DEF new, kept
    <3> QED BY <2>1, OpenSet
  <2>3. /\ DOMAIN kept(i) = DOMAIN st.o[i].open \ pairs
        /\ \A p \in DOMAIN kept(i) : kept(i)[p] = st.o[i].open[p]
    BY DEF Restrict
  <2> HIDE DEF new, kept
  <2> QED BY <2>2, <2>3 DEF IsRunState
<1> HIDE DEF new, states
<1>5. Forgot(st, new, I, pairs)
  BY <1>2, <1>3, <1>4 DEF Forgot
<1> QED
  BY <1>1, <1>3, <1>5

\* The spans a failure report starts: those of the pairs that were not wrapped.
Vetoed(st, n, pairs) ==
    {d \in SpanId : \E i \in Watching(st) : \E p \in pairs \ DOMAIN st.o[i].open :
                       d = SystemSpan(i, n, p)}

LEMMA OnSystemErrorIs ==
    ASSUME NEW st, IsState(st), Range(observers) \subseteq Instrument, NEW n \in 1 .. MaxSteps,
           NEW pairs \in SUBSET Pair,
           \A i \in Watching(st) : IsRunState(st.o[i]) /\ st.o[i].step = StepSpan(i, n),
           Vetoed(st, n, pairs) \cap DOMAIN st.s = {}
    PROVE  LET new == OnSystemError(st, n, pairs)
               I == Watching(st)
           IN /\ IsState(new)
              /\ DOMAIN new.s = DOMAIN st.s \cup Vetoed(st, n, pairs)
              /\ \A i \in I : \A p \in pairs \ DOMAIN st.o[i].open :
                    new.s[SystemSpan(i, n, p)] = [parent |-> StepSpan(i, n), ends |-> 1, error |-> TRUE]
              /\ \A d \in DOMAIN st.s : new.s[d] = st.s[d]
              /\ Forgot(st, new, I, pairs)
<1> DEFINE I == Watching(st)
           vetoed == {SystemSpan(x[1], n, x[2]) :
                        x \in {x \in I \X pairs : x[2] \notin DOMAIN st.o[x[1]].open}}
           begun == [id \in vetoed |-> Parent(st, id.by)]
           st1 == Started(st, begun)
           told == Ended(st1, vetoed, TRUE)
           new == Forgotten(told, I, pairs)
<1>0. I \subseteq Instrument
  BY DEF Watching
<1>1. OnSystemError(st, n, pairs) = new
  BY DEF OnSystemError
<1>2. vetoed = Vetoed(st, n, pairs)
  <2>1. ASSUME NEW d \in vetoed PROVE d \in Vetoed(st, n, pairs)
    <3>1. PICK x \in {x \in I \X pairs : x[2] \notin DOMAIN st.o[x[1]].open} :
             d = SystemSpan(x[1], n, x[2])
      OBVIOUS
    <3>2. x[1] \in I /\ x[2] \in pairs /\ x[2] \notin DOMAIN st.o[x[1]].open
      OBVIOUS
    <3>3. d \in SpanId
      <4> HIDE DEF I
      <4> QED BY <1>0, <3>1, <3>2, NameTypes
    <3> QED
      BY <3>1, <3>2, <3>3 DEF Vetoed
  <2>2. ASSUME NEW d \in Vetoed(st, n, pairs) PROVE d \in vetoed
    <3>1. PICK i \in I, p \in pairs : p \notin DOMAIN st.o[i].open /\ d = SystemSpan(i, n, p)
      BY DEF Vetoed
    <3> DEFINE x == <<i, p>>
    <3>2. x \in I \X pairs /\ x[1] = i /\ x[2] = p
      OBVIOUS
    <3> HIDE DEF I, x
    <3> QED
      BY <3>1, <3>2
  <2> QED
    BY <2>1, <2>2
<1>3. \A i \in I : IsRunState(st.o[i]) /\ st.o[i].step = StepSpan(i, n) /\ Parent(st, i) = StepSpan(i, n)
  BY Names DEF Parent
<1>30. \A i \in I : \A p \in pairs \ DOMAIN st.o[i].open : SystemSpan(i, n, p) \in vetoed
  <2> SUFFICES ASSUME NEW i \in I, NEW p \in pairs \ DOMAIN st.o[i].open
               PROVE  SystemSpan(i, n, p) \in Vetoed(st, n, pairs)
    BY <1>2
  <2>1. SystemSpan(i, n, p) \in SpanId
    BY <1>0, NameTypes
  <2> QED
    BY <2>1 DEF Vetoed
<1>31. \A d \in vetoed : \E i \in I : \E p \in pairs \ DOMAIN st.o[i].open : d = SystemSpan(i, n, p)
  BY <1>2 DEF Vetoed
<1>32. DOMAIN begun = vetoed /\ \A d \in vetoed : begun[d] = Parent(st, d.by)
  OBVIOUS
<1> HIDE DEF new, told, st1, begun, vetoed, I
<1>4. \A i \in I : \A p \in pairs \ DOMAIN st.o[i].open : begun[SystemSpan(i, n, p)] = StepSpan(i, n)
  BY <1>3, <1>30, <1>32, Names
<1>5. \A d \in DOMAIN begun : begun[d] \in SpanId
  <2> SUFFICES ASSUME NEW i \in I, NEW p \in pairs \ DOMAIN st.o[i].open
               PROVE  begun[SystemSpan(i, n, p)] \in SpanId
    BY <1>31, <1>32
  <2>1. StepSpan(i, n) \in SpanId
    BY <1>0, NameTypes
  <2> QED
    BY <1>4, <2>1
<1>6. /\ IsState(st1) /\ st1.o = st.o /\ DOMAIN st1.s = DOMAIN st.s \cup vetoed
      /\ \A d \in vetoed : st1.s[d] = [parent |-> begun[d], ends |-> 0, error |-> FALSE]
      /\ \A d \in DOMAIN st.s : d \notin vetoed => st1.s[d] = st.s[d]
  BY <1>5, <1>32, StartedIs DEF st1
<1>7. /\ IsState(told) /\ told.o = st1.o /\ DOMAIN told.s = DOMAIN st1.s
      /\ \A d \in DOMAIN st1.s \ vetoed : told.s[d] = st1.s[d]
      /\ \A d \in DOMAIN st1.s \cap vetoed : told.s[d] = EndedSpan(st1.s[d], TRUE)
  <2>1. IsState(st1)
    BY <1>6
  <2> QED BY <2>1, EndedIs DEF told
<1>8. IsState(new) /\ new.s = told.s /\ Forgot(told, new, I, pairs)
  <2>1. IsState(told) /\ \A i \in I : IsRunState(told.o[i])
    BY <1>3, <1>6, <1>7
  <2>2. I \in SUBSET Instrument
    BY <1>0
  <2> QED BY <2>1, <2>2, ForgottenIs DEF new
<1>9. \A i \in I : \A p \in pairs \ DOMAIN st.o[i].open :
         new.s[SystemSpan(i, n, p)] = [parent |-> StepSpan(i, n), ends |-> 1, error |-> TRUE]
  <2> SUFFICES ASSUME NEW i \in I, NEW p \in pairs \ DOMAIN st.o[i].open
               PROVE  new.s[SystemSpan(i, n, p)] = [parent |-> StepSpan(i, n), ends |-> 1, error |-> TRUE]
    OBVIOUS
  <2> DEFINE d == SystemSpan(i, n, p)
  <2>1. d \in vetoed
    BY <1>30
  <2>2. st1.s[d] = [parent |-> StepSpan(i, n), ends |-> 0, error |-> FALSE]
    BY <2>1, <1>6, <1>4
  <2>3. new.s[d] = EndedSpan(st1.s[d], TRUE)
    BY <2>1, <1>6, <1>7, <1>8
  <2> QED
    BY <2>2, <2>3 DEF EndedSpan
<1>10. \A d \in DOMAIN st.s : new.s[d] = st.s[d]
  <2>1. \A d \in DOMAIN st.s : d \notin vetoed
    BY <1>2
  <2> QED
    BY <2>1, <1>6, <1>7, <1>8
<1>11. DOMAIN new.s = DOMAIN st.s \cup Vetoed(st, n, pairs)
  BY <1>2, <1>6, <1>7, <1>8
<1>12. told.o = st.o
  BY <1>6, <1>7
<1>13. Forgot(st, new, I, pairs)
  BY <1>8, <1>12 DEF Forgot
<1> QED
  BY <1>1, <1>8, <1>9, <1>10, <1>11, <1>13 DEF I

\* A report that finds every pair wrapped starts no span.
LEMMA ReportIs ==
    ASSUME NEW st, IsState(st), Range(observers) \subseteq Instrument, NEW n \in 1 .. MaxSteps,
           NEW p \in Pair,
           \A i \in Watching(st) : /\ IsRunState(st.o[i]) /\ st.o[i].step = StepSpan(i, n)
                                   /\ p \in DOMAIN st.o[i].open
    PROVE  /\ Same(st, OnSystemError(st, n, {p}))
           /\ Forgot(st, OnSystemError(st, n, {p}), Watching(st), {p})
           /\ Same(st, OnSystemEnd(st, {p}))
           /\ Forgot(st, OnSystemEnd(st, {p}), Watching(st), {p})
<1>0. Watching(st) \in SUBSET Instrument
  BY DEF Watching
<1>1. Vetoed(st, n, {p}) = {}
  BY DEF Vetoed
<1>2. Same(st, OnSystemError(st, n, {p})) /\ Forgot(st, OnSystemError(st, n, {p}), Watching(st), {p})
  <2>1. {p} \in SUBSET Pair /\ Vetoed(st, n, {p}) \cap DOMAIN st.s = {}
    BY <1>1
  <2> DEFINE new == OnSystemError(st, n, {p})
  <2>2. /\ IsState(new)
        /\ DOMAIN new.s = DOMAIN st.s \cup Vetoed(st, n, {p})
        /\ \A d \in DOMAIN st.s : new.s[d] = st.s[d]
        /\ Forgot(st, new, Watching(st), {p})
    BY <2>1, OnSystemErrorIs
  <2> HIDE DEF new
  <2>3. Same(st, new) /\ Forgot(st, new, Watching(st), {p})
    BY <1>1, <2>2 DEF Same
  <2> QED
    BY <2>3 DEF new
<1>3. Same(st, OnSystemEnd(st, {p})) /\ Forgot(st, OnSystemEnd(st, {p}), Watching(st), {p})
  <2> DEFINE new == Forgotten(st, Watching(st), {p})
  <2>1. OnSystemEnd(st, {p}) = new
    BY DEF OnSystemEnd
  <2>2. \A i \in Watching(st) : IsRunState(st.o[i])
    OBVIOUS
  <2>3. IsState(new) /\ new.s = st.s /\ Forgot(st, new, Watching(st), {p})
    BY <1>0, <2>2, ForgottenIs
  <2> HIDE DEF new
  <2> QED
    BY <2>1, <2>3 DEF Same
<1> QED
  BY <1>2, <1>3

-----------------------------------------------------------------------------
\* Spans end, and no other changes.
Closes(st, new, fin) ==
    /\ IsState(new) /\ DOMAIN new.s = DOMAIN st.s
    /\ \A d \in DOMAIN st.s :
          /\ new.s[d].parent = st.s[d].parent
          /\ new.s[d].ends = IF d \in fin THEN st.s[d].ends + 1 ELSE st.s[d].ends
          /\ d \notin fin => new.s[d].error = st.s[d].error

LEMMA EndedCloses ==
    ASSUME NEW st, IsState(st), NEW ids, NEW error \in BOOLEAN
    PROVE  Closes(st, Ended(st, ids, error), ids) /\ Ended(st, ids, error).o = st.o
<1> DEFINE new == Ended(st, ids, error)
<1>1. /\ IsState(new) /\ new.o = st.o /\ DOMAIN new.s = DOMAIN st.s
      /\ \A d \in DOMAIN st.s \ ids : new.s[d] = st.s[d]
      /\ \A d \in DOMAIN st.s \cap ids : new.s[d] = EndedSpan(st.s[d], error)
  BY EndedIs
<1> HIDE DEF new
<1>2. \A x : EndedSpan(x, error).parent = x.parent /\ EndedSpan(x, error).ends = x.ends + 1
  BY DEF EndedSpan
<1>3. \A d \in DOMAIN st.s :
         /\ new.s[d].parent = st.s[d].parent
         /\ new.s[d].ends = IF d \in ids THEN st.s[d].ends + 1 ELSE st.s[d].ends
         /\ d \notin ids => new.s[d].error = st.s[d].error
  BY <1>1, <1>2
<1> QED
  BY <1>1, <1>3 DEF Closes, new

\* The end of the RunStates of I: what they hold open, their steps and their runs end.
HeldOpen(st, I) == {d \in UNION {Range(st.o[i].open) : i \in I} : st.s[d].ends = 0}

LEMMA RunOverIs ==
    ASSUME NEW st, IsState(st), NEW I \in SUBSET Instrument, NEW error \in BOOLEAN,
           \A i \in I : /\ RunSpan(i) \notin HeldOpen(st, I)
                        /\ RunSpan(i) \notin StepSpans(st, I)
    PROVE  LET new == OnRunOver(st, I, error) IN
           /\ Closes(st, new, HeldOpen(st, I) \cup StepSpans(st, I) \cup {RunSpan(i) : i \in I})
           /\ \A i \in I : new.o[i] = NoRun
           /\ \A i \in Instrument \ I : new.o[i] = st.o[i]
<1> DEFINE first == HeldOpen(st, I) \cup StepSpans(st, I)
           runs == {RunSpan(i) : i \in I}
           st1 == Ended(st, first, FALSE)
           st2 == Ended(st1, runs, error)
           states == [i \in I |-> NoRun]
           new == Remembered(st2, states)
<1>1. OnRunOver(st, I, error) = new
  BY DEF OnRunOver, Finished, HeldOpen
<1>2. DOMAIN states = I /\ \A i \in I : states[i] = NoRun
  OBVIOUS
<1>3. first \cap runs = {}
  OBVIOUS
<1> HIDE DEF first, runs, st1, st2, states, new
<1>4. Closes(st, st1, first) /\ st1.o = st.o
  BY EndedCloses DEF st1
<1>5. IsState(st1)
  BY <1>4 DEF Closes
<1>6. Closes(st1, st2, runs) /\ st2.o = st1.o
  BY <1>5, EndedCloses DEF st2
<1>7. IsState(st2)
  BY <1>6 DEF Closes
<1>8. /\ IsState(new) /\ new.s = st2.s
      /\ \A i \in I : new.o[i] = NoRun
      /\ \A i \in Instrument \ I : new.o[i] = st2.o[i]
  BY <1>2, <1>7, RememberedIs DEF new
<1>9. Closes(st, new, first \cup runs)
  BY <1>3, <1>4, <1>6, <1>8 DEF Closes
<1>10. \A i \in Instrument \ I : new.o[i] = st.o[i]
  BY <1>4, <1>6, <1>8
<1> QED
  BY <1>1, <1>8, <1>9, <1>10 DEF first, runs

-----------------------------------------------------------------------------
(***************************************************************************)
(* What the invariant says of the spans and RunStates a handler is given.  *)
(***************************************************************************)
\* No two names are alike unless their parts are.
LEMMA Distinct ==
    /\ \A i, j : RunSpan(i) = RunSpan(j) => i = j
    /\ \A i, j, n, m : StepSpan(i, n) = StepSpan(j, m) => i = j /\ n = m
    /\ \A i, j, n, m, p, q :
          SystemSpan(i, n, p) = SystemSpan(j, m, q) => i = j /\ n = m /\ p = q
    /\ \A i, j, n : RunSpan(i) # StepSpan(j, n)
    /\ \A i, j, n, p : RunSpan(i) # SystemSpan(j, n, p)
    /\ \A i, j, n, m, p : StepSpan(i, n) # SystemSpan(j, m, p)
    /\ \A i : RunSpan(i) # NoSpan
    /\ \A i, n : StepSpan(i, n) # NoSpan
    /\ \A i, n, p : SystemSpan(i, n, p) # NoSpan
<1>1. "run" # "step" /\ "run" # "system" /\ "step" # "system" /\ "none" # "run"
      /\ "none" # "step" /\ "none" # "system"
  OBVIOUS
<1>2. \A i, j : RunSpan(i) = RunSpan(j) => i = j
  BY Names
<1>3. \A i, j, n, m : StepSpan(i, n) = StepSpan(j, m) => i = j /\ n = m
  BY Names
<1>4. \A i, j, n, m, p, q :
          SystemSpan(i, n, p) = SystemSpan(j, m, q) => i = j /\ n = m /\ p = q
  BY Names
<1>5. /\ \A i, j, n : RunSpan(i) # StepSpan(j, n)
      /\ \A i, j, n, p : RunSpan(i) # SystemSpan(j, n, p)
      /\ \A i, j, n, m, p : StepSpan(i, n) # SystemSpan(j, m, p)
      /\ \A i : RunSpan(i) # NoSpan
      /\ \A i, n : StepSpan(i, n) # NoSpan
      /\ \A i, n, p : SystemSpan(i, n, p) # NoSpan
  BY <1>1, Names
<1> QED
  BY <1>2, <1>3, <1>4, <1>5

\* A span is its run's, one of its steps' or one of its pairs'.
LEMMA KindsAre ==
    ASSUME OtelInv, NEW s \in DOMAIN spans
    PROVE  /\ s.by \in Instrument /\ RunSpan(s.by) \in DOMAIN spans
           /\ Attached(s.by) \/ s.by \in detached
           /\ \/ s.kind = "run" /\ s = RunSpan(s.by)
              \/ s.kind = "step" /\ s = StepSpan(s.by, s.step) /\ s.step \in 1 .. step
              \/ /\ s.kind = "system" /\ s = SystemSpan(s.by, s.step, s.of)
                 /\ s.step \in 1 .. step /\ s.of \in Pair
                 /\ StepSpan(s.by, s.step) \in DOMAIN spans /\ body[s.step][s.of] # "none"
<1>1. FamilyOK(s)
  BY DEF OtelInv, SpansOK
<1>2. /\ s = RunSpan(s.by) => s.kind = "run"
      /\ s = StepSpan(s.by, s.step) => s.kind = "step"
      /\ s = SystemSpan(s.by, s.step, s.of) => s.kind = "system"
  BY Names
<1> QED
  BY <1>1, <1>2 DEF FamilyOK, Family

LEMMA StateIs ==
    ASSUME OtelInv
    PROVE  /\ IsState(State) /\ State.o = otel /\ State.s = spans
           /\ Range(observers) \subseteq Instrument
           /\ Watching(State) \subseteq Instrument
           /\ \A i \in Instrument : IsRunState(otel[i]) /\ otel[i].known \in BOOLEAN
           /\ \A i \in Instrument :
                 i \in Watching(State) <=> /\ Attached(i) /\ phase \in {"between", "stepping"}
                                           /\ RunSpan(i) \in DOMAIN spans
           /\ \A i \in Instrument \ Watching(State) :
                 /\ otel[i].known = FALSE /\ otel[i].step = NoSpan /\ DOMAIN otel[i].open = {}
           /\ \A i \in Watching(State) :
                 /\ otel[i].known = TRUE /\ RunSpan(i) \in DOMAIN spans
                 /\ otel[i].step = IF phase = "stepping" THEN StepSpan(i, step) ELSE NoSpan
                 /\ DOMAIN otel[i].open = Running
                 /\ \A p \in Running : otel[i].open[p] = SystemSpan(i, step, p)
           /\ NoSpan \notin DOMAIN spans
<1>1. State.o = otel /\ State.s = spans /\ State = [o |-> State.o, s |-> State.s]
  BY DEF State
<1>2. IsState(State)
  <2>1. \A d \in DOMAIN spans : spans[d] \in SpanRecord
    BY DEF OtelInv, RecordsOK
  <2> QED
    BY <1>1, <2>1 DEF IsState
<1>3. Range(observers) \subseteq Instrument
  <2>1. observers \in Seq(Instrument)
    BY DEF OtelInv, OrderOK
  <2> QED
    BY <2>1 DEF Range
<1>4. \A i \in Instrument : RunStateOK(i)
  BY DEF OtelInv, RunStatesOK
<1>5. \A i \in Instrument : i \in Watching(State) <=> otel[i].known
  BY <1>1, <1>3, <1>4 DEF Watching, RunStateOK, Attached
<1>6. Watching(State) \subseteq Instrument
  BY <1>3 DEF Watching
<1>7. \A i \in Instrument : IsRunState(otel[i]) /\ otel[i].known \in BOOLEAN
  BY <1>4 DEF RunStateOK, IsRunState
<1>8. \A i \in Instrument :
         i \in Watching(State) <=> /\ Attached(i) /\ phase \in {"between", "stepping"}
                                   /\ RunSpan(i) \in DOMAIN spans
  BY <1>4, <1>5 DEF RunStateOK
<1>9. \A i \in Instrument \ Watching(State) :
         /\ otel[i].known = FALSE /\ otel[i].step = NoSpan /\ DOMAIN otel[i].open = {}
  BY <1>4, <1>5, <1>7 DEF RunStateOK
<1>10. \A i \in Watching(State) :
         /\ otel[i].known = TRUE /\ RunSpan(i) \in DOMAIN spans
         /\ otel[i].step = IF phase = "stepping" THEN StepSpan(i, step) ELSE NoSpan
         /\ DOMAIN otel[i].open = Running
         /\ \A p \in Running : otel[i].open[p] = SystemSpan(i, step, p)
  BY <1>4, <1>5, <1>6, <1>7, <1>8 DEF RunStateOK
<1>11. NoSpan \notin DOMAIN spans
  <2> SUFFICES ASSUME NoSpan \in DOMAIN spans PROVE FALSE
    OBVIOUS
  <2> DEFINE s == NoSpan
  <2>1. \/ s = RunSpan(s.by)
        \/ s = StepSpan(s.by, s.step)
        \/ s = SystemSpan(s.by, s.step, s.of)
    BY KindsAre
  <2> QED
    BY <2>1, Distinct
<1> QED
  BY <1>1, <1>2, <1>3, <1>6, <1>7, <1>8, <1>9, <1>10, <1>11

\* The pairs that run are those of the step that goes on.
LEMMA RunningIs ==
    ASSUME OtelInv, NEW n \in 1 .. MaxSteps, NEW p \in Pair, body[n][p] = "running"
    PROVE  n = step /\ phase = "stepping" /\ p \in Running
BY DEF OtelInv, BodiesOK, Running

\* Nothing is held open between the steps, nor once every pair has settled.
LEMMA NothingHeld ==
    ASSUME OtelInv, phase = "stepping" => AllSettled
    PROVE  Running = {} /\ HeldOpen(State, Watching(State)) = {}
<1>1. Running = {}
  BY DEF Running, AllSettled
<1>2. \A i \in Watching(State) : Range(State.o[i].open) = {}
  BY <1>1, StateIs DEF Range
<1> QED
  BY <1>1, <1>2 DEF HeldOpen

-----------------------------------------------------------------------------
(***************************************************************************)
(* Steps that start no span.                                               *)
(***************************************************************************)
LEMMA BecomesIs ==
    ASSUME NEW new, IsState(new), Becomes(new)
    PROVE  State' = new /\ State'.o = otel' /\ State'.s = spans'
<1>1. new = [o |-> new.o, s |-> new.s]
  BY DEF IsState
<1>2. State' = [o |-> otel', s |-> spans']
  BY DEF State
<1> QED
  BY <1>1, <1>2 DEF Becomes

\* The spans of the run stay, under the parents they have.
LEMMA CloseKeeps ==
    ASSUME OtelInv, NEW fin, Closes(State, State', fin), step' = step,
           \A n \in 1 .. MaxSteps, p \in Pair : body'[n][p] = "none" <=> body[n][p] = "none",
           \A i \in Instrument : Attached(i) \/ i \in detached => Attached(i)' \/ i \in detached',
           phase' = "idle" => phase = "idle", phase' = "stepping" => phase = "stepping",
           Range(observers)' \subseteq Range(observers)
    PROVE  SpansOK' /\ PairsTold' /\ RecordsOK' /\ SpansFormTheRun'
<1>1. State'.s = spans' /\ State.s = spans
  BY DEF State
<1>2. IsState(State') /\ DOMAIN spans' = DOMAIN spans
  BY <1>1 DEF Closes
<1>3. \A d \in DOMAIN spans : spans'[d].parent = spans[d].parent
  BY <1>1 DEF Closes
<1>4. RecordsOK'
  BY <1>1, <1>2 DEF RecordsOK, IsState
<1>5. SpansFormTheRun'
  BY <1>2, <1>3 DEF OtelInv, SpansFormTheRun
<1>6. PairsTold'
  BY <1>2 DEF OtelInv, PairsTold
<1>7. \A s \in DOMAIN spans : FamilyOK(s)'
  <2> SUFFICES ASSUME NEW s \in DOMAIN spans PROVE FamilyOK(s)'
    OBVIOUS
  <2>1. FamilyOK(s)
    BY DEF OtelInv, SpansOK
  <2>2. Family(s)'
    <3>1. step \in 0 .. MaxSteps /\ MaxSteps \in Nat
      BY PairsAreFinite DEF OtelInv, LoopTypes
    <3>2. Family(s)
      BY <2>1 DEF FamilyOK
    <3>3. s.step \in 1 .. step => s.step \in 1 .. MaxSteps
      BY <3>1
    <3> QED
      BY <1>2, <3>2, <3>3 DEF Family
  <2>3. Attached(s.by)' \/ s.by \in detached'
    BY <2>1 DEF FamilyOK
  <2> QED
    BY <1>2, <2>1, <2>2, <2>3 DEF FamilyOK
<1>8. SpansOK'
  <2>1. phase' = "idle" => DOMAIN spans' = {}
    BY <1>2 DEF OtelInv, SpansOK
  <2>2. phase' = "stepping" =>
           \A i \in Range(observers)' : RunSpan(i) \in DOMAIN spans' => StepSpan(i, step') \in DOMAIN spans'
    BY <1>2 DEF OtelInv, SpansOK
  <2> QED
    BY <1>2, <1>7, <2>1, <2>2 DEF SpansOK
<1> QED
  BY <1>4, <1>5, <1>6, <1>8

\* When a span of each kind has ended.
LEMMA LivesAre ==
    ASSUME OtelInv,
           \A i \in Instrument : RunSpan(i) \in DOMAIN spans =>
              spans'[RunSpan(i)].ends = IF Attached(i)' /\ phase' # "over" THEN 0 ELSE 1,
           \A i \in Instrument, n \in 1 .. step : StepSpan(i, n) \in DOMAIN spans =>
              spans'[StepSpan(i, n)].ends =
                 IF Attached(i)' /\ phase' = "stepping" /\ n = step' THEN 0 ELSE 1,
           \A i \in Instrument, n \in 1 .. step, p \in Pair : SystemSpan(i, n, p) \in DOMAIN spans =>
              PairLife(SystemSpan(i, n, p), body[n][p])'
    PROVE  \A s \in DOMAIN spans : LifeOK(s)'
<1> SUFFICES ASSUME NEW s \in DOMAIN spans PROVE LifeOK(s)'
  OBVIOUS
<1>1. s.by \in Instrument
  BY KindsAre
<1>2. CASE s.kind = "run" /\ s = RunSpan(s.by)
  BY <1>1, <1>2 DEF LifeOK
<1>3. CASE s.kind = "step" /\ s = StepSpan(s.by, s.step) /\ s.step \in 1 .. step
  BY <1>1, <1>3 DEF LifeOK
<1>4. CASE s.kind = "system" /\ s = SystemSpan(s.by, s.step, s.of) /\ s.step \in 1 .. step /\ s.of \in Pair
  <2>1. PairLife(s, body[s.step][s.of])'
    BY <1>1, <1>4
  <2> QED
    BY <1>4, <2>1 DEF LifeOK
<1> QED
  BY <1>2, <1>3, <1>4, KindsAre

\* And when each had, before the step.
LEMMA LivesWere ==
    ASSUME OtelInv
    PROVE  /\ \A i \in Instrument : RunSpan(i) \in DOMAIN spans =>
                 spans[RunSpan(i)].ends = IF Attached(i) /\ phase # "over" THEN 0 ELSE 1
           /\ \A i \in Instrument, n \in 1 .. step : StepSpan(i, n) \in DOMAIN spans =>
                 spans[StepSpan(i, n)].ends =
                    IF Attached(i) /\ phase = "stepping" /\ n = step THEN 0 ELSE 1
           /\ \A i \in Instrument, n \in 1 .. step, p \in Pair : SystemSpan(i, n, p) \in DOMAIN spans =>
                 PairLife(SystemSpan(i, n, p), body[n][p])
<1>1. \A s \in DOMAIN spans : LifeOK(s)
  BY DEF OtelInv, LivesOK
<1>2. \A i : RunSpan(i) \in DOMAIN spans =>
                 spans[RunSpan(i)].ends = IF Attached(i) /\ phase # "over" THEN 0 ELSE 1
  <2> SUFFICES ASSUME NEW i, RunSpan(i) \in DOMAIN spans
               PROVE  spans[RunSpan(i)].ends = IF Attached(i) /\ phase # "over" THEN 0 ELSE 1
    OBVIOUS
  <2>1. LifeOK(RunSpan(i))
    BY <1>1
  <2> QED
    BY <2>1, Names DEF LifeOK
<1>3. \A i, n : StepSpan(i, n) \in DOMAIN spans =>
                 spans[StepSpan(i, n)].ends =
                    IF Attached(i) /\ phase = "stepping" /\ n = step THEN 0 ELSE 1
  <2> SUFFICES ASSUME NEW i, NEW n, StepSpan(i, n) \in DOMAIN spans
               PROVE  spans[StepSpan(i, n)].ends =
                    IF Attached(i) /\ phase = "stepping" /\ n = step THEN 0 ELSE 1
    OBVIOUS
  <2>1. LifeOK(StepSpan(i, n))
    BY <1>1
  <2> QED
    BY <2>1, Names DEF LifeOK
<1>4. \A i, n, p : SystemSpan(i, n, p) \in DOMAIN spans => PairLife(SystemSpan(i, n, p), body[n][p])
  <2> SUFFICES ASSUME NEW i, NEW n, NEW p, SystemSpan(i, n, p) \in DOMAIN spans
               PROVE  PairLife(SystemSpan(i, n, p), body[n][p])
    OBVIOUS
  <2>1. LifeOK(SystemSpan(i, n, p))
    BY <1>1
  <2> QED
    BY <2>1, Names DEF LifeOK
<1> QED
  BY <1>2, <1>3, <1>4

\* A pair of which nothing changed, while its watcher stays.
LEMMA PairKept ==
    ASSUME NEW i, NEW n, NEW p, PairLife(SystemSpan(i, n, p), body[n][p]),
           body'[n][p] = body[n][p], Attached(i)' <=> Attached(i),
           spans'[SystemSpan(i, n, p)].ends = spans[SystemSpan(i, n, p)].ends,
           spans'[SystemSpan(i, n, p)].error = spans[SystemSpan(i, n, p)].error
    PROVE  PairLife(SystemSpan(i, n, p), body[n][p])'
<1> DEFINE s == SystemSpan(i, n, p)
<1>1. s.by = i
  BY Names
<1> HIDE DEF s
<1> QED
  BY <1>1 DEF PairLife, s

\* What became of one pair of the run is told.
Moves(n, p, x) == body' = [body EXCEPT ![n][p] = x] /\ UNCHANGED <<phase, step>>

LEMMA PairMoves ==
    ASSUME OtelInv, NEW n \in 1 .. MaxSteps, NEW p \in Pair,
           NEW x \in Outcome \ {"none", "running"}, body[n][p] \in {"running", "late"},
           Moves(n, p, x)
    PROVE  /\ LoopTypes' /\ BodiesOK'
           /\ body'[n][p] = x
           /\ \A m \in 1 .. MaxSteps, q \in Pair : m # n \/ q # p => body'[m][q] = body[m][q]
           /\ \A m \in 1 .. MaxSteps, q \in Pair : body'[m][q] = "none" <=> body[m][q] = "none"
           /\ body[n][p] = "running" => Running' = Running \ {p}
           /\ body[n][p] = "late" => Running' = Running
<1>1. body \in [1 .. MaxSteps -> [Pair -> Outcome]] /\ LoopTypes
  BY DEF OtelInv, LoopTypes
<1>0. body' = [body EXCEPT ![n][p] = x] /\ UNCHANGED <<phase, step>>
  BY DEF Moves
<1>2. body' \in [1 .. MaxSteps -> [Pair -> Outcome]]
  BY <1>0, <1>1
<1>3. body'[n][p] = x
  BY <1>0, <1>1
<1>4. \A m \in 1 .. MaxSteps, q \in Pair : m # n \/ q # p => body'[m][q] = body[m][q]
  BY <1>0, <1>1
<1>5. \A m \in 1 .. MaxSteps, q \in Pair : body'[m][q] = "none" <=> body[m][q] = "none"
  BY <1>3, <1>4
<1>6. LoopTypes'
  BY <1>0, <1>1, <1>2 DEF LoopTypes
<1>7. BodiesOK'
  <2>1. BodiesOK
    BY DEF OtelInv
  <2>2. \A m \in 1 .. MaxSteps, q \in Pair : body'[m][q] = "running" => body[m][q] = "running"
    BY <1>3, <1>4
  <2> QED
    BY <1>0, <1>5, <2>1, <2>2 DEF BodiesOK
<1>8. phase = "stepping" => step \in 1 .. MaxSteps
  BY DEF OtelInv, BodiesOK
<1>9. ASSUME body[n][p] = "running" PROVE Running' = Running \ {p}
  <2>1. n = step /\ phase = "stepping"
    BY <1>9, RunningIs
  <2> QED
    BY <1>0, <1>3, <1>4, <2>1 DEF Running
<1>10. ASSUME body[n][p] = "late" PROVE Running' = Running
  <2>1. \A m \in 1 .. MaxSteps, q \in Pair : body'[m][q] = "running" <=> body[m][q] = "running"
    BY <1>3, <1>4, <1>10
  <2> QED
    BY <1>0, <1>8, <2>1 DEF Running
<1> QED
  BY <1>3, <1>4, <1>5, <1>6, <1>7, <1>9, <1>10

\* Nothing of a RunState changes.
LEMMA StatesKept ==
    ASSUME OtelInv, \A i \in Instrument : otel'[i] = otel[i], Running' = Running,
           UNCHANGED <<phase, step, observers>>, DOMAIN spans' = DOMAIN spans
    PROVE  RunStatesOK'
<1> SUFFICES ASSUME NEW i \in Instrument PROVE RunStateOK(i)'
  BY DEF RunStatesOK
<1>1. RunStateOK(i)
  BY DEF OtelInv, RunStatesOK
<1> QED
  BY <1>1 DEF RunStateOK, Attached

\* The report of a pair: every RunState forgets it.
LEMMA StatesReported ==
    ASSUME OtelInv, NEW st, st.o = otel, NEW p \in Pair, Forgot(st, State', Watching(State), {p}),
           Running' = Running \ {p},
           UNCHANGED <<phase, step, observers>>, DOMAIN spans' = DOMAIN spans
    PROVE  RunStatesOK'
<1> SUFFICES ASSUME NEW i \in Instrument PROVE RunStateOK(i)'
  BY DEF RunStatesOK
<1>1. RunStateOK(i)
  BY DEF OtelInv, RunStatesOK
<1>2. State'.o = otel'
  BY DEF State
<1>3. CASE i \in Watching(State)
  <2>1. /\ IsRunState(otel'[i]) /\ otel'[i].known = otel[i].known
        /\ otel'[i].step = otel[i].step
        /\ DOMAIN otel'[i].open = DOMAIN otel[i].open \ {p}
        /\ \A q \in DOMAIN otel'[i].open : otel'[i].open[q] = otel[i].open[q]
    BY <1>2, <1>3 DEF Forgot
  <2>2. otel[i].known = TRUE /\ DOMAIN otel[i].open = Running
    BY <1>3, StateIs
  <2> QED
    BY <1>1, <2>1, <2>2 DEF RunStateOK, IsRunState, Attached
<1>4. CASE i \notin Watching(State)
  <2>1. otel'[i] = otel[i]
    BY <1>2, <1>4 DEF Forgot
  <2>2. otel[i].known = FALSE /\ DOMAIN otel[i].open = {}
    BY <1>4, StateIs
  <2> QED
    BY <1>1, <2>1, <2>2 DEF RunStateOK, Attached
<1> QED
  BY <1>3, <1>4

LEMMA TimeoutKeeps ==
    ASSUME OtelInv, NEW n \in 1 .. MaxSteps, NEW p \in Pair, Timeout(n, p)
    PROVE  /\ LoopTypes' /\ BodiesOK' /\ RunStatesOK' /\ SpansOK' /\ PairsTold'
           /\ RecordsOK' /\ SpansFormTheRun' /\ LivesOK'
<1> DEFINE new == OnSystemError(State, n, {p})
<1>1. body[n][p] = "running" /\ body' = [body EXCEPT ![n][p] = "late"] /\ Becomes(new)
      /\ UNCHANGED <<phase, step, observers, detached>>
  BY DEF Timeout
<1> HIDE DEF new
<1>2. n = step /\ phase = "stepping" /\ p \in Running
  BY <1>1, RunningIs
<1>3. \A i \in Watching(State) : /\ IsRunState(State.o[i]) /\ State.o[i].step = StepSpan(i, n)
                                 /\ p \in DOMAIN State.o[i].open
  BY <1>2, StateIs
<1>4. Same(State, new) /\ Forgot(State, new, Watching(State), {p})
  BY <1>3, StateIs, ReportIs DEF new
<1>5. State' = new /\ State'.o = otel' /\ State'.s = spans' /\ State.s = spans /\ State.o = otel
  BY <1>1, <1>4, BecomesIs DEF Same, State
<1>6. Closes(State, State', {}) /\ DOMAIN spans' = DOMAIN spans
      /\ \A d \in DOMAIN spans : spans'[d] = spans[d]
  BY <1>4, <1>5 DEF Closes, Same
<1>7. /\ "late" \in Outcome \ {"none", "running"} /\ body[n][p] \in {"running", "late"}
      /\ Moves(n, p, "late")
  BY <1>1 DEF Outcome, Moves
<1>8. /\ LoopTypes' /\ BodiesOK' /\ body'[n][p] = "late"
      /\ \A m \in 1 .. MaxSteps, q \in Pair : m # n \/ q # p => body'[m][q] = body[m][q]
      /\ \A m \in 1 .. MaxSteps, q \in Pair : body'[m][q] = "none" <=> body[m][q] = "none"
      /\ Running' = Running \ {p}
  BY <1>1, <1>7, PairMoves
<1>9. \A i : Attached(i)' <=> Attached(i)
  BY <1>1 DEF Attached
<1>10. SpansOK' /\ PairsTold' /\ RecordsOK' /\ SpansFormTheRun'
  BY <1>1, <1>6, <1>8, <1>9, CloseKeeps
<1>11. RunStatesOK'
  BY <1>1, <1>4, <1>5, <1>6, <1>8, StatesReported
<1>12. LivesOK'
  <2>0. step \in 0 .. MaxSteps /\ MaxSteps \in Nat
    BY PairsAreFinite DEF OtelInv, LoopTypes
  <2>1. \A i \in Instrument, m \in 1 .. step, q \in Pair : SystemSpan(i, m, q) \in DOMAIN spans =>
              PairLife(SystemSpan(i, m, q), body[m][q])'
    <3> SUFFICES ASSUME NEW i \in Instrument, NEW m \in 1 .. step, NEW q \in Pair,
                        SystemSpan(i, m, q) \in DOMAIN spans
                 PROVE  PairLife(SystemSpan(i, m, q), body[m][q])'
      OBVIOUS
    <3>1. PairLife(SystemSpan(i, m, q), body[m][q])
      BY LivesWere
    <3>2. m \in 1 .. MaxSteps
      BY <2>0
    <3>3. CASE m # n \/ q # p
      BY <1>6, <1>8, <1>9, <3>1, <3>2, <3>3, PairKept
    <3>4. CASE m = n /\ q = p
      <4> DEFINE s == SystemSpan(i, m, q)
      <4>1. spans'[s] = spans[s] /\ body[m][q] = "running" /\ body'[m][q] = "late"
        BY <1>1, <1>6, <1>8, <3>4
      <4>2. Attached(s.by)' <=> Attached(s.by)
        BY <1>9
      <4>3. PairLife(s, body[m][q])
        BY <3>1
      <4> HIDE DEF s
      <4>4. PairLife(s, body[m][q])'
        BY <4>1, <4>2, <4>3 DEF PairLife
      <4> QED
        BY <4>4 DEF s
    <3> QED
      BY <3>3, <3>4
  <2>2. \A s \in DOMAIN spans : LifeOK(s)'
    BY <1>1, <1>6, <1>9, <2>1, LivesWere, LivesAre
  <2> QED
    BY <1>6, <2>2 DEF LivesOK
<1> QED
  BY <1>8, <1>10, <1>11, <1>12

LEMMA Negated == \A b \in BOOLEAN : (~b) \in BOOLEAN
<1> SUFFICES ASSUME NEW b \in BOOLEAN PROVE (~b) \in BOOLEAN
  OBVIOUS
<1>1. CASE b
  <2>1. (~b) = FALSE
    BY <1>1, Zenon
  <2> QED
    BY <2>1, Zenon
<1>2. CASE ~b
  <2>1. (~b) = TRUE
    BY <1>2, Zenon
  <2> QED
    BY <2>1, Zenon
<1> QED
  BY <1>1, <1>2, Zenon

\* A span that ends tells how its pair's body ended.
LEMMA PairSettles ==
    ASSUME NEW s, NEW ok \in BOOLEAN, spans[s].ends \in Nat, spans[s].error \in BOOLEAN,
           NEW b \in {"running", "late"}, PairLife(s, b), Attached(s.by)' <=> Attached(s.by),
           spans'[s] = EndedSpan(spans[s], ~ok),
           NEW x, x = IF b = "running" THEN IF ok THEN "ok" ELSE "failed"
                      ELSE IF ok THEN "lateOk" ELSE "lateFailed"
    PROVE  PairLife(s, x)'
<1> DEFINE mark == IF ~ok /\ spans[s].ends = 0 THEN TRUE ELSE spans[s].error
<1>1. spans'[s].ends = spans[s].ends + 1 /\ spans'[s].error = mark
  BY DEF EndedSpan
<1>2. x \notin {"running", "late"}
  OBVIOUS
<1>3. x \in {"failed", "lateFailed"} <=> ~ok
  OBVIOUS
<1>4. x # "guard"
  OBVIOUS
<1>5. ASSUME Attached(s.by)' PROVE spans'[s].ends = 1 /\ (spans'[s].error <=> ~ok)
  <2>1. spans[s].ends = 0 /\ ~spans[s].error
    BY <1>5 DEF PairLife
  <2>2. mark <=> ~ok
    BY <2>1
  <2> HIDE DEF mark
  <2>3. spans'[s].ends = 1
    BY <1>1, <2>1
  <2>4. spans'[s].error <=> ~ok
    BY <1>1, <2>2
  <2> QED
    BY <2>3, <2>4
<1>6. ASSUME ~Attached(s.by)' PROVE spans'[s].ends \in {1, 2}
  <2>1. spans[s].ends \in {0, 1}
    BY <1>6 DEF PairLife
  <2> QED
    BY <1>1, <2>1
<1> HIDE DEF mark
<1> QED
  BY <1>2, <1>3, <1>4, <1>5, <1>6 DEF PairLife

LEMMA SettleBodyKeeps ==
    ASSUME OtelInv, NEW n \in 1 .. MaxSteps, NEW p \in Pair, NEW ok \in BOOLEAN,
           SettleBody(n, p, ok)
    PROVE  /\ LoopTypes' /\ BodiesOK' /\ RunStatesOK' /\ SpansOK' /\ PairsTold'
           /\ RecordsOK' /\ SpansFormTheRun' /\ LivesOK'
<1> DEFINE st == Unwrapped(State, n, p, ~ok)
           ids == {SystemSpan(i, n, p) : i \in Instrument}
           x == IF body[n][p] = "running" THEN IF ok THEN "ok" ELSE "failed"
                ELSE IF ok THEN "lateOk" ELSE "lateFailed"
           new == IF body[n][p] = "running"
                  THEN IF ok THEN OnSystemEnd(st, {p}) ELSE OnSystemError(st, n, {p})
                  ELSE st
<1>1. body[n][p] \in {"running", "late"} /\ Moves(n, p, x) /\ Becomes(new)
      /\ UNCHANGED <<phase, step, observers, detached>>
  BY DEF SettleBody, Moves
<1>2. /\ IsState(st) /\ st.o = otel /\ DOMAIN st.s = DOMAIN spans
      /\ \A d \in DOMAIN spans \ ids : st.s[d] = spans[d]
      /\ \A d \in DOMAIN spans \cap ids : st.s[d] = EndedSpan(spans[d], ~ok)
  <2> DEFINE failed == ~ok
  <2>1. failed \in BOOLEAN
    BY Negated
  <2>2. st = Ended(State, ids, failed)
    BY DEF Unwrapped
  <2> HIDE DEF st, ids, failed
  <2>3. /\ IsState(st) /\ st.o = State.o /\ DOMAIN st.s = DOMAIN State.s
        /\ \A d \in DOMAIN State.s \ ids : st.s[d] = State.s[d]
        /\ \A d \in DOMAIN State.s \cap ids : st.s[d] = EndedSpan(State.s[d], failed)
    BY <2>1, <2>2, StateIs, EndedIs
  <2> QED
    BY <2>3, StateIs DEF failed
<1>30. PICK y : y = x
  OBVIOUS
<1>3. y \in Outcome \ {"none", "running"}
  BY <1>30 DEF Outcome
<1>31. Moves(n, p, y)
  BY <1>1, <1>30
<1> HIDE DEF st, ids, x
<1>4. Watching(st) = Watching(State)
  BY <1>2, StateIs DEF Watching
<1>5. ASSUME body[n][p] = "running"
      PROVE  Same(st, new) /\ Forgot(st, new, Watching(State), {p})
  <2>1. n = step /\ phase = "stepping" /\ p \in Running
    BY <1>5, RunningIs
  <2>2. \A i \in Watching(st) : /\ IsRunState(st.o[i]) /\ st.o[i].step = StepSpan(i, n)
                                /\ p \in DOMAIN st.o[i].open
    BY <1>2, <1>4, <2>1, StateIs
  <2> QED
    BY <1>2, <1>4, <1>5, <2>2, StateIs, ReportIs
<1>6. body[n][p] = "late" => new = st
  OBVIOUS
<1> HIDE DEF new
<1>7. Same(st, new)
  BY <1>1, <1>2, <1>5, <1>6 DEF Same
<1>8. State' = new /\ State'.o = otel' /\ State'.s = spans' /\ State.s = spans /\ State.o = otel
  BY <1>1, <1>7, BecomesIs DEF Same, State
<1>9. DOMAIN spans' = DOMAIN spans
      /\ (\A d \in DOMAIN spans \ ids : spans'[d] = spans[d])
      /\ (\A d \in DOMAIN spans \cap ids : spans'[d] = EndedSpan(spans[d], ~ok))
      /\ IsState(State')
  BY <1>2, <1>7, <1>8 DEF Same
<1>10. Closes(State, State', ids)
  <2>1. \A r : EndedSpan(r, ~ok).parent = r.parent /\ EndedSpan(r, ~ok).ends = r.ends + 1
    BY DEF EndedSpan
  <2>2. \A d \in DOMAIN spans :
          /\ spans'[d].parent = spans[d].parent
          /\ spans'[d].ends = IF d \in ids THEN spans[d].ends + 1 ELSE spans[d].ends
          /\ d \notin ids => spans'[d].error = spans[d].error
    BY <1>9, <2>1
  <2> QED
    BY <1>8, <1>9, <2>2 DEF Closes
<1>11. /\ LoopTypes' /\ BodiesOK' /\ body'[n][p] = y
       /\ \A m \in 1 .. MaxSteps, q \in Pair : m # n \/ q # p => body'[m][q] = body[m][q]
       /\ \A m \in 1 .. MaxSteps, q \in Pair : body'[m][q] = "none" <=> body[m][q] = "none"
       /\ body[n][p] = "running" => Running' = Running \ {p}
       /\ body[n][p] = "late" => Running' = Running
  BY <1>1, <1>3, <1>31, PairMoves
<1>12. \A i : Attached(i)' <=> Attached(i)
  BY <1>1 DEF Attached
<1>13. SpansOK' /\ PairsTold' /\ RecordsOK' /\ SpansFormTheRun'
  BY <1>1, <1>10, <1>11, <1>12, CloseKeeps
<1>14. RunStatesOK'
  <2>1. CASE body[n][p] = "running"
    BY <1>1, <1>2, <1>5, <1>8, <1>9, <1>11, <2>1, StatesReported
  <2>2. CASE body[n][p] = "late"
    <3>1. \A i \in Instrument : otel'[i] = otel[i]
      BY <1>2, <1>6, <1>8, <2>2
    <3> QED
      BY <1>1, <1>9, <1>11, <2>2, <3>1, StatesKept
  <2> QED
    BY <1>1, <2>1, <2>2
<1>15. LivesOK'
  <2>0. step \in 0 .. MaxSteps /\ MaxSteps \in Nat
    BY PairsAreFinite DEF OtelInv, LoopTypes
  <2>1. \A i \in Instrument, m \in 1 .. step, q \in Pair : SystemSpan(i, m, q) \in DOMAIN spans =>
              PairLife(SystemSpan(i, m, q), body[m][q])'
    <3> SUFFICES ASSUME NEW i \in Instrument, NEW m \in 1 .. step, NEW q \in Pair,
                        SystemSpan(i, m, q) \in DOMAIN spans
                 PROVE  PairLife(SystemSpan(i, m, q), body[m][q])'
      OBVIOUS
    <3>1. PairLife(SystemSpan(i, m, q), body[m][q])
      BY LivesWere
    <3>2. m \in 1 .. MaxSteps
      BY <2>0
    <3>3. CASE m # n \/ q # p
      <4>1. SystemSpan(i, m, q) \notin ids
        BY <3>3, Distinct DEF ids
      <4> QED
        BY <1>9, <1>11, <1>12, <3>1, <3>2, <3>3, <4>1, PairKept
    <3>4. CASE m = n /\ q = p
      <4> DEFINE s == SystemSpan(i, m, q)
      <4>1. s \in ids
        BY <3>4 DEF ids
      <4>2. Attached(s.by)' <=> Attached(s.by)
        BY <1>12
      <4>3. PairLife(s, body[n][p]) /\ s \in DOMAIN spans
        BY <3>1, <3>4
      <4> HIDE DEF s
      <4>4. spans'[s] = EndedSpan(spans[s], ~ok)
        BY <1>9, <4>1, <4>3
      <4>5. spans[s].ends \in Nat /\ spans[s].error \in BOOLEAN
        BY <4>3 DEF OtelInv, RecordsOK, SpanRecord
      <4>6. PairLife(s, y)'
        BY <1>1, <4>2, <4>3, <4>4, <4>5, <1>30, PairSettles DEF x
      <4> QED
        BY <1>11, <3>4, <4>6 DEF s
    <3> QED
      BY <3>3, <3>4
  <2>2. \A i, m : RunSpan(i) \notin ids /\ StepSpan(i, m) \notin ids
    BY Distinct DEF ids
  <2>3. \A s \in DOMAIN spans : LifeOK(s)'
    BY <1>1, <1>9, <1>12, <2>1, <2>2, LivesWere, LivesAre
  <2> QED
    BY <1>9, <2>3 DEF LivesOK
<1> QED
  BY <1>11, <1>13, <1>14, <1>15

-----------------------------------------------------------------------------
\* Steps and runs end.
LEMMA OnAppliedIs ==
    ASSUME NEW st, IsState(st), Range(observers) \subseteq Instrument,
           \A i \in Watching(st) : IsRunState(st.o[i])
    PROVE  LET new == OnApplied(st) IN
           /\ Closes(st, new, StepSpans(st, Watching(st)))
           /\ \A i \in Watching(st) :
                 new.o[i] = [known |-> st.o[i].known, step |-> NoSpan, open |-> st.o[i].open]
           /\ \A i \in Instrument \ Watching(st) : new.o[i] = st.o[i]
<1> DEFINE I == Watching(st)
           st1 == Ended(st, StepSpans(st, I), FALSE)
           states == [i \in I |-> [st.o[i] EXCEPT !.step = NoSpan]]
           new == Remembered(st1, states)
<1>0. I \subseteq Instrument /\ I = Watching(st) /\ \A i \in I : IsRunState(st.o[i])
  BY DEF Watching
<1>1. OnApplied(st) = new
  BY DEF OnApplied
<1>2. DOMAIN states = I /\ \A i \in I : states[i] = [st.o[i] EXCEPT !.step = NoSpan]
  OBVIOUS
<1> HIDE DEF I, st1, states, new
<1>3. Closes(st, st1, StepSpans(st, I)) /\ st1.o = st.o
  BY EndedCloses DEF st1
<1>4. IsState(st1)
  BY <1>3 DEF Closes
<1>5. /\ IsState(new) /\ new.s = st1.s
      /\ \A i \in I : new.o[i] = states[i]
      /\ \A i \in Instrument \ I : new.o[i] = st1.o[i]
  BY <1>0, <1>2, <1>4, RememberedIs DEF new
<1>6. Closes(st, new, StepSpans(st, I))
  BY <1>3, <1>5 DEF Closes
<1>7. \A i \in I : new.o[i] = [known |-> st.o[i].known, step |-> NoSpan, open |-> st.o[i].open]
  BY <1>0, <1>2, <1>5, StepSet
<1>8. \A i \in Instrument \ I : new.o[i] = st.o[i]
  BY <1>3, <1>5
<1> QED
  BY <1>0, <1>1, <1>6, <1>7, <1>8

\* The spans that stand for the step which goes on.
LEMMA StepSpansAre ==
    ASSUME OtelInv, NEW I \in SUBSET Watching(State)
    PROVE  /\ phase = "stepping" => StepSpans(State, I) = {StepSpan(i, step) : i \in I}
           /\ phase # "stepping" => StepSpans(State, I) \subseteq {NoSpan}
<1>1. StepSpans(State, I) = {otel[i].step : i \in I}
  BY StateIs DEF StepSpans
<1>2. ASSUME phase = "stepping" PROVE \A i \in I : otel[i].step = StepSpan(i, step)
  BY <1>2, StateIs
<1>3. ASSUME phase # "stepping" PROVE \A i \in I : otel[i].step = NoSpan
  BY <1>3, StateIs
<1>4. ASSUME phase = "stepping" PROVE {otel[i].step : i \in I} = {StepSpan(i, step) : i \in I}
  BY <1>2, <1>4
<1>5. ASSUME phase # "stepping" PROVE {otel[i].step : i \in I} \subseteq {NoSpan}
  BY <1>3, <1>5
<1> QED
  BY <1>1, <1>4, <1>5

\* Nothing changes of a pair whose span is not among those that end.
LEMMA PairsKept ==
    ASSUME OtelInv, NEW fin, Closes(State, State', fin), UNCHANGED body,
           NEW i \in Instrument, NEW n \in 1 .. step, NEW p \in Pair,
           SystemSpan(i, n, p) \in DOMAIN spans, SystemSpan(i, n, p) \notin fin,
           Attached(i)' <=> Attached(i)
    PROVE  PairLife(SystemSpan(i, n, p), body[n][p])'
<1>1. State.s = spans /\ State'.s = spans'
  BY DEF State
<1>2. PairLife(SystemSpan(i, n, p), body[n][p])
  BY LivesWere
<1>3. /\ spans'[SystemSpan(i, n, p)].ends = spans[SystemSpan(i, n, p)].ends
      /\ spans'[SystemSpan(i, n, p)].error = spans[SystemSpan(i, n, p)].error
  BY <1>1 DEF Closes
<1> QED
  BY <1>2, <1>3, PairKept

\* The spans and bodies of a step that neither starts a step nor lets one go.
LEMMA LoopKept ==
    ASSUME OtelInv, UNCHANGED <<step, body>>, phase' \in {"idle", "between", "stepping", "over"},
           \A p \in Pair : phase = "stepping" /\ phase' # "stepping" => body[step][p] # "running",
           phase' = "idle" => phase = "idle", phase' = "stepping" => phase = "stepping"
    PROVE  LoopTypes' /\ BodiesOK'
<1>1. LoopTypes'
  BY DEF OtelInv, LoopTypes
<1>2. BodiesOK'
  BY DEF OtelInv, BodiesOK
<1> QED
  BY <1>1, <1>2

LEMMA ApplyStepKeeps ==
    ASSUME OtelInv, ApplyStep
    PROVE  /\ LoopTypes' /\ BodiesOK' /\ RunStatesOK' /\ SpansOK' /\ PairsTold'
           /\ RecordsOK' /\ SpansFormTheRun' /\ LivesOK'
<1> DEFINE new == OnApplied(State)
           W == Watching(State)
           fin == {StepSpan(i, step) : i \in W}
<1>1. /\ phase = "stepping" /\ AllSettled /\ phase' = "between" /\ Becomes(new)
      /\ UNCHANGED <<step, body, observers, detached>>
  BY DEF ApplyStep
<1>2. /\ Closes(State, new, fin)
      /\ \A i \in W : new.o[i] = [known |-> otel[i].known, step |-> NoSpan, open |-> otel[i].open]
      /\ \A i \in Instrument \ W : new.o[i] = otel[i]
  <2>1. /\ Closes(State, new, StepSpans(State, W))
        /\ \A i \in W : new.o[i] = [known |-> State.o[i].known, step |-> NoSpan, open |-> State.o[i].open]
        /\ \A i \in Instrument \ W : new.o[i] = State.o[i]
    BY StateIs, OnAppliedIs
  <2>2. StepSpans(State, W) = fin
    BY <1>1, StepSpansAre
  <2> HIDE DEF new, fin, W
  <2> QED
    BY <2>1, <2>2, StateIs
<1>3. \A i, m : StepSpan(i, m) \in fin <=> i \in W /\ m = step
  BY Distinct
<1>4. \A i, m, q : RunSpan(i) \notin fin /\ SystemSpan(i, m, q) \notin fin
  BY Distinct
<1>5. W = Watching(State)
  OBVIOUS
<1> HIDE DEF new, fin, W
<1>6. State' = new /\ State'.o = otel' /\ State'.s = spans' /\ State.s = spans /\ State.o = otel
  BY <1>1, <1>2, BecomesIs DEF Closes, State
<1>7. Closes(State, State', fin) /\ DOMAIN spans' = DOMAIN spans
      /\ \A d \in DOMAIN spans :
            spans'[d].ends = IF d \in fin THEN spans[d].ends + 1 ELSE spans[d].ends
  BY <1>2, <1>6 DEF Closes
<1>8. LoopTypes' /\ BodiesOK'
  BY <1>1, LoopKept DEF AllSettled
<1>9. \A i : Attached(i)' <=> Attached(i)
  BY <1>1 DEF Attached
<1>10. SpansOK' /\ PairsTold' /\ RecordsOK' /\ SpansFormTheRun'
  BY <1>1, <1>7, <1>9, CloseKeeps
<1>11. RunStatesOK'
  <2> SUFFICES ASSUME NEW i \in Instrument PROVE RunStateOK(i)'
    BY DEF RunStatesOK
  <2>1. Running = {} /\ Running' = {}
    BY <1>1, NothingHeld DEF Running
  <2>2. CASE i \in W
    <3>1. /\ otel[i].known = TRUE /\ RunSpan(i) \in DOMAIN spans
          /\ DOMAIN otel[i].open = {} /\ Attached(i)
      BY <1>5, <2>1, <2>2, StateIs
    <3>2. otel'[i] = [known |-> TRUE, step |-> NoSpan, open |-> otel[i].open]
      BY <1>2, <1>6, <2>2, <3>1
    <3> QED
      BY <1>1, <1>7, <1>9, <2>1, <3>1, <3>2 DEF RunStateOK
  <2>3. CASE i \notin W
    <3>1. /\ otel[i].known = FALSE /\ otel[i].step = NoSpan /\ DOMAIN otel[i].open = {}
          /\ IsRunState(otel[i]) /\ ~(Attached(i) /\ RunSpan(i) \in DOMAIN spans)
      BY <1>1, <1>5, <2>3, StateIs
    <3>2. otel'[i] = otel[i]
      BY <1>2, <1>6, <2>3
    <3> QED
      BY <1>1, <1>7, <1>9, <2>1, <3>1, <3>2 DEF RunStateOK, IsRunState
  <2> QED
    BY <2>2, <2>3
<1>12. LivesOK'
  <2>1. \A i \in Instrument, n \in 1 .. step, p \in Pair : SystemSpan(i, n, p) \in DOMAIN spans =>
           PairLife(SystemSpan(i, n, p), body[n][p])'
    BY <1>1, <1>4, <1>7, <1>9, PairsKept
  <2>2. \A i \in Instrument, n \in 1 .. step : StepSpan(i, n) \in DOMAIN spans =>
           spans'[StepSpan(i, n)].ends = 1
    <3> SUFFICES ASSUME NEW i \in Instrument, NEW n \in 1 .. step, StepSpan(i, n) \in DOMAIN spans
                 PROVE  spans'[StepSpan(i, n)].ends = 1
      OBVIOUS
    <3>1. RunSpan(i) \in DOMAIN spans
      BY KindsAre, Names
    <3>2. StepSpan(i, n) \in fin <=> Attached(i) /\ n = step
      BY <1>1, <1>3, <1>5, <3>1, StateIs
    <3> QED
      BY <1>1, <1>7, <3>2, LivesWere
  <2>3. \A i \in Instrument : RunSpan(i) \in DOMAIN spans =>
           spans'[RunSpan(i)].ends = IF Attached(i)' /\ phase' # "over" THEN 0 ELSE 1
    BY <1>1, <1>4, <1>7, <1>9, LivesWere
  <2>4. \A s \in DOMAIN spans : LifeOK(s)'
    BY <1>1, <2>1, <2>2, <2>3, LivesAre
  <2> QED
    BY <1>7, <2>4 DEF LivesOK
<1> QED
  BY <1>8, <1>10, <1>11, <1>12

LEMMA ClosesAlike ==
    ASSUME NEW st, NEW new, NEW fin, NEW others, Closes(st, new, fin),
           \A d \in DOMAIN st.s : d \in fin <=> d \in others
    PROVE  Closes(st, new, others)
BY DEF Closes

LEMMA ClosesJoin ==
    ASSUME NEW st, NEW st1, NEW new, NEW fin, Closes(st, st1, {}), Closes(st1, new, fin)
    PROVE  Closes(st, new, fin)
BY DEF Closes

\* What ends when the RunStates of I do.
Over(I) == {d \in SpanId : \E i \in I :
               \/ d = RunSpan(i)
               \/ phase = "stepping" /\ d = StepSpan(i, step)
               \/ \E p \in Running : d = SystemSpan(i, step, p)}

LEMMA OverIs ==
    ASSUME OtelInv, NEW I \in SUBSET Instrument
    PROVE  /\ \A i \in Instrument : RunSpan(i) \in Over(I) <=> i \in I
           /\ \A i \in Instrument, n \in 0 .. MaxSteps :
                 StepSpan(i, n) \in Over(I) <=> i \in I /\ phase = "stepping" /\ n = step
           /\ \A i \in Instrument, n \in 0 .. MaxSteps, p \in Pair :
                 SystemSpan(i, n, p) \in Over(I) <=> i \in I /\ n = step /\ p \in Running
<1>1. step \in 0 .. MaxSteps
  BY DEF OtelInv, LoopTypes
<1>2. \A i \in Instrument : RunSpan(i) \in Over(I) <=> i \in I
  BY NameTypes, Distinct DEF Over
<1>3. \A i \in Instrument, n \in 0 .. MaxSteps :
         StepSpan(i, n) \in Over(I) <=> i \in I /\ phase = "stepping" /\ n = step
  BY <1>1, NameTypes, Distinct DEF Over
<1>4. \A i \in Instrument, n \in 0 .. MaxSteps, p \in Pair :
         SystemSpan(i, n, p) \in Over(I) <=> i \in I /\ n = step /\ p \in Running
  BY <1>1, NameTypes, Distinct DEF Over
<1> QED
  BY <1>2, <1>3, <1>4

LEMMA RunStatesOver ==
    ASSUME OtelInv, NEW st, Closes(State, st, {}), NEW I \in SUBSET Watching(State),
           NEW error \in BOOLEAN,
           \A i \in I : st.o[i].step = otel[i].step /\ st.o[i].open = otel[i].open
    PROVE  LET new == OnRunOver(st, I, error) IN
           /\ Closes(State, new, Over(I))
           /\ \A i \in I : new.o[i] = NoRun
           /\ \A i \in Instrument \ I : new.o[i] = st.o[i]
<1> DEFINE new == OnRunOver(st, I, error)
           fin == HeldOpen(st, I) \cup StepSpans(st, I) \cup {RunSpan(i) : i \in I}
<1>1. IsState(st) /\ I \in SUBSET Instrument /\ I \subseteq Watching(State)
  BY StateIs DEF Closes
<1>2. \A i \in I : DOMAIN st.o[i].open = Running /\ \A p \in Running : st.o[i].open[p] = SystemSpan(i, step, p)
  <2> SUFFICES ASSUME NEW i \in I
               PROVE  /\ DOMAIN st.o[i].open = Running
                      /\ \A p \in Running : st.o[i].open[p] = SystemSpan(i, step, p)
    OBVIOUS
  <2>1. st.o[i].open = otel[i].open /\ i \in Watching(State)
    BY <1>1
  <2>2. DOMAIN otel[i].open = Running /\ \A p \in Running : otel[i].open[p] = SystemSpan(i, step, p)
    BY <2>1, StateIs
  <2> QED
    BY <2>1, <2>2
<1>3. \A d : d \in HeldOpen(st, I) <=>
               (\E i \in I : \E p \in Running : d = SystemSpan(i, step, p)) /\ st.s[d].ends = 0
  <2>1. \A i \in I : Range(st.o[i].open) = {SystemSpan(i, step, p) : p \in Running}
    BY <1>2 DEF Range
  <2> QED
    BY <2>1 DEF HeldOpen
<1>4. StepSpans(st, I) = StepSpans(State, I)
  <2>1. \A i \in I : st.o[i].step = State.o[i].step
    BY StateIs
  <2> QED
    BY <2>1 DEF StepSpans
<1>5. /\ phase = "stepping" => StepSpans(st, I) = {StepSpan(i, step) : i \in I}
      /\ phase # "stepping" => StepSpans(st, I) \subseteq {NoSpan}
  BY <1>4, StepSpansAre
<1>6. \A i \in I : RunSpan(i) \notin HeldOpen(st, I) /\ RunSpan(i) \notin StepSpans(st, I)
  BY <1>3, <1>5, Distinct
<1>7. Closes(st, new, fin) /\ (\A i \in I : new.o[i] = NoRun)
      /\ \A i \in Instrument \ I : new.o[i] = st.o[i]
  BY <1>1, <1>6, RunOverIs
<1>8. ASSUME NEW d \in DOMAIN spans PROVE d \in fin <=> d \in Over(I)
  <2>1. step \in 0 .. MaxSteps /\ MaxSteps \in Nat
    BY PairsAreFinite DEF OtelInv, LoopTypes
  <2>2. CASE d = RunSpan(d.by)
    <3>1. d \in fin <=> d.by \in I
      BY <1>3, <1>5, <2>2, Distinct
    <3> QED
      BY <1>1, <2>2, <3>1, OverIs, KindsAre
  <2>3. CASE d = StepSpan(d.by, d.step) /\ d.step \in 1 .. step
    <3>1. d \in fin <=> d.by \in I /\ phase = "stepping" /\ d.step = step
      BY <1>3, <1>5, <2>3, Distinct
    <3>2. d.step \in 0 .. MaxSteps
      BY <2>1, <2>3
    <3> QED
      BY <1>1, <2>3, <3>1, <3>2, OverIs, KindsAre
  <2>4. CASE d = SystemSpan(d.by, d.step, d.of) /\ d.step \in 1 .. step /\ d.of \in Pair
    <3>1. d \in fin <=> d.by \in I /\ d.step = step /\ d.of \in Running /\ st.s[d].ends = 0
      BY <1>3, <1>5, <2>4, Distinct
    <3>2. d.step \in 0 .. MaxSteps
      BY <2>1, <2>4
    <3>3. st.s[d].ends = spans[d].ends
      BY StateIs DEF Closes
    <3>4. ASSUME d.by \in I, d.step = step, d.of \in Running PROVE spans[d].ends = 0
      <4>1. Attached(d.by) /\ body[d.step][d.of] = "running"
        BY <1>1, <3>4, StateIs DEF Running
      <4>2. PairLife(SystemSpan(d.by, d.step, d.of), body[d.step][d.of])
        BY <2>4, KindsAre, LivesWere
      <4>3. PairLife(d, body[d.step][d.of])
        BY <2>4, <4>2
      <4> QED
        BY <4>1, <4>3 DEF PairLife
    <3> QED
      BY <1>1, <2>4, <3>1, <3>2, <3>3, <3>4, OverIs, KindsAre
  <2> QED
    BY <2>2, <2>3, <2>4, KindsAre
<1> HIDE DEF new, fin
<1>9. Closes(State, new, fin)
  BY <1>7, ClosesJoin
<1>10. Closes(State, new, Over(I))
  BY <1>8, <1>9, ClosesAlike, StateIs
<1> QED
  BY <1>7, <1>10 DEF new

\* A run that ends, whether it resolves or rejects.
LEMMA OverKeeps ==
    ASSUME OtelInv, NEW st, Closes(State, st, {}), NEW error \in BOOLEAN,
           \A i \in Watching(State) : st.o[i].step = otel[i].step /\ st.o[i].open = otel[i].open,
           \A i \in Instrument \ Watching(State) : st.o[i] = otel[i],
           Becomes(OnRunOver(st, Watching(State), error)),
           phase \in {"between", "stepping"}, phase = "stepping" => AllSettled,
           phase' = "over", UNCHANGED <<step, body, observers, detached>>
    PROVE  /\ LoopTypes' /\ BodiesOK' /\ RunStatesOK' /\ SpansOK' /\ PairsTold'
           /\ RecordsOK' /\ SpansFormTheRun' /\ LivesOK'
<1> DEFINE W == Watching(State)
           new == OnRunOver(st, W, error)
           fin == Over(W)
<1>1. Becomes(new) /\ W = Watching(State) /\ W \in SUBSET W /\ W \in SUBSET Instrument
  BY StateIs
<1>2. /\ Closes(State, new, fin)
      /\ \A i \in W : new.o[i] = NoRun
      /\ \A i \in Instrument \ W : new.o[i] = st.o[i]
  BY RunStatesOver
<1> HIDE DEF W, new, fin
<1>3. State' = new /\ State'.o = otel' /\ State'.s = spans' /\ State.s = spans /\ State.o = otel
  BY <1>1, <1>2, BecomesIs DEF Closes, State
<1>4. Closes(State, State', fin) /\ DOMAIN spans' = DOMAIN spans
      /\ \A d \in DOMAIN spans :
            spans'[d].ends = IF d \in fin THEN spans[d].ends + 1 ELSE spans[d].ends
  BY <1>2, <1>3 DEF Closes
<1>5. LoopTypes' /\ BodiesOK'
  BY LoopKept DEF AllSettled
<1>6. \A i : Attached(i)' <=> Attached(i)
  BY DEF Attached
<1>7. SpansOK' /\ PairsTold' /\ RecordsOK' /\ SpansFormTheRun'
  BY <1>4, <1>6, CloseKeeps
<1>8. RunStatesOK'
  <2> SUFFICES ASSUME NEW i \in Instrument PROVE RunStateOK(i)'
    BY DEF RunStatesOK
  <2>1. CASE i \in W
    <3>1. otel'[i] = NoRun
      BY <1>2, <1>3, <2>1
    <3>2. otel'[i] = [known |-> FALSE, step |-> NoSpan, open |-> NoRun.open] /\ DOMAIN NoRun.open = {}
      BY <3>1, NewKnown
    <3> QED
      BY <3>2 DEF RunStateOK
  <2>2. CASE i \notin W
    <3>1. otel'[i] = otel[i]
      BY <1>1, <1>2, <1>3, <2>2
    <3>2. otel[i].known = FALSE /\ otel[i].step = NoSpan /\ DOMAIN otel[i].open = {} /\ IsRunState(otel[i])
      BY <1>1, <2>2, StateIs
    <3> QED
      BY <3>1, <3>2 DEF RunStateOK, IsRunState
  <2> QED
    BY <2>1, <2>2
<1>9. LivesOK'
  <2>0. step \in 0 .. MaxSteps /\ MaxSteps \in Nat /\ Running = {}
    BY PairsAreFinite, NothingHeld DEF OtelInv, LoopTypes
  <2>1. \A i \in Instrument, n \in 1 .. step, p \in Pair : SystemSpan(i, n, p) \in DOMAIN spans =>
           PairLife(SystemSpan(i, n, p), body[n][p])'
    <3>1. \A i \in Instrument, n \in 1 .. step, p \in Pair : SystemSpan(i, n, p) \notin fin
      BY <1>1, <2>0, OverIs DEF fin
    <3> QED
      BY <1>4, <1>6, <3>1, PairsKept
  <2>2. \A i \in Instrument : RunSpan(i) \in DOMAIN spans => (i \in W <=> Attached(i))
    BY <1>1, StateIs
  <2>3. \A i \in Instrument : RunSpan(i) \in DOMAIN spans => spans'[RunSpan(i)].ends = 1
    <3>1. \A i \in Instrument : RunSpan(i) \in fin <=> i \in W
      BY <1>1, OverIs DEF fin
    <3> QED
      BY <1>4, <2>2, <3>1, LivesWere
  <2>4. \A i \in Instrument, n \in 1 .. step : StepSpan(i, n) \in DOMAIN spans =>
           spans'[StepSpan(i, n)].ends = 1
    <3> SUFFICES ASSUME NEW i \in Instrument, NEW n \in 1 .. step, StepSpan(i, n) \in DOMAIN spans
                 PROVE  spans'[StepSpan(i, n)].ends = 1
      OBVIOUS
    <3>1. RunSpan(i) \in DOMAIN spans
      BY KindsAre, Names
    <3>2. StepSpan(i, n) \in fin <=> i \in W /\ phase = "stepping" /\ n = step
      <4>1. n \in 0 .. MaxSteps
        BY <2>0
      <4> QED
        BY <1>1, <4>1, OverIs DEF fin
    <3> QED
      BY <1>4, <2>2, <3>1, <3>2, LivesWere
  <2>5. \A s \in DOMAIN spans : LifeOK(s)'
    BY <2>1, <2>3, <2>4, LivesAre
  <2> QED
    BY <1>4, <2>5 DEF LivesOK
<1> QED
  BY <1>5, <1>7, <1>8, <1>9

LEMMA RejectRunKeeps ==
    ASSUME OtelInv, RejectRun
    PROVE  /\ LoopTypes' /\ BodiesOK' /\ RunStatesOK' /\ SpansOK' /\ PairsTold'
           /\ RecordsOK' /\ SpansFormTheRun' /\ LivesOK'
<1>1. /\ phase \in {"between", "stepping"} /\ (phase = "stepping" => AllSettled)
      /\ phase' = "over" /\ UNCHANGED <<step, body, observers, detached>>
      /\ Becomes(OnRunOver(State, Watching(State), TRUE))
  BY DEF RejectRun
<1>2. Closes(State, State, {}) /\ State.o = otel
  BY StateIs DEF Closes
<1> QED
  BY <1>1, <1>2, OverKeeps

LEMMA EndRunKeeps ==
    ASSUME OtelInv, EndRun
    PROVE  /\ LoopTypes' /\ BodiesOK' /\ RunStatesOK' /\ SpansOK' /\ PairsTold'
           /\ RecordsOK' /\ SpansFormTheRun' /\ LivesOK'
<1>1. phase = "between" /\ phase' = "over" /\ UNCHANGED <<step, body, observers, detached>>
  BY DEF EndRun
<1>2. PICK st \in {OnApplied(State), State} : Becomes(OnRunOver(st, Watching(st), FALSE))
  BY DEF EndRun
<1> DEFINE W == Watching(State)
<1>3. \A i \in W : IsRunState(State.o[i]) /\ otel[i].step = NoSpan /\ State.o = otel /\ otel[i].known = TRUE
  BY <1>1, StateIs
<1>4. Closes(State, State, {})
  BY StateIs DEF Closes
<1>5. /\ Closes(State, st, {})
      /\ \A i \in W : st.o[i].step = otel[i].step /\ st.o[i].open = otel[i].open
                      /\ st.o[i].known = otel[i].known
      /\ \A i \in Instrument \ W : st.o[i] = otel[i]
  <2>1. CASE st = State
    BY <1>4, <2>1, StateIs
  <2>2. CASE st = OnApplied(State)
    <3>1. /\ Closes(State, st, StepSpans(State, W))
          /\ \A i \in W : st.o[i] = [known |-> State.o[i].known, step |-> NoSpan, open |-> State.o[i].open]
          /\ \A i \in Instrument \ W : st.o[i] = State.o[i]
      BY <1>3, <2>2, StateIs, OnAppliedIs
    <3>2. StepSpans(State, W) \subseteq {NoSpan}
      BY <1>1, StepSpansAre
    <3>3. \A d \in DOMAIN State.s : d \in StepSpans(State, W) <=> d \in {}
      BY <3>2, StateIs
    <3>4. Closes(State, st, {})
      BY <3>1, <3>3, ClosesAlike
    <3> HIDE DEF W
    <3>5. ASSUME NEW i \in W
          PROVE  st.o[i].step = otel[i].step /\ st.o[i].open = otel[i].open /\ st.o[i].known = otel[i].known
      <4>1. st.o[i] = [known |-> State.o[i].known, step |-> NoSpan, open |-> State.o[i].open]
        BY <3>1
      <4> QED
        BY <4>1, <1>3
    <3> QED
      BY <3>1, <3>4, <3>5, StateIs
  <2> QED
    BY <2>1, <2>2
<1>6. Watching(st) = W
  <2>1. \A i \in Range(observers) : st.o[i].known = State.o[i].known
    BY <1>5, StateIs
  <2> QED
    BY <2>1 DEF Watching
<1> QED
  BY <1>1, <1>2, <1>5, <1>6, OverKeeps

LEMMA DetachKeeps ==
    ASSUME OtelInv, NEW i \in Instrument, Detach(i), Range(observers)' = Range(observers) \ {i}
    PROVE  /\ LoopTypes' /\ BodiesOK' /\ RunStatesOK' /\ SpansOK' /\ PairsTold'
           /\ RecordsOK' /\ SpansFormTheRun' /\ LivesOK'
<1> DEFINE known == otel[i].known
           I == IF known THEN {i} ELSE {}
           new == IF known THEN OnRunOver(State, {i}, FALSE) ELSE State
           fin == Over(I)
<1>1. /\ Attached(i) /\ detached' = detached \cup {i} /\ UNCHANGED <<phase, step, body>>
      /\ Becomes(new)
  BY DEF Detach, Attached, loopVars
<1>2. \A j : Attached(j)' <=> Attached(j) /\ j # i
  BY DEF Attached
<1>3. otel[i].known => i \in Watching(State)
  BY StateIs
<1>4. /\ Closes(State, new, fin)
      /\ \A j \in I : new.o[j] = NoRun
      /\ \A j \in Instrument \ I : new.o[j] = otel[j]
  <2>1. Closes(State, State, {})
    BY StateIs DEF Closes
  <2>2. CASE known
    <3>1. {i} \in SUBSET Watching(State) /\ State.o = otel /\ I = {i}
      BY <1>3, <2>2, StateIs
    <3>2. /\ Closes(State, OnRunOver(State, {i}, FALSE), Over({i}))
          /\ \A j \in {i} : OnRunOver(State, {i}, FALSE).o[j] = NoRun
          /\ \A j \in Instrument \ {i} : OnRunOver(State, {i}, FALSE).o[j] = State.o[j]
      BY <2>1, <3>1, RunStatesOver
    <3> QED
      BY <2>2, <3>1, <3>2
  <2>3. CASE ~known
    <3>1. fin = {}
      BY <2>3 DEF Over
    <3> QED
      BY <2>1, <2>3, <3>1, StateIs
  <2> QED
    BY <2>2, <2>3
<1>5. I \in SUBSET Instrument /\ \A j \in Instrument : j \in I <=> j = i /\ otel[i].known
  OBVIOUS
<1> HIDE DEF new, fin, I, known
<1>6. State' = new /\ State'.o = otel' /\ State'.s = spans' /\ State.s = spans /\ State.o = otel
  BY <1>1, <1>4, BecomesIs DEF Closes, State
<1>7. Closes(State, State', fin) /\ DOMAIN spans' = DOMAIN spans
      /\ \A d \in DOMAIN spans :
            /\ spans'[d].ends = IF d \in fin THEN spans[d].ends + 1 ELSE spans[d].ends
            /\ d \notin fin => spans'[d].error = spans[d].error
  BY <1>4, <1>6 DEF Closes
<1>8. LoopTypes' /\ BodiesOK'
  <2>1. phase' \in {"idle", "between", "stepping", "over"}
    BY <1>1 DEF OtelInv, LoopTypes
  <2> QED
    BY <1>1, <2>1, LoopKept
<1>9. SpansOK' /\ PairsTold' /\ RecordsOK' /\ SpansFormTheRun'
  <2>1. \A j \in Instrument : Attached(j) \/ j \in detached => Attached(j)' \/ j \in detached'
    BY <1>1, <1>2
  <2> QED
    BY <1>1, <1>7, <2>1, CloseKeeps
<1>10. RunStatesOK'
  <2> SUFFICES ASSUME NEW j \in Instrument PROVE RunStateOK(j)'
    BY DEF RunStatesOK
  <2>0. Running' = Running
    BY <1>1 DEF Running
  <2>1. CASE j \in I
    <3>1. otel'[j] = NoRun /\ j = i
      BY <1>4, <1>5, <1>6, <2>1
    <3>2. otel'[j] = [known |-> FALSE, step |-> NoSpan, open |-> NoRun.open] /\ DOMAIN NoRun.open = {}
      BY <3>1, NewKnown
    <3>3. ~Attached(j)'
      BY <1>2, <3>1
    <3> QED
      BY <3>2, <3>3 DEF RunStateOK
  <2>2. CASE j \notin I
    <3>1. otel'[j] = otel[j]
      BY <1>4, <1>6, <2>2
    <3>2. RunStateOK(j)
      BY DEF OtelInv, RunStatesOK
    <3>3. j = i => otel[j].known = FALSE
      BY <1>5, <2>2, StateIs
    <3> QED
      BY <1>1, <1>2, <1>7, <2>0, <3>1, <3>2, <3>3 DEF RunStateOK
  <2> QED
    BY <2>1, <2>2
<1>11. LivesOK'
  <2>0. step \in 0 .. MaxSteps /\ MaxSteps \in Nat
    BY PairsAreFinite DEF OtelInv, LoopTypes
  <2>1. \A j \in Instrument, n \in 1 .. step, p \in Pair : SystemSpan(j, n, p) \in DOMAIN spans =>
           PairLife(SystemSpan(j, n, p), body[n][p])'
    <3> SUFFICES ASSUME NEW j \in Instrument, NEW n \in 1 .. step, NEW p \in Pair,
                        SystemSpan(j, n, p) \in DOMAIN spans
                 PROVE  PairLife(SystemSpan(j, n, p), body[n][p])'
      OBVIOUS
    <3> DEFINE s == SystemSpan(j, n, p)
    <3>1. s \in fin <=> j \in I /\ n = step /\ p \in Running
      BY <1>5, <2>0, OverIs DEF fin
    <3>2. PairLife(s, body[n][p]) /\ s.by = j /\ s \in DOMAIN spans /\ body'[n][p] = body[n][p]
      BY <1>1, LivesWere, Names
    <3>3. RunSpan(j) \in DOMAIN spans
      BY <3>2, KindsAre
    <3>4. j = i => (j \in I <=> phase \in {"between", "stepping"})
      BY <1>1, <1>5, <3>3, StateIs
    <3>5. body[n][p] = "running" <=> n = step /\ p \in Running
      <4>1. n \in 1 .. MaxSteps
        BY <2>0
      <4>2. body[n][p] = "running" => n = step /\ p \in Running
        BY <4>1, RunningIs
      <4> QED
        BY <4>2 DEF Running
    <3>6. body[n][p] = "running" => phase = "stepping"
      BY <2>0, RunningIs
    <3> HIDE DEF s
    <3>7. spans[s].ends \in Nat
      BY <3>2 DEF OtelInv, RecordsOK, SpanRecord
    <3>8. CASE j # i
      BY <1>2, <1>5, <1>7, <3>1, <3>2, <3>8 DEF PairLife, s
    <3>9. CASE j = i
      <4>1. spans'[s].ends = IF body[n][p] = "running" THEN spans[s].ends + 1 ELSE spans[s].ends
        BY <1>7, <3>1, <3>2, <3>4, <3>5, <3>6, <3>9
      <4>2. spans'[s].ends \in {0, 1} /\ (body[n][p] = "running" => spans'[s].ends = 1)
            /\ (spans'[s].ends = 0 => body[n][p] = "late")
        BY <1>1, <3>2, <3>9, <4>1 DEF PairLife
      <4>3. ~Attached(s.by)'
        BY <1>2, <3>2, <3>9
      <4>4. PairLife(s, body[n][p])'
        BY <3>2, <4>2, <4>3 DEF PairLife
      <4> QED
        BY <4>4 DEF s
    <3> QED
      BY <3>8, <3>9
  <2>2. \A j \in Instrument : RunSpan(j) \in DOMAIN spans => (j \in I <=> j = i /\ phase \in {"between", "stepping"})
    BY <1>1, <1>5, StateIs
  <2>3. \A j \in Instrument : RunSpan(j) \in DOMAIN spans =>
           spans'[RunSpan(j)].ends = IF Attached(j)' /\ phase' # "over" THEN 0 ELSE 1
    <3>1. \A j \in Instrument : RunSpan(j) \in fin <=> j \in I
      BY <1>5, OverIs DEF fin
    <3>2. \A j \in Instrument : RunSpan(j) \in DOMAIN spans => phase # "idle"
      BY DEF OtelInv, SpansOK
    <3>3. phase \in {"idle", "between", "stepping", "over"}
      BY DEF OtelInv, LoopTypes
    <3> QED
      BY <1>1, <1>2, <1>7, <2>2, <3>1, <3>2, <3>3, LivesWere
  <2>4. \A j \in Instrument, n \in 1 .. step : StepSpan(j, n) \in DOMAIN spans =>
           spans'[StepSpan(j, n)].ends =
              IF Attached(j)' /\ phase' = "stepping" /\ n = step' THEN 0 ELSE 1
    <3> SUFFICES ASSUME NEW j \in Instrument, NEW n \in 1 .. step, StepSpan(j, n) \in DOMAIN spans
                 PROVE  spans'[StepSpan(j, n)].ends =
                           IF Attached(j)' /\ phase' = "stepping" /\ n = step' THEN 0 ELSE 1
      OBVIOUS
    <3>1. RunSpan(j) \in DOMAIN spans
      BY KindsAre, Names
    <3>2. StepSpan(j, n) \in fin <=> j \in I /\ phase = "stepping" /\ n = step
      <4>1. n \in 0 .. MaxSteps
        BY <2>0
      <4> QED
        BY <1>5, <4>1, OverIs DEF fin
    <3> QED
      BY <1>1, <1>2, <1>7, <2>2, <3>1, <3>2, LivesWere
  <2>5. \A s \in DOMAIN spans : LifeOK(s)'
    BY <1>1, <2>1, <2>3, <2>4, LivesAre
  <2> QED
    BY <1>7, <2>5 DEF LivesOK
<1> QED
  BY <1>8, <1>9, <1>10, <1>11

-----------------------------------------------------------------------------
(***************************************************************************)
(* Steps that start spans.                                                 *)
(***************************************************************************)
LEMMA StartRunKeeps ==
    ASSUME OtelInv, StartRun
    PROVE  /\ LoopTypes' /\ BodiesOK' /\ RunStatesOK' /\ SpansOK' /\ PairsTold'
           /\ RecordsOK' /\ SpansFormTheRun' /\ LivesOK'
<1> DEFINE new == OnRunStart(State)
           B == Range(observers)
<1>1. /\ phase = "idle" /\ phase' = "between" /\ UNCHANGED <<step, body, observers, detached>>
      /\ Becomes(new)
  BY DEF StartRun
<1>2. DOMAIN spans = {} /\ step = 0 /\ Running = {} /\ Running' = {}
  BY <1>1 DEF OtelInv, SpansOK, BodiesOK, Running
<1>3. /\ IsState(new)
      /\ DOMAIN new.s = DOMAIN State.s \cup {RunSpan(i) : i \in B}
      /\ \A i \in B :
            /\ new.s[RunSpan(i)] = [parent |-> NoSpan, ends |-> 0, error |-> FALSE]
            /\ new.o[i] = [known |-> TRUE, step |-> NoSpan, open |-> <<>>]
      /\ \A i \in Instrument \ B : new.o[i] = State.o[i]
  BY StateIs, OnRunStartIs
<1> HIDE DEF new, B
<1>4. State' = new /\ State'.o = otel' /\ State'.s = spans' /\ State.s = spans /\ State.o = otel
  BY <1>1, <1>3, BecomesIs DEF State
<1>5. /\ DOMAIN spans' = {RunSpan(i) : i \in B}
      /\ \A i \in B : spans'[RunSpan(i)].parent = NoSpan /\ spans'[RunSpan(i)].ends = 0
  BY <1>2, <1>3, <1>4
<1>6. \A i : Attached(i)' <=> i \in B
  BY <1>1 DEF Attached, B
<1>7. B \subseteq Instrument
  BY StateIs DEF B
<1>8. LoopTypes' /\ BodiesOK'
  BY <1>1, LoopKept
<1>9. RecordsOK'
  BY <1>3, <1>4 DEF RecordsOK, IsState
<1>10. SpansFormTheRun'
  <2> SUFFICES ASSUME NEW i \in B
               PROVE  spans'[RunSpan(i)].parent = CASE RunSpan(i).kind = "run" -> NoSpan
                            [] RunSpan(i).kind = "step" -> RunSpan(RunSpan(i).by)
                            [] RunSpan(i).kind = "system" -> StepSpan(RunSpan(i).by, RunSpan(i).step)
    BY <1>5 DEF SpansFormTheRun
  <2> QED
    BY <1>5, Names
<1>11. SpansOK'
  <2>1. ASSUME NEW i \in B PROVE FamilyOK(RunSpan(i))'
    <3>1. RunSpan(i).by = i
      BY Names
    <3> DEFINE s == RunSpan(i)
    <3>2. s.by = i /\ s = RunSpan(s.by) /\ s \in DOMAIN spans'
      BY <1>5, <3>1
    <3> HIDE DEF s
    <3>3. FamilyOK(s)'
      BY <1>6, <1>7, <3>2 DEF FamilyOK, Family
    <3> QED
      BY <3>3 DEF s
  <2> QED
    BY <1>1, <1>5, <2>1 DEF SpansOK
<1>12. PairsTold'
  <2>1. \A i, n : StepSpan(i, n) \notin DOMAIN spans'
    BY <1>5, Distinct
  <2> QED
    BY <2>1 DEF PairsTold
<1>13. LivesOK'
  <2> SUFFICES ASSUME NEW i \in B PROVE LifeOK(RunSpan(i))'
    BY <1>5 DEF LivesOK
  <2> DEFINE s == RunSpan(i)
  <2>1. s.by = i /\ s.kind = "run" /\ spans'[s].ends = 0
    BY <1>5, Names
  <2> HIDE DEF s
  <2>2. LifeOK(s)'
    BY <1>1, <1>6, <2>1 DEF LifeOK
  <2> QED
    BY <2>2 DEF s
<1>14. RunStatesOK'
  <2> SUFFICES ASSUME NEW i \in Instrument PROVE RunStateOK(i)'
    BY DEF RunStatesOK
  <2>1. RunSpan(i) \in DOMAIN spans' <=> i \in B
    BY <1>5, Distinct
  <2>2. CASE i \in B
    <3> DEFINE none == NoRun.open
    <3>1. DOMAIN none = {} /\ <<>> = none
      BY NewKnown DEF NoRun
    <3>2. otel'[i] = [known |-> TRUE, step |-> NoSpan, open |-> none]
      BY <1>3, <1>4, <2>2, <3>1
    <3> HIDE DEF none
    <3> QED
      BY <1>1, <1>2, <1>6, <2>1, <2>2, <3>1, <3>2 DEF RunStateOK
  <2>3. CASE i \notin B
    <3>1. otel'[i] = otel[i]
      BY <1>3, <1>4, <2>3
    <3>2. /\ otel[i].known = FALSE /\ otel[i].step = NoSpan /\ DOMAIN otel[i].open = {}
          /\ IsRunState(otel[i])
      BY <1>1, StateIs
    <3> QED
      BY <1>1, <1>2, <1>6, <2>1, <2>3, <3>1, <3>2 DEF RunStateOK, IsRunState
  <2> QED
    BY <2>2, <2>3
<1> QED
  BY <1>8, <1>9, <1>10, <1>11, <1>12, <1>13, <1>14

\* A step starts: its span for every watcher, and those of its pairs, of which the
\* ones whose guard threw have ended.
StepStarted(n, scheduled, threw) ==
    LET W == Watching(State) IN
    /\ DOMAIN spans' = DOMAIN spans \cup {StepSpan(i, n) : i \in W}
                       \cup {SystemSpan(i, n, p) : i \in W, p \in scheduled}
    /\ \A d \in DOMAIN spans : spans'[d] = spans[d]
    /\ \A i \in W : spans'[StepSpan(i, n)] = [parent |-> RunSpan(i), ends |-> 0, error |-> FALSE]
    /\ \A i \in W : \A p \in scheduled \ threw :
          spans'[SystemSpan(i, n, p)] = [parent |-> StepSpan(i, n), ends |-> 0, error |-> FALSE]
    /\ \A i \in W : \A p \in threw :
          spans'[SystemSpan(i, n, p)] = [parent |-> StepSpan(i, n), ends |-> 1, error |-> TRUE]
    /\ \A d \in DOMAIN spans' : spans'[d] \in SpanRecord
    /\ \A i \in W : /\ IsRunState(otel'[i]) /\ otel'[i].known = TRUE
                    /\ otel'[i].step = StepSpan(i, n) /\ DOMAIN otel'[i].open = scheduled \ threw
                    /\ \A p \in scheduled \ threw : otel'[i].open[p] = SystemSpan(i, n, p)
    /\ \A i \in Instrument \ W : otel'[i] = otel[i]

LEMMA StepStartedIs ==
    ASSUME OtelInv, phase = "between", step < MaxSteps, NEW scheduled \in SUBSET Pair,
           NEW threw \in SUBSET scheduled, NEW n, n = step + 1,
           Becomes(OnSystemError(OnWrap(OnStepStart(State, n), n, scheduled \ threw), n, threw))
    PROVE  StepStarted(n, scheduled, threw)
<1> DEFINE W == Watching(State)
           st1 == OnStepStart(State, n)
           runs == scheduled \ threw
           st2 == OnWrap(st1, n, runs)
           new == OnSystemError(st2, n, threw)
<1>0. Becomes(new)
  OBVIOUS
<1>1. n \in 1 .. MaxSteps /\ step \in 0 .. MaxSteps /\ runs \in SUBSET Pair /\ threw \in SUBSET Pair
  BY PairsAreFinite DEF OtelInv, LoopTypes
<1>2. \A i, p : StepSpan(i, n) \notin DOMAIN spans /\ SystemSpan(i, n, p) \notin DOMAIN spans
  <2> SUFFICES ASSUME NEW s \in DOMAIN spans, s.step = n, s.kind \in {"step", "system"} PROVE FALSE
    BY Names
  <2>1. s.step \in 1 .. step
    BY KindsAre
  <2> QED
    BY <1>1, <2>1
<1>3. State.o = otel /\ State.s = spans /\ W = Watching(State) /\ W \subseteq Instrument
      /\ \A i \in W : /\ IsRunState(State.o[i]) /\ State.o[i].step = NoSpan
                      /\ otel[i].known = TRUE /\ DOMAIN otel[i].open = {}
  BY StateIs DEF Running
<1> HIDE DEF new, st2, st1, W, runs
<1>4. /\ IsState(st1)
      /\ DOMAIN st1.s = DOMAIN spans \cup {StepSpan(i, n) : i \in W}
      /\ \A i \in W :
            /\ st1.s[StepSpan(i, n)] = [parent |-> RunSpan(i), ends |-> 0, error |-> FALSE]
            /\ st1.o[i] = [known |-> otel[i].known, step |-> StepSpan(i, n), open |-> otel[i].open]
      /\ \A i \in Instrument \ W : st1.o[i] = otel[i]
      /\ \A d \in DOMAIN spans \ {StepSpan(i, n) : i \in W} : st1.s[d] = spans[d]
      /\ Watching(st1) = W
  <2>1. IsState(State) /\ Range(observers) \subseteq Instrument /\ NoSpan \notin DOMAIN State.s
    BY StateIs
  <2> QED
    BY <1>1, <1>3, <2>1, OnStepStartIs DEF st1
<1>5. \A i \in W : /\ IsRunState(st1.o[i]) /\ st1.o[i].step = StepSpan(i, n)
                   /\ DOMAIN st1.o[i].open = {} /\ st1.o[i].known = TRUE
  <2> SUFFICES ASSUME NEW i \in W
               PROVE  /\ IsRunState(st1.o[i]) /\ st1.o[i].step = StepSpan(i, n)
                      /\ DOMAIN st1.o[i].open = {} /\ st1.o[i].known = TRUE
    OBVIOUS
  <2>1. st1.o[i] = [known |-> otel[i].known, step |-> StepSpan(i, n), open |-> otel[i].open]
    BY <1>4
  <2>2. IsRunState(st1.o[i])
    BY <2>1 DEF IsRunState
  <2>3. st1.o[i].step = StepSpan(i, n) /\ st1.o[i].known = otel[i].known /\ st1.o[i].open = otel[i].open
    BY <2>1
  <2>4. otel[i].known = TRUE /\ DOMAIN otel[i].open = {}
    BY <1>3
  <2> QED
    BY <2>2, <2>3, <2>4
<1>6. /\ IsState(st2)
      /\ DOMAIN st2.s = DOMAIN st1.s \cup {SystemSpan(i, n, p) : i \in W, p \in runs}
      /\ \A i \in W : \A p \in runs :
            st2.s[SystemSpan(i, n, p)] = [parent |-> StepSpan(i, n), ends |-> 0, error |-> FALSE]
      /\ \A i \in W :
            /\ IsRunState(st2.o[i]) /\ st2.o[i].known = st1.o[i].known
            /\ st2.o[i].step = StepSpan(i, n) /\ DOMAIN st2.o[i].open = runs
            /\ \A p \in runs : st2.o[i].open[p] = SystemSpan(i, n, p)
      /\ \A i \in Instrument \ W : st2.o[i] = st1.o[i]
      /\ \A d \in DOMAIN st1.s \ {SystemSpan(i, n, p) : i \in W, p \in runs} : st2.s[d] = st1.s[d]
      /\ Watching(st2) = W
  <2>1. IsState(st1) /\ Range(observers) \subseteq Instrument /\ Watching(st1) = W
    BY <1>4, StateIs
  <2> QED
    BY <1>1, <1>5, <2>1, OnWrapIs DEF st2
<1>7. \A d : d \in Vetoed(st2, n, threw) <=> \E i \in W : \E p \in threw : d = SystemSpan(i, n, p)
  <2>1. threw \cap runs = {}
    BY DEF runs
  <2>2. \A i \in W : threw \ DOMAIN st2.o[i].open = threw
    BY <1>6, <2>1
  <2>3. \A i \in W, p \in threw : SystemSpan(i, n, p) \in SpanId
    BY <1>1, <1>3, NameTypes
  <2> QED
    BY <1>6, <2>2, <2>3 DEF Vetoed
<1>8. Vetoed(st2, n, threw) \cap DOMAIN st2.s = {}
  <2> SUFFICES ASSUME NEW i \in W, NEW p \in threw, SystemSpan(i, n, p) \in DOMAIN st2.s PROVE FALSE
    BY <1>7
  <2>1. \/ SystemSpan(i, n, p) \in DOMAIN spans
        \/ \E j \in W : SystemSpan(i, n, p) = StepSpan(j, n)
        \/ \E j \in W, q \in runs : SystemSpan(i, n, p) = SystemSpan(j, n, q)
    BY <1>4, <1>6
  <2> QED
    BY <1>2, <2>1, Distinct DEF runs
<1>9. /\ IsState(new)
      /\ DOMAIN new.s = DOMAIN st2.s \cup Vetoed(st2, n, threw)
      /\ \A i \in W : \A p \in threw \ DOMAIN st2.o[i].open :
            new.s[SystemSpan(i, n, p)] = [parent |-> StepSpan(i, n), ends |-> 1, error |-> TRUE]
      /\ \A d \in DOMAIN st2.s : new.s[d] = st2.s[d]
      /\ Forgot(st2, new, W, threw)
  <2>1. IsState(st2) /\ Range(observers) \subseteq Instrument /\ Watching(st2) = W
        /\ \A i \in Watching(st2) : IsRunState(st2.o[i]) /\ st2.o[i].step = StepSpan(i, n)
    BY <1>6, StateIs
  <2> QED
    BY <1>1, <1>8, <2>1, OnSystemErrorIs DEF new
<1>10. State'.o = otel' /\ State'.s = spans' /\ new.o = otel' /\ new.s = spans'
  BY <1>0, <1>9, BecomesIs
<1>11. /\ \A d \in DOMAIN spans : spans'[d] = spans[d]
       /\ \A i \in W : spans'[StepSpan(i, n)] = [parent |-> RunSpan(i), ends |-> 0, error |-> FALSE]
       /\ \A i \in W : \A p \in runs :
             spans'[SystemSpan(i, n, p)] = [parent |-> StepSpan(i, n), ends |-> 0, error |-> FALSE]
  <2>1. \A d \in DOMAIN spans : d \in DOMAIN st1.s /\ st1.s[d] = spans[d] /\ d \in DOMAIN st2.s
                                /\ st2.s[d] = st1.s[d]
    BY <1>2, <1>4, <1>6
  <2>2. \A i \in W : StepSpan(i, n) \in DOMAIN st1.s /\ StepSpan(i, n) \in DOMAIN st2.s
                     /\ st2.s[StepSpan(i, n)] = st1.s[StepSpan(i, n)]
    BY <1>4, <1>6, Distinct
  <2>3. \A i \in W : \A p \in runs : SystemSpan(i, n, p) \in DOMAIN st2.s
    BY <1>6
  <2>4. \A d \in DOMAIN st2.s : spans'[d] = st2.s[d]
    BY <1>9, <1>10
  <2>5. \A d \in DOMAIN spans : spans'[d] = spans[d]
    BY <2>1, <2>4
  <2>6. \A i \in W : spans'[StepSpan(i, n)] = [parent |-> RunSpan(i), ends |-> 0, error |-> FALSE]
    BY <1>4, <2>2, <2>4
  <2>7. \A i \in W : \A p \in runs :
             spans'[SystemSpan(i, n, p)] = [parent |-> StepSpan(i, n), ends |-> 0, error |-> FALSE]
    BY <1>6, <2>3, <2>4
  <2> QED
    BY <2>5, <2>6, <2>7
<1>12. \A i \in W : \A p \in threw :
          spans'[SystemSpan(i, n, p)] = [parent |-> StepSpan(i, n), ends |-> 1, error |-> TRUE]
  BY <1>6, <1>9, <1>10 DEF runs
<1>13. DOMAIN spans' = DOMAIN spans \cup {StepSpan(i, n) : i \in W}
                       \cup {SystemSpan(i, n, p) : i \in W, p \in scheduled}
  <2>1. scheduled = runs \cup threw
    BY DEF runs
  <2>2. \A d : d \in {SystemSpan(i, n, p) : i \in W, p \in scheduled} <=>
               d \in {SystemSpan(i, n, p) : i \in W, p \in runs} \/ d \in Vetoed(st2, n, threw)
    BY <1>7, <2>1
  <2>3. DOMAIN spans' = DOMAIN st2.s \cup Vetoed(st2, n, threw)
    BY <1>9, <1>10
  <2>4. DOMAIN st2.s = DOMAIN spans \cup {StepSpan(i, n) : i \in W}
                       \cup {SystemSpan(i, n, p) : i \in W, p \in runs}
    BY <1>4, <1>6
  <2> DEFINE begun == {SystemSpan(i, n, p) : i \in W, p \in runs}
             all == {SystemSpan(i, n, p) : i \in W, p \in scheduled}
             steps == {StepSpan(i, n) : i \in W}
  <2>5. /\ \A d : d \in all <=> d \in begun \/ d \in Vetoed(st2, n, threw)
        /\ DOMAIN st2.s = DOMAIN spans \cup steps \cup begun
    BY <2>2, <2>4
  <2> HIDE DEF begun, all, steps
  <2>6. DOMAIN spans' = DOMAIN spans \cup steps \cup all
    BY <2>3, <2>5
  <2> QED
    BY <2>6 DEF all, steps
<1>14. \A d \in DOMAIN spans' : spans'[d] \in SpanRecord
  BY <1>9, <1>10 DEF IsState
<1>15. \A i \in W : /\ IsRunState(otel'[i]) /\ otel'[i].known = TRUE
                    /\ otel'[i].step = StepSpan(i, n) /\ DOMAIN otel'[i].open = runs
                    /\ \A p \in runs : otel'[i].open[p] = SystemSpan(i, n, p)
  <2> SUFFICES ASSUME NEW i \in W
               PROVE  /\ IsRunState(otel'[i]) /\ otel'[i].known = TRUE
                      /\ otel'[i].step = StepSpan(i, n) /\ DOMAIN otel'[i].open = runs
                      /\ \A p \in runs : otel'[i].open[p] = SystemSpan(i, n, p)
    OBVIOUS
  <2>1. /\ IsRunState(otel'[i]) /\ otel'[i].known = st2.o[i].known
        /\ otel'[i].step = st2.o[i].step
        /\ DOMAIN otel'[i].open = DOMAIN st2.o[i].open \ threw
        /\ \A p \in DOMAIN otel'[i].open : otel'[i].open[p] = st2.o[i].open[p]
    BY <1>9, <1>10 DEF Forgot
  <2>2. runs \ threw = runs
    BY DEF runs
  <2>3. DOMAIN otel'[i].open = runs
    BY <1>6, <2>1, <2>2
  <2> QED
    BY <1>5, <1>6, <2>1, <2>3
<1>16. \A i \in Instrument \ W : otel'[i] = otel[i]
  BY <1>4, <1>6, <1>9, <1>10 DEF Forgot
<1> QED
  BY <1>11, <1>12, <1>13, <1>14, <1>15, <1>16 DEF StepStarted, W, runs

LEMMA StartStepKeeps ==
    ASSUME OtelInv, StartStep
    PROVE  /\ LoopTypes' /\ BodiesOK' /\ RunStatesOK' /\ SpansOK' /\ PairsTold'
           /\ RecordsOK' /\ SpansFormTheRun' /\ LivesOK'
<1>0. PICK n : n = step + 1
  OBVIOUS
<1> DEFINE W == Watching(State)
<1>1. /\ phase = "between" /\ step < MaxSteps /\ phase' = "stepping" /\ step' = n
      /\ UNCHANGED <<observers, detached>>
  BY <1>0 DEF StartStep
<1> DEFINE Begins(scheduled, threw) ==
             /\ body' = [body EXCEPT ![n] = [p \in Pair |->
                    IF p \in threw THEN "guard" ELSE IF p \in scheduled THEN "running" ELSE "none"]]
             /\ Becomes(OnSystemError(OnWrap(OnStepStart(State, n), n, scheduled \ threw), n, threw))
<1>20. \E scheduled \in SUBSET Pair : \E threw \in SUBSET scheduled : Begins(scheduled, threw)
  BY <1>0 DEF StartStep
<1>21. PICK scheduled \in SUBSET Pair : \E threw \in SUBSET scheduled : Begins(scheduled, threw)
  BY <1>20
<1>22. PICK threw \in SUBSET scheduled : Begins(scheduled, threw)
  BY <1>21
<1>2. Begins(scheduled, threw)
  BY <1>22
<1>3. StepStarted(n, scheduled, threw)
  BY <1>0, <1>1, <1>2, StepStartedIs
<1>4. step \in 0 .. MaxSteps /\ MaxSteps \in Nat /\ n \in 1 .. MaxSteps
      /\ body \in [1 .. MaxSteps -> [Pair -> Outcome]]
  BY <1>0, <1>1, PairsAreFinite DEF OtelInv, LoopTypes
<1>5. /\ body' \in [1 .. MaxSteps -> [Pair -> Outcome]]
      /\ \A p \in Pair : body'[n][p] =
            IF p \in threw THEN "guard" ELSE IF p \in scheduled THEN "running" ELSE "none"
      /\ \A m \in 1 .. MaxSteps, p \in Pair : m # n => body'[m][p] = body[m][p]
  <2> DEFINE told == [p \in Pair |->
                IF p \in threw THEN "guard" ELSE IF p \in scheduled THEN "running" ELSE "none"]
  <2>1. told \in [Pair -> Outcome] /\ \A p \in Pair : told[p] =
            IF p \in threw THEN "guard" ELSE IF p \in scheduled THEN "running" ELSE "none"
    BY DEF Outcome
  <2>2. body' = [body EXCEPT ![n] = told]
    BY <1>2
  <2> HIDE DEF told
  <2> QED
    BY <1>4, <2>1, <2>2
<1>6. \A m \in 1 .. step : m \in 1 .. MaxSteps /\ m # n
  BY <1>0, <1>4
<1>60. step' = n /\ n = step + 1 /\ W = Watching(State) /\ W \subseteq Instrument
       /\ \A m : m \in 1 .. step' <=> m = n \/ m \in 1 .. step
  BY <1>0, <1>1, <1>4, StateIs
<1> HIDE DEF W
<1>7. /\ DOMAIN spans' = DOMAIN spans \cup {StepSpan(i, n) : i \in W}
                         \cup {SystemSpan(i, n, p) : i \in W, p \in scheduled}
      /\ \A d \in DOMAIN spans : spans'[d] = spans[d]
  BY <1>3, <1>60 DEF StepStarted
<1>8. \A s \in DOMAIN spans' :
         \/ s \in DOMAIN spans
         \/ \E i \in W : s = StepSpan(i, n)
         \/ \E i \in W, p \in scheduled : s = SystemSpan(i, n, p)
  BY <1>7
<1>9. \A i \in W : StepSpan(i, n) \in DOMAIN spans' /\ \A p \in scheduled : SystemSpan(i, n, p) \in DOMAIN spans'
  BY <1>7
<1>10. \A i \in W : Attached(i) /\ RunSpan(i) \in DOMAIN spans
  BY <1>60, StateIs
<1>11. \A i : Attached(i)' <=> Attached(i)
  BY <1>1 DEF Attached
<1>12. LoopTypes'
  BY <1>1, <1>4, <1>5, <1>60 DEF LoopTypes
<1>13. BodiesOK'
  <2>1. BodiesOK
    BY DEF OtelInv
  <2>2. ASSUME NEW m \in 1 .. MaxSteps, NEW p \in Pair
        PROVE  /\ body'[m][p] # "none" => m <= n
               /\ body'[m][p] = "running" => m = n
    <3>1. CASE m = n
      BY <3>1, <1>4
    <3>2. CASE m # n
      <4>1. body'[m][p] = body[m][p] /\ (body[m][p] # "none" => m <= step) /\ body[m][p] # "running"
        BY <1>1, <1>5, <2>1, <3>2 DEF BodiesOK
      <4> QED
        BY <1>4, <1>60, <4>1
    <3> QED
      BY <3>1, <3>2
  <2> QED
    BY <1>1, <1>4, <1>60, <2>2 DEF BodiesOK
<1>14. RecordsOK'
  BY <1>3 DEF StepStarted, RecordsOK
<1>15. SpansFormTheRun'
  <2> DEFINE Par(s) == CASE s.kind = "run" -> NoSpan
                         [] s.kind = "step" -> RunSpan(s.by)
                         [] s.kind = "system" -> StepSpan(s.by, s.step)
  <2>1. \A i : Par(StepSpan(i, n)) = RunSpan(i)
    BY Names
  <2>2. \A i, p : Par(SystemSpan(i, n, p)) = StepSpan(i, n)
    BY Names
  <2>3. \A s \in DOMAIN spans : spans[s].parent = Par(s)
    BY DEF OtelInv, SpansFormTheRun
  <2> HIDE DEF Par
  <2>4. \A i \in W : spans'[StepSpan(i, n)].parent = RunSpan(i)
    <3> SUFFICES ASSUME NEW i \in W PROVE spans'[StepSpan(i, n)].parent = RunSpan(i)
      OBVIOUS
    <3>1. spans'[StepSpan(i, n)] = [parent |-> RunSpan(i), ends |-> 0, error |-> FALSE]
      BY <1>3, <1>60 DEF StepStarted
    <3> QED
      BY <3>1
  <2>5. \A i \in W, p \in scheduled : spans'[SystemSpan(i, n, p)].parent = StepSpan(i, n)
    <3> SUFFICES ASSUME NEW i \in W, NEW p \in scheduled
                 PROVE  spans'[SystemSpan(i, n, p)].parent = StepSpan(i, n)
      OBVIOUS
    <3>1. \/ spans'[SystemSpan(i, n, p)] = [parent |-> StepSpan(i, n), ends |-> 0, error |-> FALSE]
          \/ spans'[SystemSpan(i, n, p)] = [parent |-> StepSpan(i, n), ends |-> 1, error |-> TRUE]
      BY <1>3, <1>60 DEF StepStarted
    <3> QED
      BY <3>1
  <2>6. \A s \in DOMAIN spans' : spans'[s].parent = Par(s)
    BY <1>7, <1>8, <2>1, <2>2, <2>3, <2>4, <2>5
  <2> QED
    BY <2>6 DEF SpansFormTheRun, Par
<1>16. PairsTold'
  <2> SUFFICES ASSUME NEW i \in Instrument, NEW m \in 1 .. MaxSteps, NEW p \in Pair,
                      body'[m][p] # "none", StepSpan(i, m) \in DOMAIN spans'
               PROVE  SystemSpan(i, m, p) \in DOMAIN spans'
    BY DEF PairsTold
  <2>1. CASE m = n
    <3>1. p \in scheduled
      BY <1>5, <2>1
    <3>2. i \in W
      <4>1. StepSpan(i, n) \notin DOMAIN spans
        BY <1>6, KindsAre, Names, Distinct
      <4> QED
        BY <1>8, <2>1, <4>1, Distinct
    <3> QED
      BY <1>9, <2>1, <3>1, <3>2
  <2>2. CASE m # n
    <3>1. StepSpan(i, m) \in DOMAIN spans
      BY <1>8, <2>2, Distinct
    <3>2. body[m][p] # "none"
      BY <1>5, <2>2
    <3>3. SystemSpan(i, m, p) \in DOMAIN spans
      BY <3>1, <3>2 DEF OtelInv, PairsTold
    <3> QED
      BY <1>7, <3>3
  <2> QED
    BY <2>1, <2>2
<1>17. SpansOK'
  <2>1. ASSUME NEW s \in DOMAIN spans PROVE FamilyOK(s)'
    <3>1. /\ s.by \in Instrument /\ RunSpan(s.by) \in DOMAIN spans' /\ (Attached(s.by)' \/ s.by \in detached')
      BY <1>1, <1>7, <1>11, KindsAre
    <3>2. Family(s)'
      <4>1. CASE s = RunSpan(s.by)
        BY <4>1 DEF Family
      <4>2. CASE s = StepSpan(s.by, s.step) /\ s.step \in 1 .. step
        BY <1>60, <4>2 DEF Family
      <4>3. CASE /\ s = SystemSpan(s.by, s.step, s.of)
                 /\ s.step \in 1 .. step /\ s.of \in Pair
                 /\ StepSpan(s.by, s.step) \in DOMAIN spans /\ body[s.step][s.of] # "none"
        <5>1. s.step \in 1 .. step' /\ StepSpan(s.by, s.step) \in DOMAIN spans'
          BY <1>7, <1>60, <4>3
        <5>2. body'[s.step][s.of] # "none"
          BY <1>5, <1>6, <4>3
        <5> QED
          BY <4>3, <5>1, <5>2 DEF Family
      <4> QED
        BY <4>1, <4>2, <4>3, KindsAre
    <3> QED
      BY <3>1, <3>2 DEF FamilyOK
  <2>2. ASSUME NEW i \in W PROVE FamilyOK(StepSpan(i, n))'
    <3> DEFINE s == StepSpan(i, n)
    <3>1. s.by = i /\ s.step = n /\ s = StepSpan(s.by, s.step)
      BY Names
    <3> HIDE DEF s
    <3>2. s.by \in Instrument /\ RunSpan(s.by) \in DOMAIN spans' /\ Attached(s.by)'
      BY <1>7, <1>10, <1>11, <1>60, <3>1
    <3>3. s.step \in 1 .. step'
      BY <1>60, <3>1
    <3>4. FamilyOK(s)'
      BY <3>1, <3>2, <3>3 DEF FamilyOK, Family
    <3> QED
      BY <3>4 DEF s
  <2>3. ASSUME NEW i \in W, NEW p \in scheduled PROVE FamilyOK(SystemSpan(i, n, p))'
    <3> DEFINE s == SystemSpan(i, n, p)
    <3>1. s.by = i /\ s.step = n /\ s.of = p /\ s = SystemSpan(s.by, s.step, s.of)
      BY Names
    <3> HIDE DEF s
    <3>2. s.by \in Instrument /\ RunSpan(s.by) \in DOMAIN spans' /\ Attached(s.by)'
      BY <1>7, <1>10, <1>11, <1>60, <3>1
    <3>3. s.step \in 1 .. step' /\ s.of \in Pair /\ StepSpan(s.by, s.step) \in DOMAIN spans'
      BY <1>9, <1>60, <3>1
    <3>4. body'[s.step][s.of] # "none"
      BY <1>5, <3>1, <3>3
    <3>5. FamilyOK(s)'
      BY <3>1, <3>2, <3>3, <3>4 DEF FamilyOK, Family
    <3> QED
      BY <3>5 DEF s
  <2>4. \A s \in DOMAIN spans' : FamilyOK(s)'
    BY <1>8, <2>1, <2>2, <2>3
  <2>5. \A i \in Range(observers)' : RunSpan(i) \in DOMAIN spans' => StepSpan(i, step') \in DOMAIN spans'
    <3> SUFFICES ASSUME NEW i \in Range(observers), RunSpan(i) \in DOMAIN spans' PROVE i \in W
      BY <1>1, <1>9, <1>60
    <3>1. RunSpan(i) \in DOMAIN spans
      BY <1>8, Distinct
    <3> QED
      BY <1>1, <1>60, <3>1, StateIs DEF Attached
  <2> QED
    BY <1>1, <2>4, <2>5 DEF SpansOK
<1>18. RunStatesOK'
  <2> SUFFICES ASSUME NEW i \in Instrument PROVE RunStateOK(i)'
    BY DEF RunStatesOK
  <2>0. Running' = scheduled \ threw
    BY <1>1, <1>5, <1>60 DEF Running
  <2>1. RunSpan(i) \in DOMAIN spans' <=> RunSpan(i) \in DOMAIN spans
    BY <1>7, <1>8, Distinct
  <2>2. CASE i \in W
    <3>1. /\ IsRunState(otel'[i]) /\ otel'[i].known = TRUE
          /\ otel'[i].step = StepSpan(i, n) /\ DOMAIN otel'[i].open = scheduled \ threw
          /\ \A p \in scheduled \ threw : otel'[i].open[p] = SystemSpan(i, n, p)
      BY <1>3, <1>60, <2>2 DEF StepStarted
    <3> QED
      BY <1>1, <1>10, <1>11, <1>60, <2>0, <2>1, <2>2, <3>1 DEF RunStateOK, IsRunState
  <2>3. CASE i \notin W
    <3>1. otel'[i] = otel[i]
      BY <1>3, <1>60, <2>3 DEF StepStarted
    <3>2. /\ otel[i].known = FALSE /\ otel[i].step = NoSpan /\ DOMAIN otel[i].open = {}
          /\ IsRunState(otel[i]) /\ ~(Attached(i) /\ RunSpan(i) \in DOMAIN spans)
      BY <1>1, <1>60, <2>3, StateIs
    <3> QED
      BY <1>11, <2>1, <3>1, <3>2 DEF RunStateOK, IsRunState
  <2> QED
    BY <2>2, <2>3
<1>19. LivesOK'
  <2>1. ASSUME NEW s \in DOMAIN spans PROVE LifeOK(s)'
    <3>1. \A i \in Instrument, m \in 1 .. step, p \in Pair : SystemSpan(i, m, p) \in DOMAIN spans =>
             PairLife(SystemSpan(i, m, p), body[m][p])'
      <4> SUFFICES ASSUME NEW i \in Instrument, NEW m \in 1 .. step, NEW p \in Pair,
                          SystemSpan(i, m, p) \in DOMAIN spans
                   PROVE  PairLife(SystemSpan(i, m, p), body[m][p])'
        OBVIOUS
      <4>1. PairLife(SystemSpan(i, m, p), body[m][p])
        BY LivesWere
      <4>2. body'[m][p] = body[m][p]
        BY <1>5, <1>6
      <4> QED
        BY <1>7, <1>11, <4>1, <4>2, PairKept
    <3>2. \A i \in Instrument, m \in 1 .. step : StepSpan(i, m) \in DOMAIN spans =>
             spans'[StepSpan(i, m)].ends = IF Attached(i)' /\ phase' = "stepping" /\ m = step' THEN 0 ELSE 1
      BY <1>1, <1>6, <1>7, <1>60, LivesWere
    <3>3. \A i \in Instrument : RunSpan(i) \in DOMAIN spans =>
             spans'[RunSpan(i)].ends = IF Attached(i)' /\ phase' # "over" THEN 0 ELSE 1
      BY <1>1, <1>7, <1>11, LivesWere
    <3> QED
      BY <3>1, <3>2, <3>3, LivesAre
  <2>2. ASSUME NEW i \in W PROVE LifeOK(StepSpan(i, n))'
    <3> DEFINE s == StepSpan(i, n)
    <3>1. spans'[s] = [parent |-> RunSpan(i), ends |-> 0, error |-> FALSE]
      BY <1>3, <1>60 DEF StepStarted
    <3>2. s.by = i /\ s.step = n /\ s.kind = "step" /\ spans'[s].ends = 0
      BY <3>1, Names
    <3> HIDE DEF s
    <3>3. LifeOK(s)'
      BY <1>1, <1>10, <1>11, <1>60, <3>2 DEF LifeOK
    <3> QED
      BY <3>3 DEF s
  <2>3. ASSUME NEW i \in W, NEW p \in scheduled PROVE LifeOK(SystemSpan(i, n, p))'
    <3> DEFINE s == SystemSpan(i, n, p)
    <3>1. s.by = i /\ s.step = n /\ s.of = p /\ s.kind = "system"
      BY Names
    <3>2. CASE p \in threw
      <4>1. spans'[s] = [parent |-> StepSpan(i, n), ends |-> 1, error |-> TRUE]
        BY <1>3, <1>60, <3>2 DEF StepStarted
      <4>2. spans'[s].ends = 1 /\ spans'[s].error /\ body'[n][p] = "guard"
        BY <1>5, <3>2, <4>1
      <4> HIDE DEF s
      <4>3. LifeOK(s)'
        BY <1>10, <1>11, <3>1, <4>2 DEF LifeOK, PairLife
      <4> QED
        BY <4>3 DEF s
    <3>3. CASE p \notin threw
      <4>1. spans'[s] = [parent |-> StepSpan(i, n), ends |-> 0, error |-> FALSE]
        BY <1>3, <1>60, <3>3 DEF StepStarted
      <4>2. spans'[s].ends = 0 /\ ~spans'[s].error /\ body'[n][p] = "running"
        BY <1>5, <3>3, <4>1
      <4> HIDE DEF s
      <4>3. LifeOK(s)'
        BY <1>10, <1>11, <3>1, <4>2 DEF LifeOK, PairLife
      <4> QED
        BY <4>3 DEF s
    <3> QED
      BY <3>2, <3>3
  <2> QED
    BY <1>8, <2>1, <2>2, <2>3 DEF LivesOK
<1> QED
  BY <1>12, <1>13, <1>14, <1>15, <1>16, <1>17, <1>18, <1>19

-----------------------------------------------------------------------------
(***************************************************************************)
(* What a step tells, and what the patches of register make of a model.    *)
(***************************************************************************)
LEMMA Smallest ==
    ASSUME NEW B \in SUBSET Nat, B # {}
    PROVE  \E m \in B : \A y \in B : m <= y
<1>1. PICK m \in B : \A y \in B : ~ (<<y, m>> \in OpToRel(<, Nat))
  BY WFMin, NatLessThanWellFounded
<1>2. \A y \in B : ~ (y < m)
  BY <1>1 DEF OpToRel
<1> QED BY <1>2

LEMMA Least ==
    ASSUME NEW B \in SUBSET Nat, B # {}
    PROVE  \E m \in B : m = 0 \/ (m - 1 \in Nat /\ m - 1 \notin B)
<1>1. PICK m \in B : \A y \in B : m <= y
  BY Smallest
<1> QED BY <1>1

\* What holds at the start and is kept by every step holds throughout.
LEMMA Throughout ==
    ASSUME NEW S, NEW n \in Nat, NEW f, f[0] \in S, \A k \in 1 .. n : f[k - 1] \in S => f[k] \in S
    PROVE  \A k \in 0 .. n : f[k] \in S
<1> DEFINE Bad == {k \in 0 .. n : f[k] \notin S}
<1> SUFFICES ASSUME Bad # {} PROVE FALSE
  OBVIOUS
<1>1. Bad \in SUBSET Nat
  OBVIOUS
<1>2. PICK m \in Bad : m = 0 \/ (m - 1 \in Nat /\ m - 1 \notin Bad)
  <2> HIDE DEF Bad
  <2> QED BY <1>1, Least
<1>3. m \in 1 .. n /\ m - 1 \in 0 .. n
  BY <1>2
<1>4. f[m - 1] \in S
  BY <1>2, <1>3
<1> QED BY <1>2, <1>3, <1>4

\* A function can be built step by step.
IsStep(next, n, S) == next \in [(1 .. n) \X S -> S]
Iterates(f, n, S, x, next) ==
    /\ f \in [0 .. n -> S]
    /\ f[0] = x /\ \A k \in 1 .. n : f[k] = next[<<k, f[k - 1]>>]

LEMMA Iterated ==
    ASSUME NEW S, NEW x \in S, NEW n \in Nat, NEW next, IsStep(next, n, S)
    PROVE  \E f : Iterates(f, n, S, x, next)
<1> USE DEF IsStep
<1> DEFINE Good(m) == \E f \in [0 .. m -> S] :
                         f[0] = x /\ \A k \in 1 .. m : f[k] = next[<<k, f[k - 1]>>]
           Bad == {m \in 0 .. n : ~ Good(m)}
<1>1. Bad = {}
  <2> SUFFICES ASSUME Bad # {} PROVE FALSE
    OBVIOUS
  <2>1. PICK m \in Bad : m = 0 \/ (m - 1 \in Nat /\ m - 1 \notin Bad)
    <3>1. Bad \in SUBSET Nat
      OBVIOUS
    <3> HIDE DEF Bad
    <3> QED BY <3>1, Least
  <2>2. CASE m = 0
    <3> DEFINE f == [k \in 0 .. 0 |-> x]
    <3>1. f \in [0 .. 0 -> S] /\ f[0] = x /\ \A k \in 1 .. 0 : f[k] = next[<<k, f[k - 1]>>]
      OBVIOUS
    <3> HIDE DEF f
    <3>2. Good(0)
      BY <3>1
    <3> QED BY <2>2, <3>2
  <2>3. CASE m - 1 \in Nat /\ m - 1 \notin Bad
    <3>1. m \in 1 .. n /\ m - 1 \in 0 .. n /\ m \in Nat
      BY <2>3
    <3>2. Good(m - 1)
      BY <2>3, <3>1
    <3>3. PICK f \in [0 .. m - 1 -> S] :
             f[0] = x /\ \A k \in 1 .. m - 1 : f[k] = next[<<k, f[k - 1]>>]
      BY <3>2
    <3> HIDE DEF Bad
    <3> DEFINE y == next[<<m, f[m - 1]>>]
    <3>4. y \in S
      <4>1. f[m - 1] \in S
        BY <3>1, <3>3
      <4> QED BY <3>1, <4>1
    <3> DEFINE g == [k \in 0 .. m |-> IF k = m THEN y ELSE f[k]]
    <3>5. \A k \in 0 .. m : k = m \/ (k \in 0 .. m - 1 /\ k # m)
      BY <3>1
    <3>6. g \in [0 .. m -> S]
      <4> HIDE DEF y
      <4> QED BY <3>1, <3>3, <3>4, <3>5
    <3>7. g[m] = y /\ \A k \in 0 .. m - 1 : g[k] = f[k]
      BY <3>1
    <3> HIDE DEF g
    <3>8. g[0] = x
      BY <3>1, <3>3, <3>7
    <3>9. ASSUME NEW k \in 1 .. m PROVE g[k] = next[<<k, g[k - 1]>>]
      <4>1. CASE k = m
        <5>1. m - 1 \in 0 .. m - 1
          BY <3>1
        <5> QED BY <3>7, <4>1, <5>1
      <4>2. CASE k # m
        <5>1. k \in 1 .. m - 1 /\ k \in 0 .. m - 1 /\ k - 1 \in 0 .. m - 1
          BY <3>1, <4>2
        <5> QED BY <3>3, <3>7, <5>1
      <4> QED BY <4>1, <4>2
    <3>10. Good(m)
      BY <3>6, <3>8, <3>9
    <3> QED BY <3>10 DEF Bad
  <2> QED BY <2>1, <2>2, <2>3
<1>2. Good(n)
  BY <1>1
<1> QED BY <1>2 DEF Iterates

\* A model is wrapped once, however many patches it runs through.
LEMMA WrapsIs ==
    ASSUME NEW n \in Nat, n = Len(register)
    PROVE  Wraps <= 1
<1> DEFINE Body(f) == [k \in 0 .. n |-> IF k = 0 THEN 0 ELSE MaybeWrap(f[k - 1])]
           after == CHOOSE f : f = Body(f)
<1>1. Wraps = after[n]
  BY DEF Wraps
<1>2. \E f : f = Body(f)
  <2> DEFINE S == {0, 1}
             next == [x \in (1 .. n) \X {0, 1} |-> MaybeWrap(x[2])]
  <2>1. IsStep(next, n, S) /\ 0 \in S
    BY DEF MaybeWrap, IsStep
  <2>2. \A k \in 1 .. n, t \in {0, 1} : next[<<k, t>>] = MaybeWrap(t)
    OBVIOUS
  <2> HIDE DEF next
  <2>3. PICK f : Iterates(f, n, S, 0, next)
    <3> HIDE DEF S
    <3> QED BY <2>1, Iterated
  <2> USE <2>3 DEF Iterates
  <2>4. ASSUME NEW k \in 0 .. n PROVE f[k] = IF k = 0 THEN 0 ELSE MaybeWrap(f[k - 1])
    <3>1. CASE k = 0
      BY <2>3, <3>1
    <3>2. CASE k # 0
      <4>1. k \in 1 .. n /\ f[k - 1] \in {0, 1}
        BY <2>3, <3>2
      <4> QED BY <2>2, <2>3, <3>2, <4>1
    <3> QED BY <3>1, <3>2
  <2>5. f = Body(f)
    BY <2>3, <2>4
  <2> QED BY <2>5
<1>3. after = Body(after)
  BY <1>2
<1> HIDE DEF after
<1>4. after[0] = 0 /\ \A k \in 1 .. n : after[k] = MaybeWrap(after[k - 1])
  <2>1. \A k \in 0 .. n : after[k] = IF k = 0 THEN 0 ELSE MaybeWrap(after[k - 1])
    BY <1>3
  <2> QED BY <2>1
<1>5. after[0] \in {0, 1} /\ \A k \in 1 .. n : after[k - 1] \in {0, 1} => after[k] \in {0, 1}
  BY <1>4 DEF MaybeWrap
<1>6. \A k \in 0 .. n : after[k] \in {0, 1}
  <2> DEFINE S == {0, 1}
  <2>1. after[0] \in S /\ \A k \in 1 .. n : after[k - 1] \in S => after[k] \in S
    BY <1>5
  <2>2. \A k \in 0 .. n : after[k] \in S
    <3> HIDE DEF S
    <3> QED BY <2>1, Throughout
  <2> QED BY <2>2
<1>7. after[n] \in {0, 1}
  BY <1>6
<1> QED BY <1>1, <1>7

LEMMA FlattenIs ==
    ASSUME NEW S, NEW seqs \in Seq(Seq(S))
    PROVE  FlattenSeq(seqs) \in Seq(S)
<1> DEFINE n == Len(seqs)
           Body(f) == [i \in 1 .. n |-> IF i = 1 THEN seqs[i] ELSE f[i - 1] \o seqs[i]]
           flatten == CHOOSE f : f = Body(f)
<1>0. n \in Nat /\ \A i \in 1 .. n : seqs[i] \in Seq(S)
  OBVIOUS
<1>1. CASE n = 0
  <2>1. FlattenSeq(seqs) = seqs
    BY <1>1 DEF FlattenSeq
  <2>2. seqs = <<>>
    BY <1>1
  <2> QED BY <2>1, <2>2
<1>2. CASE n # 0
  <2>1. FlattenSeq(seqs) = flatten[n]
    BY <1>2 DEF FlattenSeq
  <2>2. \E f : f = Body(f)
    <3> DEFINE next == [x \in (1 .. n) \X Seq(S) |-> x[2] \o seqs[x[1]]]
    <3>1. IsStep(next, n, Seq(S))
      <4> USE DEF IsStep
      <4> SUFFICES ASSUME NEW x \in (1 .. n) \X Seq(S) PROVE x[2] \o seqs[x[1]] \in Seq(S)
        OBVIOUS
      <4>1. x[2] \in Seq(S) /\ x[1] \in 1 .. n
        OBVIOUS
      <4> QED BY <1>0, <4>1
    <3>2. \A k \in 1 .. n, t \in Seq(S) : next[<<k, t>>] = t \o seqs[k]
      OBVIOUS
    <3>3. <<>> \in Seq(S)
      OBVIOUS
    <3> HIDE DEF next, n
    <3>4. PICK g : Iterates(g, n, Seq(S), <<>>, next)
      BY <1>0, <3>1, <3>3, Iterated
    <3>4a. /\ g \in [0 .. n -> Seq(S)] /\ g[0] = <<>>
           /\ \A k \in 1 .. n : g[k] = next[<<k, g[k - 1]>>]
      BY <3>4 DEF Iterates
    <3>5. \A k \in 1 .. n : k - 1 \in 0 .. n /\ g[k - 1] \in Seq(S) /\ g[k] = g[k - 1] \o seqs[k]
      <4> SUFFICES ASSUME NEW k \in 1 .. n
                   PROVE  k - 1 \in 0 .. n /\ g[k - 1] \in Seq(S) /\ g[k] = g[k - 1] \o seqs[k]
        OBVIOUS
      <4>1. k - 1 \in 0 .. n
        BY <1>0
      <4>2. g[k - 1] \in Seq(S)
        BY <3>4a, <4>1
      <4> QED BY <3>2, <3>4a, <4>1, <4>2
    <3> DEFINE f == [k \in 1 .. n |-> g[k]]
    <3>6. ASSUME NEW k \in 1 .. n PROVE f[k] = IF k = 1 THEN seqs[k] ELSE f[k - 1] \o seqs[k]
      <4>1. CASE k = 1
        <5>1. 1 \in 1 .. n /\ 1 - 1 = 0
          BY <4>1
        <5>2. g[1] = g[0] \o seqs[1]
          BY <3>5, <5>1
        <5>3. g[1] = <<>> \o seqs[1] /\ seqs[1] \in Seq(S)
          BY <1>0, <3>4a, <5>1, <5>2
        <5>4. \A t \in Seq(S) : <<>> \o t = t
          OBVIOUS
        <5>5. g[1] = seqs[1]
          BY <5>3, <5>4
        <5> QED BY <4>1, <5>5
      <4>2. CASE k # 1
        <5>1. k - 1 \in 1 .. n
          BY <1>0, <4>2
        <5> QED BY <3>5, <4>2, <5>1
      <4> QED BY <4>1, <4>2
    <3>7. f = Body(f)
      BY <3>6
    <3> QED BY <3>7
  <2>3. flatten = Body(flatten)
    BY <2>2
  <2> HIDE DEF flatten
  <2>4. flatten[1] = seqs[1] /\ \A i \in 2 .. n : flatten[i] = flatten[i - 1] \o seqs[i]
    <3>1. \A i \in 1 .. n : flatten[i] = IF i = 1 THEN seqs[i] ELSE flatten[i - 1] \o seqs[i]
      BY <2>3
    <3>2. 1 \in 1 .. n /\ \A i \in 2 .. n : i \in 1 .. n /\ i # 1
      BY <1>0, <1>2
    <3> HIDE DEF n
    <3> QED BY <3>1, <3>2
  <2> DEFINE h == [k \in 0 .. n - 1 |-> flatten[k + 1]]
  <2>5. h[0] \in Seq(S) /\ \A k \in 1 .. n - 1 : h[k - 1] \in Seq(S) => h[k] \in Seq(S)
    <3>1. h[0] = seqs[1] /\ seqs[1] \in Seq(S)
      BY <1>0, <1>2, <2>4
    <3>2. ASSUME NEW k \in 1 .. n - 1, h[k - 1] \in Seq(S) PROVE h[k] \in Seq(S)
      <4>1. h[k - 1] = flatten[k] /\ h[k] = flatten[k + 1] /\ k + 1 \in 2 .. n /\ k + 1 \in 1 .. n
            /\ (k + 1) - 1 = k
        BY <1>0, <1>2
      <4>2. flatten[k + 1] = flatten[k] \o seqs[k + 1]
        BY <2>4, <4>1
      <4>3. flatten[k] \in Seq(S) /\ seqs[k + 1] \in Seq(S)
        BY <1>0, <3>2, <4>1
      <4>4. flatten[k] \o seqs[k + 1] \in Seq(S)
        BY <4>3
      <4>5. h[k] = flatten[k] \o seqs[k + 1]
        BY <4>1, <4>2
      <4> HIDE DEF h
      <4> QED BY <4>4, <4>5
    <3> QED BY <3>1, <3>2
  <2>6. n - 1 \in Nat
    BY <1>0, <1>2
  <2>7. \A k \in 0 .. n - 1 : h[k] \in Seq(S)
    <3> HIDE DEF h
    <3> QED BY <2>5, <2>6, Throughout
  <2>8. flatten[n] \in Seq(S)
    <3>1. n - 1 \in 0 .. n - 1 /\ (n - 1) + 1 = n
      BY <1>0, <2>6
    <3>2. h[n - 1] \in Seq(S)
      BY <2>7, <3>1
    <3> QED BY <3>1, <3>2
  <2> QED BY <2>1, <2>8
<1> QED BY <1>1, <1>2

LEMMA ListedIs ==
    ASSUME NEW S, IsFiniteSet(S)
    PROVE  /\ SetToSeq(S) \in Seq(S)
           /\ \A k \in DOMAIN SetToSeq(S) : SetToSeq(S)[k] \in S
<1> DEFINE n == Cardinality(S)
           f == CHOOSE f \in [1 .. n -> S] : IsInjective(f)
<1>1. n \in Nat /\ ExistsBijection(1 .. n, S)
  BY FS_CardinalityType
<1>2. \E g \in [1 .. n -> S] : IsInjective(g)
  BY <1>1 DEF ExistsBijection, Bijection, Injection
<1>3. f \in [1 .. n -> S]
  BY <1>2
<1>4. SetToSeq(S) = f
  BY DEF SetToSeq
<1> HIDE DEF f, n
<1>5. f \in Seq(S) /\ DOMAIN f = 1 .. n /\ \A k \in 1 .. n : f[k] \in S
  BY <1>1, <1>3
<1> QED BY <1>4, <1>5

LEMMA BurstIs ==
    ASSUME NEW n \in 0 .. MaxSteps, NEW scheduled \in SUBSET Pair, NEW threw
    PROVE  Burst(n, scheduled, threw) \in Seq(Event)
<1> DEFINE order == SetToSeq(scheduled)
           told(p) == <<E("system:start", n, p)>>
                      \o (IF p \in threw THEN <<E("system:error", n, p)>> ELSE <<>>)
           all == [k \in DOMAIN order |-> told(order[k])]
<1>1. IsFiniteSet(scheduled)
  BY PairsAreFinite, FS_Subset
<1>2. order \in Seq(scheduled) /\ \A k \in DOMAIN order : order[k] \in scheduled
  BY <1>1, ListedIs
<1>3. ASSUME NEW p \in Pair PROVE told(p) \in Seq(Event)
  <2>1. E("system:start", n, p) \in Event /\ E("system:error", n, p) \in Event
    BY EventsAreTheRuns DEF E
  <2> QED BY <2>1
<1>4. E("step:start", n, 0) \in Event
  BY EventsAreTheRuns DEF E
<1> HIDE DEF order, told
<1>5. all \in Seq(Seq(Event))
  <2>1. Len(order) \in Nat /\ DOMAIN order = 1 .. Len(order)
    BY <1>2
  <2>2. all = [k \in 1 .. Len(order) |-> told(order[k])]
    BY <2>1
  <2>3. \A k \in 1 .. Len(order) : told(order[k]) \in Seq(Event)
    BY <1>2, <1>3, <2>1
  <2> QED BY <2>1, <2>2, <2>3
<1>6. Burst(n, scheduled, threw) = <<E("step:start", n, 0)>> \o FlattenSeq(all)
  BY DEF Burst, order, told
<1> HIDE DEF all
<1>7. FlattenSeq(all) \in Seq(Event)
  BY <1>5, FlattenIs
<1> QED BY <1>4, <1>6, <1>7

-----------------------------------------------------------------------------
(***************************************************************************)
(* Attaching and detaching.                                                *)
(***************************************************************************)
\* What splice leaves.
RemovedAt(new, k) ==
    /\ new \in Seq(Instrument)
    /\ DOMAIN new = 1 .. Len(observers) - 1
    /\ \A j \in 1 .. Len(observers) - 1 :
          new[j] = IF j < k THEN observers[j] ELSE observers[j + 1]

LEMMA RemovedIs ==
    ASSUME observers \in Seq(Instrument), NEW i \in Range(observers)
    PROVE  \E k \in 1 .. Len(observers) : observers[k] = i /\ RemovedAt(Removed(i), k)
<1> DEFINE k == CHOOSE k \in DOMAIN observers : observers[k] = i
           n == Len(observers)
           a == SubSeq(observers, 1, k - 1)
           b == SubSeq(observers, k + 1, n)
<1>1. n \in Nat /\ DOMAIN observers = 1 .. n
  OBVIOUS
<1>2. \E j \in DOMAIN observers : observers[j] = i
  BY DEF Range
<1>3. k \in 1 .. n /\ observers[k] = i
  BY <1>1, <1>2
<1>4. Removed(i) = a \o b
  BY DEF Removed, RemoveAt
<1> HIDE DEF k
<1>5. a \in Seq(Instrument) /\ Len(a) = k - 1 /\ \A j \in 1 .. k - 1 : a[j] = observers[j]
  <2>1. \A j \in 1 .. k - 1 : observers[j] \in Instrument
    BY <1>1, <1>3
  <2>2. k - 1 \in Int /\ 1 \in Int
    BY <1>3
  <2>3. /\ a \in Seq(Instrument) /\ Len(a) = IF 1 <= k - 1 THEN (k - 1) - 1 + 1 ELSE 0
        /\ \A j \in 1 .. (k - 1) - 1 + 1 : a[j] = observers[1 + j - 1]
    BY <2>1, <2>2, SubSeqProperties
  <2> HIDE DEF a
  <2> QED
    BY <1>3, <2>3
<1>6. b \in Seq(Instrument) /\ Len(b) = n - k /\ \A j \in 1 .. n - k : b[j] = observers[j + k]
  <2>0. n \in Nat /\ k \in 1 .. n
    BY <1>1, <1>3
  <2>1. \A j \in k + 1 .. n : observers[j] \in Instrument
    BY <1>1, <1>3
  <2>2. k + 1 \in Int /\ n \in Int
    BY <2>0
  <2> HIDE DEF n
  <2>3. /\ b \in Seq(Instrument) /\ Len(b) = IF k + 1 <= n THEN n - (k + 1) + 1 ELSE 0
        /\ \A j \in 1 .. n - (k + 1) + 1 : b[j] = observers[k + 1 + j - 1]
    BY <2>1, <2>2, SubSeqProperties
  <2> HIDE DEF b
  <2>4. Len(b) = n - k
    BY <2>0, <2>3
  <2>5. ASSUME NEW j \in 1 .. n - k PROVE b[j] = observers[j + k]
    <3>1. j \in 1 .. n - (k + 1) + 1 /\ k + 1 + j - 1 = j + k
      BY <2>0
    <3> QED
      BY <2>3, <3>1
  <2> QED
    BY <2>3, <2>4, <2>5
<1> HIDE DEF a, b, n
<1>7. /\ a \o b \in Seq(Instrument) /\ Len(a \o b) = n - 1
      /\ \A j \in 1 .. n - 1 : (a \o b)[j] = IF j <= k - 1 THEN a[j] ELSE b[j - (k - 1)]
  <2>1. /\ a \o b \in Seq(Instrument) /\ Len(a \o b) = Len(a) + Len(b)
        /\ \A j \in 1 .. Len(a) + Len(b) :
              (a \o b)[j] = IF j <= Len(a) THEN a[j] ELSE b[j - Len(a)]
    BY <1>5, <1>6, ConcatProperties
  <2>2. Len(a) + Len(b) = n - 1
    BY <1>1, <1>3, <1>5, <1>6
  <2> QED
    BY <1>5, <2>1, <2>2
<1>8. \A j \in 1 .. n - 1 : (a \o b)[j] = IF j < k THEN observers[j] ELSE observers[j + 1]
  <2> SUFFICES ASSUME NEW j \in 1 .. n - 1
               PROVE  (a \o b)[j] = IF j < k THEN observers[j] ELSE observers[j + 1]
    OBVIOUS
  <2>0. n \in Nat /\ k \in 1 .. n
    BY <1>1, <1>3
  <2>1. CASE j < k
    <3>1. j \in 1 .. k - 1 /\ j <= k - 1
      BY <2>0, <2>1
    <3> QED
      BY <1>5, <1>7, <2>1, <3>1
  <2>2. CASE ~ (j < k)
    <3>1. ~ (j <= k - 1) /\ j - (k - 1) \in 1 .. n - k /\ (j - (k - 1)) + k = j + 1
      BY <2>0, <2>2
    <3> QED
      BY <1>6, <1>7, <2>2, <3>1
  <2> QED
    BY <2>1, <2>2
<1>9. RemovedAt(a \o b, k)
  <2>1. DOMAIN (a \o b) = 1 .. n - 1
    BY <1>7
  <2> QED
    BY <1>7, <1>8, <2>1 DEF RemovedAt, n
<1> QED
  BY <1>3, <1>4, <1>9 DEF n

LEMMA RemovedRange ==
    ASSUME OrderOK, NEW i \in Range(observers)
    PROVE  Range(Removed(i)) = Range(observers) \ {i}
<1> DEFINE n == Len(observers)
<1>1. n \in Nat /\ DOMAIN observers = 1 .. n
      /\ \A a, b \in DOMAIN observers : observers[a] = observers[b] => a = b
  BY DEF OrderOK
<1>2. PICK k \in 1 .. n : observers[k] = i /\ RemovedAt(Removed(i), k)
  BY RemovedIs DEF OrderOK
<1> DEFINE new == Removed(i)
<1>3. DOMAIN new = 1 .. n - 1
      /\ \A j \in 1 .. n - 1 : new[j] = IF j < k THEN observers[j] ELSE observers[j + 1]
  BY <1>2 DEF RemovedAt
<1> HIDE DEF new, n
<1>4. ASSUME NEW x \in Range(new) PROVE x \in Range(observers) \ {i}
  <2>1. PICK j \in 1 .. n - 1 : x = new[j]
    BY <1>3 DEF Range
  <2>2. j \in 1 .. n /\ j + 1 \in 1 .. n
    BY <1>1
  <2>3. PICK m \in 1 .. n : m # k /\ x = observers[m]
    BY <1>1, <1>3, <2>1, <2>2
  <2> QED
    BY <1>1, <1>2, <2>3 DEF Range
<1>5. ASSUME NEW x \in Range(observers) \ {i} PROVE x \in Range(new)
  <2>1. PICK m \in 1 .. n : x = observers[m] /\ m # k
    BY <1>1, <1>2 DEF Range
  <2> DEFINE j == IF m < k THEN m ELSE m - 1
  <2>2. j \in 1 .. n - 1 /\ (j < k <=> m < k)
    BY <1>1, <1>2, <2>1
  <2>3. new[j] = x
    BY <1>1, <1>2, <1>3, <2>1, <2>2
  <2> HIDE DEF j
  <2> QED
    BY <1>3, <2>2, <2>3 DEF Range
<1>6. Range(new) = Range(observers) \ {i}
  BY <1>4, <1>5
<1> QED
  BY <1>6 DEF new

LEMMA DetachOrder ==
    ASSUME OrderOK, NEW i \in Instrument, Detach(i)
    PROVE  OrderOK' /\ Range(observers)' = Range(observers) \ {i}
<1> DEFINE n == Len(observers)
           m == Len(register)
<1>1. /\ i \in Range(observers) /\ observers' = Removed(i)
      /\ detached' = detached \cup {i} /\ register' = Restored(i)
  BY DEF Detach
<1>2. n \in Nat /\ DOMAIN observers = 1 .. n /\ m \in Nat /\ DOMAIN register = 1 .. m
      /\ register \in Seq(Instrument)
  BY DEF OrderOK
<1>3. PICK k \in 1 .. n : observers[k] = i /\ RemovedAt(observers', k)
  <2>1. observers \in Seq(Instrument)
    BY DEF OrderOK
  <2>2. PICK k \in 1 .. n : observers[k] = i /\ RemovedAt(Removed(i), k)
    BY <1>1, <2>1, RemovedIs
  <2> QED
    BY <1>1, <2>2
<1>4. /\ observers' \in Seq(Instrument) /\ DOMAIN observers' = 1 .. n - 1
      /\ \A j \in 1 .. n - 1 : observers'[j] = IF j < k THEN observers[j] ELSE observers[j + 1]
  BY <1>3 DEF RemovedAt
<1>5. Range(observers)' = Range(observers) \ {i}
  <2>1. Range(observers)' = Range(Removed(i))
    BY <1>1 DEF Range
  <2> QED
    BY <1>1, <2>1, RemovedRange
\* The stack of patches keeps its order and loses i's at most.
<1>6. /\ register' \in Seq(Instrument)
      /\ DOMAIN register' \subseteq DOMAIN register
      /\ \A c \in DOMAIN register' : register'[c] = register[c]
      /\ \A c \in DOMAIN register \ DOMAIN register' : register[c] = i
  <2>1. CASE Last(register) = i
    <3>1. register' = SubSeq(register, 1, m - 1)
      BY <1>1, <2>1 DEF Restored, Front
    <3>2. m # 0
      <4>1. i \in Range(register)
        BY <1>1 DEF OrderOK
      <4> QED
        BY <1>2, <4>1 DEF Range
    <3>3. register[m] = i
      BY <2>1 DEF Last
    <3>4. \A c \in 1 .. m - 1 : register[c] \in Instrument
      BY <1>2
    <3>5. /\ register' \in Seq(Instrument) /\ DOMAIN register' = 1 .. m - 1
          /\ \A c \in 1 .. m - 1 : register'[c] = register[c]
      BY <1>2, <3>1, <3>2, <3>4
    <3>6. m \in Nat
      BY <1>2
    <3> HIDE DEF m
    <3>7. 1 .. m - 1 \subseteq 1 .. m /\ \A c \in 1 .. m : c \in 1 .. m - 1 \/ c = m
      BY <3>6
    <3> QED
      BY <1>2, <3>3, <3>5, <3>7
  <2>2. CASE Last(register) # i
    <3>1. register' = register
      BY <1>1, <2>2 DEF Restored
    <3> QED
      BY <1>2, <3>1
  <2> QED
    BY <2>1, <2>2
<1> HIDE DEF n, m
\* Those that are left stand as they stood.
<1>7. \A a, b \in DOMAIN observers' : \E x, y \in DOMAIN observers :
         observers'[a] = observers[x] /\ observers'[b] = observers[y] /\ (a < b <=> x < y)
         /\ (x = y => a = b)
  <2>1. ASSUME NEW a \in 1 .. n - 1, NEW b \in 1 .. n - 1
        PROVE  \E x, y \in 1 .. n :
                  observers'[a] = observers[x] /\ observers'[b] = observers[y]
                  /\ (a < b <=> x < y) /\ (x = y => a = b)
    <3> DEFINE x == IF a < k THEN a ELSE a + 1
               y == IF b < k THEN b ELSE b + 1
    <3>1. x \in 1 .. n /\ y \in 1 .. n /\ (a < b <=> x < y) /\ (x = y => a = b)
      BY <1>2, <1>3
    <3>2. observers'[a] = observers[x] /\ observers'[b] = observers[y]
      BY <1>4
    <3> HIDE DEF x, y
    <3> QED
      BY <3>1, <3>2
  <2>2. DOMAIN observers' = 1 .. n - 1 /\ DOMAIN observers = 1 .. n
    BY <1>2, <1>4
  <2> QED
    BY <2>1, <2>2
<1>8. \A a, b \in DOMAIN observers' : observers'[a] = observers'[b] => a = b
  BY <1>7 DEF OrderOK
<1>9. \A a, b \in DOMAIN register' : register'[a] = register'[b] => a = b
  BY <1>6 DEF OrderOK
<1>10. Range(register)' \subseteq Range(observers)' \cup detached'
  <2>1. Range(register)' \subseteq Range(register)
    BY <1>6 DEF Range
  <2> QED
    BY <1>1, <1>5, <2>1 DEF OrderOK
<1>11. Range(observers)' \subseteq Range(register)'
  <2> SUFFICES ASSUME NEW j \in Range(observers) \ {i} PROVE j \in Range(register)'
    BY <1>5
  <2>1. PICK c \in DOMAIN register : register[c] = j
    BY DEF OrderOK, Range
  <2> QED
    BY <1>6, <2>1 DEF Range
<1>12. \A a, b \in DOMAIN observers', c, d \in DOMAIN register' :
          register'[c] = observers'[a] /\ register'[d] = observers'[b] => (a < b <=> c < d)
  <2> SUFFICES ASSUME NEW a \in DOMAIN observers', NEW b \in DOMAIN observers',
                      NEW c \in DOMAIN register', NEW d \in DOMAIN register',
                      register'[c] = observers'[a] /\ register'[d] = observers'[b]
               PROVE  a < b <=> c < d
    OBVIOUS
  <2>1. PICK x, y \in DOMAIN observers :
           observers'[a] = observers[x] /\ observers'[b] = observers[y] /\ (a < b <=> x < y)
    BY <1>7
  <2>2. c \in DOMAIN register /\ d \in DOMAIN register
        /\ register[c] = observers[x] /\ register[d] = observers[y]
    BY <1>6, <2>1
  <2>3. x < y <=> c < d
    BY <2>2 DEF OrderOK
  <2> QED
    BY <2>1, <2>3
<1>13. detached' \subseteq Instrument /\ Range(observers)' \cap detached' = {}
  BY <1>1, <1>5 DEF OrderOK
<1> QED
  BY <1>4, <1>5, <1>6, <1>8, <1>9, <1>10, <1>11, <1>12, <1>13 DEF OrderOK

LEMMA AppendedIs ==
    ASSUME NEW S, NEW q \in Seq(S), NEW x \in S
    PROVE  /\ Append(q, x) \in Seq(S) /\ DOMAIN Append(q, x) = DOMAIN q \cup {Len(q) + 1}
           /\ \A k \in DOMAIN q : Append(q, x)[k] = q[k] /\ k \in Nat /\ k <= Len(q)
           /\ Append(q, x)[Len(q) + 1] = x /\ Len(q) \in Nat /\ Len(q) + 1 \notin DOMAIN q
           /\ Range(Append(q, x)) = Range(q) \cup {x}
<1>1. /\ Append(q, x) \in Seq(S) /\ Len(q) \in Nat /\ DOMAIN q = 1 .. Len(q)
      /\ DOMAIN Append(q, x) = 1 .. Len(q) + 1
      /\ \A k \in 1 .. Len(q) : Append(q, x)[k] = q[k]
      /\ Append(q, x)[Len(q) + 1] = x
  OBVIOUS
<1> DEFINE new == Append(q, x)
<1>2. DOMAIN new = DOMAIN q \cup {Len(q) + 1} /\ Len(q) + 1 \notin DOMAIN q
      /\ \A k \in DOMAIN q : k \in Nat /\ k <= Len(q)
  BY <1>1
<1>3. Range(new) = Range(q) \cup {x}
  <2>1. \A k \in DOMAIN q : new[k] = q[k]
    BY <1>1
  <2>2. new[Len(q) + 1] = x
    BY <1>1
  <2> HIDE DEF new
  <2> QED
    BY <1>2, <2>1, <2>2 DEF Range
<1> QED
  BY <1>1, <1>2, <1>3

LEMMA AttachOrder ==
    ASSUME OrderOK, NEW i \in Instrument, Attach(i)
    PROVE  OrderOK' /\ Range(observers)' = Range(observers) \cup {i}
<1> DEFINE n == Len(observers)
           m == Len(register)
<1>1. /\ i \notin Range(observers) \cup detached /\ observers' = Append(observers, i)
      /\ detached' = detached /\ register' = Append(register, i)
  BY DEF Attach
<1>2. /\ observers' \in Seq(Instrument) /\ DOMAIN observers' = DOMAIN observers \cup {n + 1}
      /\ \A k \in DOMAIN observers : observers'[k] = observers[k] /\ k \in Nat /\ k <= n
      /\ observers'[n + 1] = i /\ n \in Nat /\ Range(observers') = Range(observers) \cup {i}
  BY <1>1, AppendedIs DEF OrderOK
<1>3. /\ register' \in Seq(Instrument) /\ DOMAIN register' = DOMAIN register \cup {m + 1}
      /\ \A k \in DOMAIN register : register'[k] = register[k] /\ k \in Nat /\ k <= m
      /\ register'[m + 1] = i /\ m \in Nat /\ Range(register') = Range(register) \cup {i}
  BY <1>1, AppendedIs DEF OrderOK
<1> HIDE DEF n, m
<1>4. Range(observers)' = Range(observers) \cup {i} /\ Range(register)' = Range(register) \cup {i}
  BY <1>2, <1>3 DEF Range
<1>5. \A k \in DOMAIN observers : observers[k] # i
  BY <1>1 DEF Range
<1>6. \A k \in DOMAIN register : register[k] # i
  BY <1>1 DEF OrderOK, Range
<1>7. \A a, b \in DOMAIN observers' : observers'[a] = observers'[b] => a = b
  BY <1>2, <1>5 DEF OrderOK
<1>8. \A a, b \in DOMAIN register' : register'[a] = register'[b] => a = b
  BY <1>3, <1>6 DEF OrderOK
<1>9. \A a, b \in DOMAIN observers', c, d \in DOMAIN register' :
          register'[c] = observers'[a] /\ register'[d] = observers'[b] => (a < b <=> c < d)
  <2> SUFFICES ASSUME NEW a \in DOMAIN observers', NEW b \in DOMAIN observers',
                      NEW c \in DOMAIN register', NEW d \in DOMAIN register',
                      register'[c] = observers'[a] /\ register'[d] = observers'[b]
               PROVE  a < b <=> c < d
    OBVIOUS
  <2>1. (a = n + 1 /\ c = m + 1) \/ (a \in DOMAIN observers /\ c \in DOMAIN register)
    BY <1>2, <1>3, <1>5, <1>6
  <2>2. (b = n + 1 /\ d = m + 1) \/ (b \in DOMAIN observers /\ d \in DOMAIN register)
    BY <1>2, <1>3, <1>5, <1>6
  <2>3. CASE a \in DOMAIN observers /\ c \in DOMAIN register
             /\ b \in DOMAIN observers /\ d \in DOMAIN register
    <3>1. register[c] = observers[a] /\ register[d] = observers[b]
      BY <1>2, <1>3, <2>3
    <3> QED
      BY <2>3, <3>1 DEF OrderOK
  <2>4. CASE (a = n + 1 /\ c = m + 1) \/ (b = n + 1 /\ d = m + 1)
    BY <1>2, <1>3, <2>1, <2>2, <2>4
  <2> QED
    BY <2>1, <2>2, <2>3, <2>4
<1>10. detached' \subseteq Instrument /\ Range(observers)' \cap detached' = {}
       /\ Range(register)' \subseteq Range(observers)' \cup detached'
       /\ Range(observers)' \subseteq Range(register)'
  BY <1>1, <1>4 DEF OrderOK
<1> QED
  BY <1>2, <1>3, <1>4, <1>7, <1>8, <1>9, <1>10 DEF OrderOK

LEMMA AttachKeeps ==
    ASSUME OtelInv, NEW i \in Instrument, Attach(i), Range(observers)' = Range(observers) \cup {i}
    PROVE  /\ LoopTypes' /\ BodiesOK' /\ RunStatesOK' /\ SpansOK' /\ PairsTold'
           /\ RecordsOK' /\ SpansFormTheRun' /\ LivesOK'
<1>1. /\ ~Attached(i) /\ i \notin detached
      /\ UNCHANGED <<phase, step, body, otel, spans, detached>>
  BY DEF Attach, Attached, loopVars, spanVars
<1>2. \A j : j # i => (Attached(j)' <=> Attached(j))
  BY DEF Attached
<1>3. Attached(i)' /\ \A j : Attached(j) => Attached(j)'
  BY DEF Attached
\* It comes after everything there is.
<1>4. \A s \in DOMAIN spans : s.by # i
  BY <1>1, KindsAre
<1>5. RunSpan(i) \notin DOMAIN spans
  BY <1>4, Names
<1>6. LoopTypes' /\ BodiesOK' /\ PairsTold' /\ RecordsOK' /\ SpansFormTheRun' /\ Running' = Running
  BY <1>1 DEF OtelInv, LoopTypes, BodiesOK, PairsTold, RecordsOK, SpansFormTheRun, Running
<1>7. RunStatesOK'
  <2> SUFFICES ASSUME NEW j \in Instrument PROVE RunStateOK(j)'
    BY DEF RunStatesOK
  <2>1. RunStateOK(j)
    BY DEF OtelInv, RunStatesOK
  <2>2. j = i => otel[j].known = FALSE
    BY <1>1, <2>1 DEF RunStateOK
  <2> QED
    BY <1>1, <1>2, <1>5, <1>6, <2>1, <2>2 DEF RunStateOK
<1>8. SpansOK'
  <2>1. \A s \in DOMAIN spans : FamilyOK(s)'
    BY <1>1, <1>3 DEF OtelInv, SpansOK, FamilyOK, Family
  <2>2. phase' = "idle" => DOMAIN spans' = {}
    BY <1>1 DEF OtelInv, SpansOK
  <2>3. phase' = "stepping" =>
           \A j \in Range(observers)' : RunSpan(j) \in DOMAIN spans' => StepSpan(j, step') \in DOMAIN spans'
    BY <1>1, <1>5 DEF OtelInv, SpansOK
  <2>4. DOMAIN spans' = DOMAIN spans
    BY <1>1
  <2> QED
    BY <2>1, <2>2, <2>3, <2>4 DEF SpansOK
<1>9. LivesOK'
  <2> SUFFICES ASSUME NEW s \in DOMAIN spans PROVE LifeOK(s)'
    BY <1>1 DEF LivesOK
  <2>1. LifeOK(s)
    BY DEF OtelInv, LivesOK
  <2>2. Attached(s.by)' <=> Attached(s.by)
    BY <1>2, <1>4
  <2> QED
    BY <1>1, <2>1, <2>2 DEF LifeOK, PairLife
<1> QED
  BY <1>6, <1>7, <1>8, <1>9

\* What the loop and the instrumentations keep does not depend on the iterators.
LEMMA ApartFromReaders ==
    ASSUME OtelInv, UNCHANGED <<loopVars, spanVars, register, observers, detached>>
    PROVE  /\ LoopTypes' /\ BodiesOK' /\ OrderOK' /\ RunStatesOK' /\ SpansOK' /\ PairsTold'
           /\ RecordsOK' /\ SpansFormTheRun' /\ LivesOK'
<1>1. UNCHANGED <<phase, step, body, otel, spans, register, observers, detached>>
  BY DEF loopVars, spanVars
<1>2. Running' = Running /\ \A j : Attached(j)' <=> Attached(j)
  BY <1>1 DEF Running, Attached
<1>3. LoopTypes' /\ BodiesOK' /\ PairsTold' /\ RecordsOK' /\ SpansFormTheRun'
  BY <1>1 DEF OtelInv, LoopTypes, BodiesOK, PairsTold, RecordsOK, SpansFormTheRun
<1>4. OrderOK'
  BY <1>1 DEF OtelInv, OrderOK, Range
<1>5. RunStatesOK'
  <2> SUFFICES ASSUME NEW j \in Instrument PROVE RunStateOK(j)'
    BY DEF RunStatesOK
  <2>1. RunStateOK(j)
    BY DEF OtelInv, RunStatesOK
  <2> QED
    BY <1>1, <1>2, <2>1 DEF RunStateOK
<1>6. SpansOK'
  <2>1. \A s \in DOMAIN spans : FamilyOK(s)'
    BY <1>1, <1>2 DEF OtelInv, SpansOK, FamilyOK, Family
  <2>2. Range(observers)' = Range(observers)
    BY <1>1 DEF Range
  <2> QED
    BY <1>1, <2>1, <2>2 DEF OtelInv, SpansOK
<1>7. LivesOK'
  <2> SUFFICES ASSUME NEW s \in DOMAIN spans PROVE LifeOK(s)'
    BY <1>1 DEF LivesOK
  <2>1. LifeOK(s)
    BY DEF OtelInv, LivesOK
  <2> QED
    BY <1>1, <1>2, <2>1 DEF LifeOK, PairLife
<1> QED
  BY <1>3, <1>4, <1>5, <1>6, <1>7

LEMMA OrderKept ==
    ASSUME OtelInv, UNCHANGED <<observers, detached, register>>
    PROVE  OrderOK'
<1>1. OrderOK /\ observers' = observers /\ detached' = detached /\ register' = register
  BY DEF OtelInv
<1> QED
  BY <1>1 DEF OrderOK, Range

-----------------------------------------------------------------------------
(***************************************************************************)
(* The stream: the loop emits while the run goes on and settles it once.   *)
(***************************************************************************)
LEMMA ToldIs ==
    ASSUME NEW type \in {"run:start", "step:start", "system:start", "system:end", "system:error",
                         "step:applied", "run:end", "run:reject"},
           NEW n \in 0 .. MaxSteps, NEW p \in Pair \cup {0}
    PROVE  <<E(type, n, p)>> \in Seq(Event)
<1>1. E(type, n, p) \in Event
  BY EventsAreTheRuns DEF E
<1> QED
  BY <1>1

LEMMA StreamSteps ==
    ASSUME OtelInv, Next
    PROVE  [StreamNext]_streamVars /\ SettledOK'
<1>0. 0 \in 0 .. MaxSteps /\ step \in 0 .. MaxSteps /\ MaxSteps \in Nat /\ 0 \in Pair \cup {0}
  BY PairsAreFinite DEF OtelInv, LoopTypes
<1>1. settled = "open" <=> phase # "over"
  BY DEF OtelInv, SettledOK
<1>2. ASSUME NEW s \in Seq(Event), Emit(s), phase # "over", phase' # "over"
      PROVE  [StreamNext]_streamVars /\ SettledOK'
  BY <1>1, <1>2 DEF StreamNext, SettledOK, Emit
<1>3. ASSUME NEW s \in Seq(Event), NEW how \in {"ok", "rejected"}, Settle(s, how),
             phase # "over", phase' = "over"
      PROVE  [StreamNext]_streamVars /\ SettledOK'
  BY <1>1, <1>3 DEF StreamNext, SettledOK, Settle
<1>4. ASSUME UNCHANGED <<streamVars, phase>> PROVE [StreamNext]_streamVars /\ SettledOK'
  BY <1>1, <1>4 DEF streamVars, SettledOK
<1>5. CASE StartRun
  <2>1. <<E("run:start", 0, 0)>> \in Seq(Event)
    BY <1>0, ToldIs
  <2> QED
    BY <1>2, <1>5, <2>1 DEF StartRun
<1>6. CASE StartStep
  <2>1. PICK scheduled \in SUBSET Pair : \E threw \in SUBSET scheduled : Emit(Burst(step', scheduled, threw))
    BY <1>6 DEF StartStep
  <2>2. PICK threw \in SUBSET scheduled : Emit(Burst(step', scheduled, threw))
    BY <2>1
  <2>3. step' \in 0 .. MaxSteps /\ phase = "between" /\ phase' = "stepping"
    BY <1>0, <1>6 DEF StartStep
  <2>4. Burst(step', scheduled, threw) \in Seq(Event)
    BY <2>3, BurstIs
  <2> QED
    BY <1>2, <2>2, <2>3, <2>4
<1>7. CASE ApplyStep
  <2>1. <<E("step:applied", step, 0)>> \in Seq(Event)
    BY <1>0, ToldIs
  <2> QED
    BY <1>2, <1>7, <2>1 DEF ApplyStep
<1>8. CASE EndRun
  <2>1. <<E("step:applied", step, 0)>> \in Seq(Event) /\ <<E("run:end", 0, 0)>> \in Seq(Event)
    BY <1>0, ToldIs
  <2>2. PICK lateCancel \in BOOLEAN :
           Settle((IF lateCancel THEN <<E("step:applied", step, 0)>> ELSE <<>>)
                  \o <<E("run:end", 0, 0)>>, "ok")
    BY <1>8 DEF EndRun
  <2> DEFINE first == <<E("step:applied", step, 0)>>
             last == <<E("run:end", 0, 0)>>
             before == IF lateCancel THEN first ELSE <<>>
  <2> HIDE DEF first, last
  <2>3. before \in Seq(Event)
    BY <2>1 DEF first
  <2> HIDE DEF before
  <2>4. before \o last \in Seq(Event)
    BY <2>1, <2>3 DEF last
  <2>5. Settle(before \o last, "ok")
    BY <2>2 DEF before, first, last
  <2>6. phase # "over" /\ phase' = "over"
    BY <1>8 DEF EndRun
  <2> QED
    BY <1>3, <2>4, <2>5, <2>6
<1>9. CASE RejectRun
  <2>1. <<>> \in Seq(Event)
    OBVIOUS
  <2> QED
    BY <1>3, <1>9, <2>1 DEF RejectRun
<1>10. ASSUME NEW n \in 1 .. MaxSteps, NEW p \in Pair, Timeout(n, p)
       PROVE  [StreamNext]_streamVars /\ SettledOK'
  <2>1. n \in 0 .. MaxSteps /\ phase = "stepping"
    BY <1>0, <1>10, RunningIs DEF Timeout
  <2>2. <<E("system:error", n, p)>> \in Seq(Event)
    BY <2>1, ToldIs
  <2> QED
    BY <1>2, <1>10, <2>1, <2>2 DEF Timeout
<1>11. ASSUME NEW n \in 1 .. MaxSteps, NEW p \in Pair, NEW ok \in BOOLEAN, SettleBody(n, p, ok)
       PROVE  [StreamNext]_streamVars /\ SettledOK'
  <2>1. CASE body[n][p] = "running"
    <3>1. n \in 0 .. MaxSteps /\ phase = "stepping"
      BY <1>0, <2>1, RunningIs
    <3> DEFINE type == IF ok THEN "system:end" ELSE "system:error"
    <3>2. <<E(type, n, p)>> \in Seq(Event)
      <4>1. type \in {"run:start", "step:start", "system:start", "system:end", "system:error",
                      "step:applied", "run:end", "run:reject"}
        OBVIOUS
      <4> HIDE DEF type
      <4> QED
        BY <3>1, <4>1, ToldIs
    <3>3. Emit(<<E(type, n, p)>>) /\ phase' = phase
      BY <1>11, <2>1 DEF SettleBody
    <3> HIDE DEF type
    <3> QED
      BY <1>2, <3>1, <3>2, <3>3
  <2>2. CASE body[n][p] # "running"
    BY <1>4, <1>11, <2>2 DEF SettleBody
  <2> QED
    BY <2>1, <2>2
<1>12. CASE LoopNext
  BY <1>5, <1>6, <1>7, <1>8, <1>9, <1>10, <1>11, <1>12 DEF LoopNext
<1>13. CASE WatcherNext
  BY <1>4, <1>13 DEF WatcherNext, Attach, Detach, loopVars
<1>14. CASE \E r \in Reader : Read(r)
  <2>1. PICK r \in Reader : Iterate(r) /\ phase' = phase
    BY <1>14 DEF Read, loopVars
  <2>2. settled' = settled
    BY <2>1 DEF Iterate, Yield, Finish, Park
  <2> QED
    BY <1>1, <2>1, <2>2 DEF StreamNext, SettledOK
<1> QED
  BY <1>12, <1>13, <1>14 DEF Next

-----------------------------------------------------------------------------
(***************************************************************************)
(* The invariant holds, and what it says.                                  *)
(***************************************************************************)
LEMMA OtelInvInit == Init => OtelInv
<1> SUFFICES ASSUME Init PROVE OtelInv
  OBVIOUS
<1>1. StreamInv /\ SettledOK
  BY InitIInv DEF Init, StreamInit, SettledOK
<1>2. MaxSteps \in Nat /\ 0 \in 0 .. MaxSteps
  BY PairsAreFinite
<1>3. \A n \in 1 .. MaxSteps, p \in Pair : body[n][p] = "none"
  BY DEF Init
<1>4. LoopTypes
  BY <1>2 DEF Init, LoopTypes, Outcome
<1>5. BodiesOK
  BY <1>3 DEF Init, BodiesOK
<1>6. observers = <<>> /\ register = <<>> /\ detached = {} /\ Range(observers) = {} /\ Range(register) = {}
      /\ DOMAIN observers = {} /\ DOMAIN register = {}
  BY DEF Init, Range
<1>7. OrderOK
  BY <1>6 DEF OrderOK
<1>8. DOMAIN spans = {}
  BY DEF Init
<1>9. SpansOK /\ PairsTold /\ RecordsOK /\ SpansFormTheRun /\ LivesOK
  <2>1. \A i, n : StepSpan(i, n) \notin DOMAIN spans
    BY <1>8
  <2> QED
    BY <1>6, <1>8, <2>1 DEF Init, SpansOK, PairsTold, RecordsOK, SpansFormTheRun, LivesOK
<1>10. RunStatesOK
  <2> SUFFICES ASSUME NEW i \in Instrument PROVE RunStateOK(i)
    BY DEF RunStatesOK
  <2>1. otel[i] = [known |-> FALSE, step |-> NoSpan, open |-> NoRun.open] /\ DOMAIN NoRun.open = {}
    BY NewKnown DEF Init
  <2>2. phase = "idle" /\ ~Attached(i)
    BY <1>6 DEF Init, Attached
  <2> QED
    BY <2>1, <2>2 DEF RunStateOK
<1> QED
  BY <1>1, <1>4, <1>5, <1>7, <1>9, <1>10 DEF OtelInv

LEMMA OtelInvStep == OtelInv /\ [Next]_vars => OtelInv'
<1> DEFINE Rest == /\ LoopTypes /\ BodiesOK /\ RunStatesOK /\ SpansOK /\ PairsTold
                   /\ RecordsOK /\ SpansFormTheRun /\ LivesOK
<1> SUFFICES ASSUME OtelInv, [Next]_vars PROVE OtelInv'
  OBVIOUS
<1>1. CASE UNCHANGED vars
  <2>1. UNCHANGED <<loopVars, spanVars, register, observers, detached>>
    BY <1>1 DEF vars
  <2>2. StreamInv'
    BY <1>1, StepIInv DEF vars, OtelInv
  <2>3. SettledOK'
    BY <1>1 DEF vars, streamVars, loopVars, OtelInv, SettledOK
  <2> QED
    BY <2>1, <2>2, <2>3, ApartFromReaders DEF OtelInv
<1>2. CASE Next
  <2>1. StreamInv' /\ SettledOK'
    BY <1>2, StreamSteps, StepIInv DEF OtelInv
  <2>2. CASE LoopNext
    <3>1. UNCHANGED <<observers, detached, register>>
      BY <2>2 DEF LoopNext, StartRun, StartStep, ApplyStep, EndRun, RejectRun, Timeout, SettleBody
    <3>2. Rest'
      BY <2>2, StartRunKeeps, StartStepKeeps, ApplyStepKeeps, EndRunKeeps, RejectRunKeeps,
         TimeoutKeeps, SettleBodyKeeps DEF LoopNext
    <3> QED
      BY <2>1, <3>1, <3>2, OrderKept DEF OtelInv
  <2>3. CASE WatcherNext
    <3>1. PICK i \in Instrument : Attach(i) \/ Detach(i)
      BY <2>3 DEF WatcherNext
    <3>2. OrderOK
      BY DEF OtelInv
    <3>3. OrderOK' /\ Rest'
      BY <3>1, <3>2, AttachOrder, DetachOrder, AttachKeeps, DetachKeeps
    <3> QED
      BY <2>1, <3>3 DEF OtelInv
  <2>4. CASE \E r \in Reader : Read(r)
    <3>1. UNCHANGED <<loopVars, spanVars, register, observers, detached>>
      BY <2>4 DEF Read
    <3> QED
      BY <2>1, <3>1, ApartFromReaders DEF OtelInv
  <2> QED
    BY <1>2, <2>2, <2>3, <2>4 DEF Next
<1> QED
  BY <1>1, <1>2

LEMMA OtelInvHolds == Spec => []OtelInv
<1>1. Init => OtelInv
  BY OtelInvInit
<1>2. OtelInv /\ [Next]_vars => OtelInv'
  BY OtelInvStep
<1> QED
  BY <1>1, <1>2, PTL DEF Spec

LEMMA InvSays == OtelInv => SpansAreTrue
<1> SUFFICES ASSUME OtelInv PROVE SpansAreTrue
  OBVIOUS
<1>0. step \in 0 .. MaxSteps /\ MaxSteps \in Nat /\ phase \in {"idle", "between", "stepping", "over"}
  BY PairsAreFinite DEF OtelInv, LoopTypes
<1>1. NoLostWakeup /\ StreamTypeOK /\ SpansFormTheRun
  BY DEF OtelInv, StreamInv
<1>2. \A s \in DOMAIN spans : spans[s].ends \in 0 .. 2 /\ spans[s] \in SpanRecord /\ LifeOK(s)
  <2> SUFFICES ASSUME NEW s \in DOMAIN spans
               PROVE  spans[s].ends \in 0 .. 2 /\ spans[s] \in SpanRecord /\ LifeOK(s)
    OBVIOUS
  <2>1. spans[s] \in SpanRecord /\ LifeOK(s)
    BY DEF OtelInv, RecordsOK, LivesOK
  <2>2. s.kind \in {"run", "step", "system"}
    BY KindsAre
  <2>3. spans[s].ends \in 0 .. 2
    BY <2>1, <2>2 DEF LifeOK, PairLife
  <2> QED
    BY <2>1, <2>3
<1>3. TypeOK
  <2>1. \A s \in DOMAIN spans : s \in SpanId
    <3> SUFFICES ASSUME NEW s \in DOMAIN spans PROVE s \in SpanId
      OBVIOUS
    <3>1. \/ s = RunSpan(s.by)
          \/ s = StepSpan(s.by, s.step) /\ s.step \in 0 .. MaxSteps
          \/ s = SystemSpan(s.by, s.step, s.of) /\ s.step \in 0 .. MaxSteps /\ s.of \in Pair
      BY <1>0, KindsAre
    <3>2. s.by \in Instrument
      BY KindsAre
    <3> QED
      BY <3>1, <3>2, NameTypes
  <2>2. \A i \in Instrument : /\ otel[i].known \in BOOLEAN /\ otel[i].step \in SpanId
                              /\ DOMAIN otel[i].open \subseteq Pair
    <3> SUFFICES ASSUME NEW i \in Instrument
                 PROVE  /\ otel[i].known \in BOOLEAN /\ otel[i].step \in SpanId
                        /\ DOMAIN otel[i].open \subseteq Pair
      OBVIOUS
    <3>1. RunStateOK(i)
      BY DEF OtelInv, RunStatesOK
    <3>2. otel[i].step \in SpanId
      BY <1>0, <3>1, NameTypes DEF RunStateOK
    <3> QED
      BY <3>1, <3>2 DEF RunStateOK, Running
  <2>3. Range(observers) \subseteq Instrument \ detached /\ detached \subseteq Instrument
        /\ Range(register) \subseteq Instrument
    <3>1. Range(observers) \subseteq Instrument /\ Range(register) \subseteq Instrument
      BY DEF OtelInv, OrderOK, Range
    <3> QED
      BY <3>1 DEF OtelInv, OrderOK
  <2>4. \A s \in DOMAIN spans : spans[s].parent \in SpanId /\ spans[s].error \in BOOLEAN
    BY <1>2 DEF SpanRecord
  <2>5. LoopTypes
    BY DEF OtelInv
  <2> QED
    BY <1>1, <1>2, <2>1, <2>2, <2>3, <2>4, <2>5 DEF TypeOK, LoopTypes
<1>4. SpanLife /\ EndedOnce
  <2>1. ASSUME NEW s \in DOMAIN spans
        PROVE  /\ LET open == spans[s].ends = 0 IN
                  CASE s.kind = "run" -> open <=> Attached(s.by) /\ phase # "over"
                    [] s.kind = "step" -> open <=> Attached(s.by) /\ phase = "stepping" /\ s.step = step
                    [] s.kind = "system" ->
                          /\ open => body[s.step][s.of] = "late" \/ Attached(s.by)
                          /\ Attached(s.by) /\ open => body[s.step][s.of] \in {"running", "late"}
                          /\ Attached(s.by) /\ body[s.step][s.of] = "running" => open
               /\ spans[s].ends > 1 => s.kind = "system" /\ s.by \in detached
    <3>1. LifeOK(s) /\ spans[s].ends \in 0 .. 2
      BY <1>2
    <3>2. s.kind \in {"run", "step", "system"} /\ (Attached(s.by) \/ s.by \in detached)
      BY KindsAre
    <3>3. CASE s.kind = "run"
      BY <3>1, <3>2, <3>3 DEF LifeOK
    <3>4. CASE s.kind = "step"
      BY <3>1, <3>2, <3>4 DEF LifeOK
    <3>5. CASE s.kind = "system"
      BY <3>1, <3>2, <3>5 DEF LifeOK, PairLife
    <3> QED
      BY <3>2, <3>3, <3>4, <3>5
  <2> QED
    BY <2>1 DEF SpanLife, EndedOnce
<1>5. ErrorsTold
  <2> SUFFICES ASSUME NEW n \in 1 .. MaxSteps, NEW p \in Pair, NEW i \in Range(observers)
               PROVE  LET s == SystemSpan(i, n, p) IN
                      /\ s \in DOMAIN spans =>
                            (spans[s].error <=> body[n][p] \in {"guard", "failed", "lateFailed"})
                      /\ body[n][p] # "none" /\ StepSpan(i, n) \in DOMAIN spans => s \in DOMAIN spans
    BY DEF ErrorsTold
  <2> DEFINE s == SystemSpan(i, n, p)
  <2>1. s.by = i /\ s.step = n /\ s.of = p /\ s.kind = "system" /\ Attached(i) /\ i \in Instrument
    BY Names, StateIs DEF Attached
  <2>2. body[n][p] # "none" /\ StepSpan(i, n) \in DOMAIN spans => s \in DOMAIN spans
    BY <2>1 DEF OtelInv, PairsTold
  <2> HIDE DEF s
  <2>3. s \in DOMAIN spans => (spans[s].error <=> body[n][p] \in {"guard", "failed", "lateFailed"})
    BY <1>2, <2>1 DEF LifeOK, PairLife
  <2> QED
    BY <2>2, <2>3 DEF s
<1>6. PatchesHold
  <2>1. Len(register) \in Nat
    BY DEF OtelInv, OrderOK
  <2>2. Wraps <= 1
    BY <2>1, WrapsIs
  <2> QED
    BY <2>2 DEF OtelInv, OrderOK, PatchesHold
<1> QED
  BY <1>1, <1>3, <1>4, <1>5, <1>6 DEF SpansAreTrue

\* The exported spans tell the run as it went, for any pairs, steps and
\* instrumentations: their tree, when they end, which failures of guards and bodies
\* they carry, through deadlines (whose own failure is on none), late bodies and
\* observers that come and go; no model is wrapped twice; and no iterator of the run
\* misses its wake-up (instrument-world.ts, events.ts, world.ts).
THEOREM ExportedSpansAreTrue == Spec => []SpansAreTrue
<1>1. OtelInv => SpansAreTrue
  BY InvSays
<1> QED
  BY <1>1, OtelInvHolds, PTL

\* The loop of a run, with all it emits and as it settles, is one of those the
\* handle was proved about: the iterators of a run read it as an event log.
THEOREM RunRefinesLog == Spec => StreamIsLog
<1>1. Init => Log!Init
  BY InitRefines DEF Init
<1>2. OtelInv /\ [Next]_vars => [Log!Next]_Log!vars
  <2> SUFFICES ASSUME OtelInv, [Next]_vars PROVE [Log!Next]_Log!vars
    OBVIOUS
  <2>1. [StreamNext]_streamVars
    BY StreamSteps DEF vars
  <2> QED
    BY <2>1, StepRefines DEF OtelInv
<1> QED
  BY <1>1, <1>2, OtelInvHolds, PTL DEF Spec, StreamIsLog, Log!Spec

-----------------------------------------------------------------------------
(***************************************************************************)
(* The trace tab: what an order keeps, the rows of a list of spans, the    *)
(* traces of a list, and the list the exporter has sent.                   *)
(***************************************************************************)
\* A list in order has every position of S once, and none before an earlier one.
LEMMA InOrderIs ==
    ASSUME NEW S \in SUBSET Nat, IsFiniteSet(S), NEW key \in [S -> Int]
    PROVE  LET order == InOrder(S, key) IN
           /\ Cardinality(S) \in Nat /\ order \in [1 .. Cardinality(S) -> S]
           /\ \A k, l \in 1 .. Cardinality(S) : order[k] = order[l] => k = l
           /\ \A i \in S : \E k \in 1 .. Cardinality(S) : order[k] = i
           /\ \A k, l \in 1 .. Cardinality(S) : k < l => Earlier(order[k], order[l], key)
<1> DEFINE N == Cardinality(S)
           P(i) == {j \in S : Earlier(j, i, key)}
           rank == [i \in S |-> Cardinality(P(i))]
           order == InOrder(S, key)
<1>1. N \in Nat
  BY FS_CardinalityType
<1>2. ASSUME NEW i \in S
      PROVE  IsFiniteSet(P(i)) /\ Cardinality(P(i)) \in 0 .. N - 1
  <2>1. P(i) \in SUBSET (S \ {i})
    BY DEF Earlier
  <2>2. IsFiniteSet(S \ {i}) /\ Cardinality(S \ {i}) = N - 1
    BY FS_RemoveElement
  <2> HIDE DEF P, N
  <2>3. IsFiniteSet(P(i)) /\ Cardinality(P(i)) <= N - 1
    BY <2>1, <2>2, FS_Subset
  <2> QED BY <1>1, <2>3, FS_CardinalityType
<1>3. ASSUME NEW i \in S, NEW j \in S, Earlier(i, j, key)
      PROVE  rank[i] < rank[j]
  <2>1. P(i) \cup {i} \in SUBSET P(j) /\ i \notin P(i)
    <3>1. i \in P(j) /\ i \notin P(i)
      BY <1>3 DEF Earlier
    <3>2. ASSUME NEW h \in P(i) PROVE h \in P(j)
      <4>1. key[h] \in Int /\ key[i] \in Int /\ key[j] \in Int /\ h \in Nat /\ i \in Nat /\ j \in Nat
            /\ h \in S /\ Earlier(h, i, key)
        BY <3>2
      <4>2. Earlier(h, j, key)
        BY <1>3, <4>1 DEF Earlier
      <4> QED BY <4>1, <4>2
    <3> HIDE DEF P
    <3> QED BY <3>1, <3>2
  <2>2. /\ IsFiniteSet(P(i)) /\ Cardinality(P(i)) \in Nat
        /\ IsFiniteSet(P(j)) /\ Cardinality(P(j)) \in Nat
        /\ rank[i] = Cardinality(P(i)) /\ rank[j] = Cardinality(P(j))
    BY <1>1, <1>2
  <2> HIDE DEF P, rank
  <2>3. Cardinality(P(i) \cup {i}) = Cardinality(P(i)) + 1
    BY <2>1, <2>2, FS_AddElement
  <2>4. Cardinality(P(i) \cup {i}) <= Cardinality(P(j))
    BY <2>1, <2>2, FS_Subset
  <2> QED BY <2>2, <2>3, <2>4
<1>4. \A i, j \in S : i = j \/ Earlier(i, j, key) \/ Earlier(j, i, key)
  BY DEF Earlier
<1>5. rank \in [S -> 0 .. N - 1]
  <2> HIDE DEF P, N
  <2> QED BY <1>2
<1> DEFINE Ks == 0 .. N - 1
<1>6. IsFiniteSet(Ks) /\ Cardinality(Ks) = N
  <2> HIDE DEF N
  <2> QED BY <1>1, FS_Interval
<1>7. \A i, j \in S : rank[i] = rank[j] => i = j
  <2> SUFFICES ASSUME NEW i \in S, NEW j \in S, rank[i] = rank[j] PROVE i = j
    OBVIOUS
  <2> HIDE DEF rank
  <2>1. rank[i] \in Int /\ rank[j] \in Int
    BY <1>1, <1>5
  <2> QED BY <1>3, <1>4, <2>1
<1>8. rank \in Surjection(S, Ks)
  <2>1. rank \in Injection(S, Ks)
    <3> HIDE DEF rank
    <3> QED BY <1>5, <1>7 DEF Injection, IsInjective
  <2> HIDE DEF rank, Ks, N
  <2> QED BY <1>6, <2>1, FS_Injection DEF N
<1>9. \A k \in 0 .. N - 1 : \E i \in S : rank[i] = k
  <2> HIDE DEF rank, N
  <2> QED BY <1>8 DEF Surjection
<1>10. order = [k \in 1 .. N |-> CHOOSE i \in S : rank[i] = k - 1]
  BY DEF InOrder
<1> HIDE DEF rank, N, order, P
<1>11. \A k \in 1 .. N : order[k] \in S /\ rank[order[k]] = k - 1
  <2> SUFFICES ASSUME NEW k \in 1 .. N PROVE order[k] \in S /\ rank[order[k]] = k - 1
    OBVIOUS
  <2>1. k - 1 \in 0 .. N - 1
    BY <1>1
  <2>2. order[k] = CHOOSE i \in S : rank[i] = k - 1
    BY <1>10
  <2> QED BY <1>9, <2>1, <2>2
<1>12. order \in [1 .. N -> S] /\ \A k, l \in 1 .. N : order[k] = order[l] => k = l
  <2>1. \A k, l \in 1 .. N : order[k] = order[l] => k = l
    BY <1>1, <1>11
  <2> QED BY <1>10, <1>11, <2>1
<1>13. ASSUME NEW i \in S PROVE \E k \in 1 .. N : order[k] = i
  <2>1. rank[i] + 1 \in 1 .. N /\ rank[i] = (rank[i] + 1) - 1
    BY <1>1, <1>5
  <2> QED BY <1>7, <1>11, <2>1
<1>14. ASSUME NEW k \in 1 .. N, NEW l \in 1 .. N, k < l
       PROVE  Earlier(order[k], order[l], key)
  <2>1. rank[order[k]] = k - 1 /\ rank[order[l]] = l - 1 /\ order[k] \in S /\ order[l] \in S
    BY <1>11
  <2>2. order[k] # order[l]
    BY <1>1, <1>14, <2>1
  <2>3. ~Earlier(order[l], order[k], key)
    <3> SUFFICES ASSUME Earlier(order[l], order[k], key) PROVE FALSE
      OBVIOUS
    <3>1. rank[order[l]] < rank[order[k]]
      BY <1>3, <2>1
    <3> QED BY <1>1, <1>14, <2>1, <3>1
  <2> QED BY <1>4, <2>1, <2>2, <2>3
<1> QED BY <1>1, <1>12, <1>13, <1>14 DEF N, order

-----------------------------------------------------------------------------
Row(sent) == [at : DOMAIN sent, depth : Nat]
Timed(sent) == \A i \in DOMAIN sent : sent[i].start \in Int

LEMMA PlacesIs ==
    ASSUME NEW M, NEW sent \in Seq(M)
    PROVE  /\ Len(sent) \in Nat /\ DOMAIN sent = 1 .. Len(sent)
           /\ DOMAIN sent \in SUBSET Nat /\ IsFiniteSet(DOMAIN sent)
           /\ Cardinality(DOMAIN sent) = Len(sent)
<1>1. Len(sent) \in Nat /\ DOMAIN sent = 1 .. Len(sent)
  OBVIOUS
<1>2. IsFiniteSet(1 .. Len(sent)) /\ Cardinality(1 .. Len(sent)) = Len(sent)
  BY <1>1, FS_Interval
<1> QED BY <1>1, <1>2

Places(sent) == SUBSET DOMAIN sent

LEMMA SortedRowsAre ==
    ASSUME NEW M, NEW sent \in Seq(M), Timed(sent), NEW S, S \in Places(sent),
           NEW d \in Nat, NEW list, list = AtDepth(ByStart(S, sent), d)
    PROVE  /\ list \in Seq(Row(sent)) /\ Len(list) \in 0 .. Len(sent)
           /\ \A k \in 1 .. Len(list) : list[k].at \in S /\ list[k].depth = d
           /\ \A i \in S : \E k \in 1 .. Len(list) : list[k].at = i
<1> DEFINE key == [i \in S |-> sent[i].start]
           order == InOrder(S, key)
           n == Cardinality(S)
<1>1. IsFiniteSet(S) /\ n <= Len(sent) /\ n \in Nat /\ Len(sent) \in Nat /\ S \in SUBSET Nat
  <2>1. IsFiniteSet(DOMAIN sent) /\ Cardinality(DOMAIN sent) = Len(sent) /\ Len(sent) \in Nat
        /\ DOMAIN sent \in SUBSET Nat
    BY PlacesIs
  <2>2. IsFiniteSet(S) /\ Cardinality(S) <= Len(sent)
    BY <2>1, FS_Subset DEF Places
  <2> QED BY <2>1, <2>2, FS_CardinalityType DEF Places
<1>2. key \in [S -> Int]
  BY DEF Timed, Places
<1>3. /\ order \in [1 .. n -> S] /\ \A i \in S : \E k \in 1 .. n : order[k] = i
  <2> HIDE DEF key
  <2> QED BY <1>1, <1>2, InOrderIs
<1>4. list = [k \in DOMAIN order |-> [at |-> order[k], depth |-> d]]
  BY DEF AtDepth, ByStart
<1> HIDE DEF order, n
<1>5. DOMAIN list = 1 .. n /\ \A k \in 1 .. n : list[k].at = order[k] /\ list[k].depth = d /\ list[k] \in Row(sent)
  BY <1>3, <1>4 DEF Row, Places
<1>6. list = [k \in 1 .. n |-> list[k]]
  <2>1. list = [k \in DOMAIN order |-> [at |-> order[k], depth |-> d]]
    BY <1>4
  <2> QED BY <1>5, <2>1
<1>7. list \in Seq(Row(sent)) /\ Len(list) = n
  BY <1>1, <1>5, <1>6
<1> QED BY <1>1, <1>3, <1>4, <1>5, <1>7

LEMMA ChildrenAre ==
    ASSUME NEW M, NEW sent \in Seq(M), Timed(sent), NEW x \in Row(sent)
    PROVE  LET more == Children(x, sent) IN
           /\ more \in Seq(Row(sent)) /\ Len(more) \in 0 .. Len(sent)
           /\ \A k \in 1 .. Len(more) : more[k].at \in DOMAIN sent
                                        /\ IsChild(more[k].at, x.at, sent)
                                        /\ more[k].depth = x.depth + 1
           /\ \A i \in DOMAIN sent : IsChild(i, x.at, sent) =>
                 \E k \in 1 .. Len(more) : more[k].at = i
<1> DEFINE S == {i \in DOMAIN sent : IsChild(i, x.at, sent)}
           d == x.depth + 1
           list == AtDepth(ByStart(S, sent), d)
<1>1. S \in Places(sent) /\ d \in Nat /\ list = AtDepth(ByStart(S, sent), d)
  BY DEF Row, Places
<1>2. /\ list \in Seq(Row(sent)) /\ Len(list) \in 0 .. Len(sent)
      /\ \A k \in 1 .. Len(list) : list[k].at \in S /\ list[k].depth = d
      /\ \A i \in S : \E k \in 1 .. Len(list) : list[k].at = i
  <2> HIDE DEF S, d, list
  <2> QED BY <1>1, SortedRowsAre, Z3
<1>3. Children(x, sent) = list
  BY DEF Children
<1> HIDE DEF list
<1> QED BY <1>2, <1>3

LEMMA TailIs ==
    ASSUME NEW M, NEW q \in Seq(M), q # <<>>
    PROVE  /\ Head(q) = q[1] /\ Head(q) \in M /\ Tail(q) \in Seq(M)
           /\ Len(q) \in Nat \ {0} /\ Len(Tail(q)) = Len(q) - 1
           /\ \A k \in 1 .. Len(Tail(q)) : Tail(q)[k] = q[k + 1]
  OBVIOUS

LEMMA JoinIs ==
    ASSUME NEW M, NEW a \in Seq(M), NEW b \in Seq(M)
    PROVE  /\ a \o b \in Seq(M) /\ Len(a \o b) = Len(a) + Len(b)
           /\ DOMAIN (a \o b) = 1 .. (Len(a) + Len(b)) /\ Len(a) \in Nat /\ Len(b) \in Nat
           /\ \A k \in 1 .. Len(a) : (a \o b)[k] = a[k]
           /\ \A k \in 1 .. Len(b) : (a \o b)[Len(a) + k] = b[k]
           /\ \A k \in 1 .. Len(a) + Len(b) : k \in 1 .. Len(a) \/ (k - Len(a) \in 1 .. Len(b) /\ Len(a) + (k - Len(a)) = k)
<1>1. /\ a \o b \in Seq(M) /\ Len(a \o b) = Len(a) + Len(b) /\ Len(a) \in Nat /\ Len(b) \in Nat
      /\ DOMAIN (a \o b) = 1 .. (Len(a) + Len(b))
      /\ \A i \in 1 .. Len(a) : (a \o b)[i] = a[i]
  OBVIOUS
<1>2. \A i \in 1 .. Len(b) : (a \o b)[Len(a) + i] = b[i]
  BY <1>1
<1> QED BY <1>1, <1>2

-----------------------------------------------------------------------------
Seen(rows) == {rows[k].at : k \in DOMAIN rows}

\* Below the row at j hangs a child at depth d, if it comes next.
Above(rows, j, row, sent) ==
    /\ sent[rows[j].at].spanId = sent[row.at].parentSpanId
    /\ rows[j].depth = row.depth - 1
Hangs(rows, row, sent) ==
    row.depth > 0 =>
        \E j \in DOMAIN rows :
            /\ Above(rows, j, row, sent)
            /\ \A l \in DOMAIN rows : l > j => rows[l].depth > rows[j].depth

TreeOK(rows, sent) ==
    \A k \in DOMAIN rows : rows[k].depth > 0 =>
        \E j \in 1 .. k - 1 :
            Above(rows, j, rows[k], sent) /\ \A l \in j + 1 .. k : rows[l].depth > rows[j].depth

WalkOK(rows, left, sent) ==
    /\ rows \in Seq(Row(sent)) /\ left \in Seq(Row(sent))
    /\ \A k, l \in DOMAIN rows : rows[k].at = rows[l].at => k = l
    /\ \A i \in DOMAIN sent : i \in Seen(rows) \/ i \in Seen(left)
    /\ TreeOK(rows, sent)
    /\ \A m \in DOMAIN left : Hangs(rows, left[m], sent)
    /\ \A l, m \in DOMAIN left : l < m => left[l].depth >= left[m].depth

LEMMA RowsBounded ==
    ASSUME NEW M, NEW sent \in Seq(M), NEW rows \in Seq(Row(sent)),
           \A k, l \in DOMAIN rows : rows[k].at = rows[l].at => k = l
    PROVE  Len(rows) \in 0 .. Len(sent)
<1> DEFINE n == Len(rows)
           f == [k \in 1 .. n |-> rows[k].at]
<1>1. /\ n \in Nat /\ DOMAIN rows = 1 .. n
      /\ \A k \in 1 .. n : rows[k].at \in DOMAIN sent
  <2>1. n \in Nat /\ DOMAIN rows = 1 .. n /\ \A k \in 1 .. n : rows[k] \in Row(sent)
    OBVIOUS
  <2> QED BY <2>1 DEF Row
<1>2. f \in Injection(1 .. n, DOMAIN sent)
  <2>1. f \in [1 .. n -> DOMAIN sent] /\ \A k, l \in 1 .. n : f[k] = f[l] => k = l
    BY <1>1
  <2> HIDE DEF f
  <2> QED BY <2>1 DEF Injection, IsInjective
<1>3. IsFiniteSet(DOMAIN sent) /\ Cardinality(DOMAIN sent) = Len(sent) /\ Len(sent) \in Nat
  BY PlacesIs
<1>4. Cardinality(1 .. n) = n
  <2> HIDE DEF n
  <2> QED BY <1>1, FS_Interval
<1> HIDE DEF f, n
<1>5. Cardinality(1 .. n) <= Cardinality(DOMAIN sent)
  BY <1>2, <1>3, FS_Injection
<1> QED BY <1>1, <1>3, <1>4, <1>5 DEF n

\* A span that has a row already is passed over.
LEMMA PassKeeps ==
    ASSUME NEW M, NEW sent \in Seq(M), NEW rows, NEW left, WalkOK(rows, left, sent),
           left # <<>>, Head(left).at \in Seen(rows)
    PROVE  WalkOK(rows, Tail(left), sent)
<1> DEFINE R == Row(sent)
           rest == Tail(left)
<1>1. left \in Seq(R)
  BY DEF WalkOK
<1>2. /\ Head(left) = left[1] /\ rest \in Seq(R) /\ Len(left) \in Nat \ {0}
      /\ Len(rest) = Len(left) - 1 /\ \A k \in 1 .. Len(rest) : rest[k] = left[k + 1]
  <2> HIDE DEF R
  <2> QED BY <1>1, TailIs
<1>3. DOMAIN left = 1 .. Len(left) /\ DOMAIN rest = 1 .. Len(rest)
  BY <1>1, <1>2
<1> HIDE DEF R, rest
<1>4. \A k \in DOMAIN rest : k + 1 \in DOMAIN left /\ rest[k] = left[k + 1] /\ k \in Nat
  BY <1>2, <1>3
<1>5. \A m \in DOMAIN left : m = 1 \/ (m - 1 \in DOMAIN rest /\ rest[m - 1] = left[m])
  BY <1>2, <1>3
<1>6. \A i \in DOMAIN sent : i \in Seen(rows) \/ i \in Seen(rest)
  <2> SUFFICES ASSUME NEW i \in DOMAIN sent, i \notin Seen(rows) PROVE i \in Seen(rest)
    OBVIOUS
  <2>1. PICK m \in DOMAIN left : left[m].at = i
    BY DEF WalkOK, Seen
  <2>2. m # 1
    BY <1>2, <2>1
  <2> QED BY <1>5, <2>1, <2>2 DEF Seen
<1>7. \A m \in DOMAIN rest : Hangs(rows, rest[m], sent)
  BY <1>4 DEF WalkOK
<1>8. \A l, m \in DOMAIN rest : l < m => rest[l].depth >= rest[m].depth
  <2> SUFFICES ASSUME NEW l \in DOMAIN rest, NEW m \in DOMAIN rest, l < m
               PROVE  rest[l].depth >= rest[m].depth
    OBVIOUS
  <2>1. l + 1 < m + 1
    BY <1>4
  <2> QED BY <1>4, <2>1 DEF WalkOK
<1> QED BY <1>2, <1>6, <1>7, <1>8 DEF WalkOK, R, rest

\* One that has none gets the next row, and its children come before what was left.
LEMMA RowKeeps ==
    ASSUME NEW M, NEW sent \in Seq(M), Timed(sent), NEW rows, NEW left,
           WalkOK(rows, left, sent), left # <<>>, Head(left).at \notin Seen(rows)
    PROVE  /\ WalkOK(Append(rows, Head(left)), Children(Head(left), sent) \o Tail(left), sent)
           /\ Len(Children(Head(left), sent) \o Tail(left)) < Len(left) + Len(sent)
<1> DEFINE R == Row(sent)
           rest == Tail(left)
           x == Head(left)
           more == Children(x, sent)
           new == Append(rows, x)
           next == more \o rest
           n == Len(rows)
<1>1. left \in Seq(R) /\ rows \in Seq(R)
  BY DEF WalkOK
<1>2. /\ x = left[1] /\ x \in R /\ rest \in Seq(R) /\ Len(left) \in Nat \ {0}
      /\ Len(rest) = Len(left) - 1 /\ \A k \in 1 .. Len(rest) : rest[k] = left[k + 1]
  <2> HIDE DEF R
  <2> QED BY <1>1, TailIs
<1>3. DOMAIN left = 1 .. Len(left) /\ DOMAIN rest = 1 .. Len(rest)
  BY <1>1, <1>2
<1>4. /\ new \in Seq(R) /\ n \in Nat /\ DOMAIN new = 1 .. n + 1 /\ DOMAIN rows = 1 .. n
      /\ \A k \in 1 .. n : new[k] = rows[k]
      /\ new[n + 1] = x
  <2> HIDE DEF R, x
  <2> QED BY <1>1, <1>2
<1>5. x.at \in DOMAIN sent /\ x.depth \in Nat
  BY <1>2 DEF Row
<1>6. /\ more \in Seq(R) /\ Len(more) \in 0 .. Len(sent)
      /\ \A k \in 1 .. Len(more) : more[k].at \in DOMAIN sent
                                   /\ IsChild(more[k].at, x.at, sent) /\ more[k].depth = x.depth + 1
      /\ \A i \in DOMAIN sent : IsChild(i, x.at, sent) => \E k \in 1 .. Len(more) : more[k].at = i
  <2> HIDE DEF x
  <2> QED BY <1>2, ChildrenAre
<1> DEFINE c == Len(more)
<1>7. /\ next \in Seq(R) /\ Len(next) = c + Len(rest) /\ DOMAIN next = 1 .. (c + Len(rest))
      /\ c \in Nat /\ Len(rest) \in Nat
      /\ \A k \in 1 .. c : next[k] = more[k]
      /\ \A k \in 1 .. Len(rest) : next[c + k] = rest[k]
      /\ \A k \in 1 .. c + Len(rest) : k \in 1 .. c \/ (k - c \in 1 .. Len(rest) /\ c + (k - c) = k)
  <2>1. more \in Seq(R) /\ rest \in Seq(R)
    BY <1>2, <1>6
  <2> HIDE DEF R, rest, more
  <2> QED BY <2>1, JoinIs
<1> HIDE DEF R, rest, x, more, new, next, n, c
<1>8. \A k, l \in DOMAIN new : new[k].at = new[l].at => k = l
  <2>1. \A k \in 1 .. n : rows[k].at # x.at
    BY <1>4 DEF Seen, x
  <2>2. \A k \in DOMAIN new : k = n + 1 \/ k \in 1 .. n
    BY <1>4
  <2> QED BY <1>4, <2>1, <2>2 DEF WalkOK
<1>9. \A i \in DOMAIN sent : i \in Seen(new) \/ i \in Seen(next)
  <2> SUFFICES ASSUME NEW i \in DOMAIN sent, i \notin Seen(new) PROVE i \in Seen(next)
    OBVIOUS
  <2>1. i \notin Seen(rows) /\ i # x.at
    BY <1>4 DEF Seen
  <2>2. PICK m \in DOMAIN left : left[m].at = i
    BY <2>1 DEF WalkOK, Seen
  <2>3. m - 1 \in 1 .. Len(rest) /\ rest[m - 1] = left[m]
    BY <1>2, <1>3, <2>1, <2>2
  <2>4. c + (m - 1) \in DOMAIN next /\ next[c + (m - 1)].at = i
    BY <1>7, <2>2, <2>3
  <2> QED BY <2>4 DEF Seen
<1>10. Hangs(rows, x, sent)
  BY <1>2, <1>3 DEF WalkOK
<1>11. TreeOK(new, sent)
  <2> SUFFICES ASSUME NEW k \in DOMAIN new, new[k].depth > 0
               PROVE  \E j \in 1 .. k - 1 : /\ Above(new, j, new[k], sent)
                                            /\ \A l \in j + 1 .. k : new[l].depth > new[j].depth
    BY DEF TreeOK
  <2>1. CASE k = n + 1
    <3>1. PICK j \in 1 .. n : /\ Above(rows, j, x, sent)
                              /\ \A l \in 1 .. n : l > j => rows[l].depth > rows[j].depth
      BY <1>4, <1>10, <2>1 DEF Hangs
    <3>2. new[j] = rows[j] /\ new[k] = x /\ x.depth > rows[j].depth
      BY <1>4, <1>5, <2>1, <3>1 DEF Above
    <3>3. ASSUME NEW l \in j + 1 .. k PROVE new[l].depth > new[j].depth
      <4>1. CASE l = k
        BY <3>2, <4>1
      <4>2. CASE l # k
        <5>1. l \in 1 .. n /\ l > j /\ new[l] = rows[l]
          BY <1>4, <2>1, <3>1, <4>2
        <5> QED BY <3>1, <3>2, <5>1
      <4> QED BY <4>1, <4>2
    <3>4. j \in 1 .. k - 1 /\ Above(new, j, new[k], sent)
      BY <1>4, <2>1, <3>1, <3>2 DEF Above
    <3> QED BY <3>3, <3>4
  <2>2. CASE k # n + 1
    <3>1. k \in 1 .. n /\ new[k] = rows[k]
      BY <1>4, <2>2
    <3>2. PICK j \in 1 .. k - 1 : /\ Above(rows, j, rows[k], sent)
                                  /\ \A l \in j + 1 .. k : rows[l].depth > rows[j].depth
      BY <1>4, <3>1 DEF WalkOK, TreeOK
    <3>3. j \in 1 .. n /\ new[j] = rows[j] /\ \A l \in j + 1 .. k : new[l] = rows[l]
      BY <1>4, <3>1, <3>2
    <3> QED BY <3>1, <3>2, <3>3 DEF Above
  <2> QED BY <2>1, <2>2
<1>12. \A m \in 1 .. Len(rest) : x.depth >= rest[m].depth /\ rest[m] = left[m + 1] /\ m + 1 \in DOMAIN left
  <2> SUFFICES ASSUME NEW m \in 1 .. Len(rest)
               PROVE  x.depth >= rest[m].depth /\ rest[m] = left[m + 1] /\ m + 1 \in DOMAIN left
    OBVIOUS
  <2>1. 1 \in DOMAIN left /\ m + 1 \in DOMAIN left /\ 1 < m + 1 /\ rest[m] = left[m + 1]
    BY <1>2, <1>3, <1>7
  <2>2. left[1].depth >= left[m + 1].depth
    BY <2>1 DEF WalkOK
  <2> QED BY <1>2, <2>1, <2>2
<1>13. \A m \in DOMAIN next : Hangs(new, next[m], sent)
  <2> SUFFICES ASSUME NEW m \in DOMAIN next, next[m].depth > 0
               PROVE  \E j \in DOMAIN new :
                         /\ Above(new, j, next[m], sent)
                         /\ \A l \in DOMAIN new : l > j => new[l].depth > new[j].depth
    BY DEF Hangs
  <2>1. CASE m \in 1 .. c
    <3>1. next[m] = more[m] /\ IsChild(more[m].at, x.at, sent) /\ more[m].depth = x.depth + 1
      BY <1>6, <1>7, <2>1 DEF c
    <3>2. n + 1 \in DOMAIN new /\ \A l \in DOMAIN new : ~(l > n + 1)
      BY <1>4
    <3>3. Above(new, n + 1, next[m], sent)
      BY <1>4, <1>5, <3>1 DEF Above, IsChild
    <3> QED BY <3>2, <3>3
  <2>2. CASE m - c \in 1 .. Len(rest) /\ next[m] = rest[m - c]
    <3>1. next[m] = left[m - c + 1] /\ m - c + 1 \in DOMAIN left /\ x.depth >= next[m].depth
      BY <1>12, <2>2
    <3>2. next[m] \in R
      BY <1>1, <1>3, <3>1
    <3>3. PICK j \in DOMAIN rows :
             /\ Above(rows, j, next[m], sent)
             /\ \A l \in DOMAIN rows : l > j => rows[l].depth > rows[j].depth
      BY <3>1 DEF WalkOK, Hangs
    <3>4. j \in 1 .. n /\ new[j] = rows[j] /\ rows[j].depth = next[m].depth - 1 /\ next[m].depth \in Nat
      BY <1>4, <3>2, <3>3 DEF Above, R, Row
    <3>5. x.depth > rows[j].depth
      BY <1>5, <3>1, <3>4
    <3>6. \A l \in DOMAIN new : l > j => new[l].depth > new[j].depth
      <4>1. \A l \in DOMAIN new : l = n + 1 \/ l \in 1 .. n
        BY <1>4
      <4> QED BY <1>4, <3>3, <3>4, <3>5, <4>1
    <3>7. Above(new, j, next[m], sent) /\ j \in DOMAIN new
      BY <1>4, <3>3, <3>4 DEF Above
    <3> QED BY <3>6, <3>7
  <2>3. m \in 1 .. c \/ (m - c \in 1 .. Len(rest) /\ next[m] = rest[m - c])
    BY <1>7
  <2> QED BY <2>1, <2>2, <2>3
<1>14. \A l, m \in DOMAIN next : l < m => next[l].depth >= next[m].depth
  <2> SUFFICES ASSUME NEW l \in DOMAIN next, NEW m \in DOMAIN next, l < m
               PROVE  next[l].depth >= next[m].depth
    OBVIOUS
  <2>1. l \in Nat /\ m \in Nat
    BY <1>7
  <2>2. \A k \in DOMAIN next : \/ k \in 1 .. c /\ next[k].depth = x.depth + 1
                               \/ k - c \in 1 .. Len(rest) /\ k > c /\ next[k] = left[k - c + 1]
                                  /\ k - c + 1 \in DOMAIN left /\ x.depth >= next[k].depth
    <3> SUFFICES ASSUME NEW k \in DOMAIN next
                 PROVE  \/ k \in 1 .. c /\ next[k].depth = x.depth + 1
                        \/ k - c \in 1 .. Len(rest) /\ k > c /\ next[k] = left[k - c + 1]
                           /\ k - c + 1 \in DOMAIN left /\ x.depth >= next[k].depth
      OBVIOUS
    <3>1. CASE k \in 1 .. c
      BY <1>6, <1>7, <3>1 DEF c
    <3>2. CASE k \notin 1 .. c
      <4>1. k - c \in 1 .. Len(rest) /\ next[k] = rest[k - c] /\ k > c
        BY <1>7, <3>2
      <4> QED BY <1>12, <4>1
    <3> QED BY <3>1, <3>2
  <2>3. next[l].depth \in Nat /\ next[m].depth \in Nat
    <3>1. next[l] \in R /\ next[m] \in R
      BY <1>7
    <3> QED BY <3>1 DEF R, Row
  <2>4. CASE l - c + 1 \in DOMAIN left /\ next[l] = left[l - c + 1] /\ l > c
    <3>1. m - c + 1 \in DOMAIN left /\ next[m] = left[m - c + 1] /\ l - c + 1 < m - c + 1
      BY <1>7, <2>1, <2>2, <2>4
    <3> QED BY <2>4, <3>1 DEF WalkOK
  <2>5. CASE l \in 1 .. c /\ next[l].depth = x.depth + 1
    BY <1>5, <2>2, <2>3, <2>5
  <2> QED BY <2>2, <2>4, <2>5
<1>15. WalkOK(new, next, sent)
  BY <1>4, <1>7, <1>8, <1>9, <1>11, <1>13, <1>14 DEF WalkOK, R
<1>16. Len(next) < Len(left) + Len(sent)
  <2>1. Len(sent) \in Nat
    BY PlacesIs
  <2> QED BY <1>2, <1>6, <1>7, <2>1 DEF c
<1> QED BY <1>15, <1>16 DEF new, next, x, more, rest

-----------------------------------------------------------------------------
\* Parents come before their children in some order of the spans.
Levelled(sent) ==
    \E level \in [DOMAIN sent -> Nat] : \A i, p \in DOMAIN sent :
        sent[p].spanId = sent[i].parentSpanId => level[p] < level[i]

Waits(i, rows, sent) ==
    ~IsRoot(i, sent) /\ \A p \in Seen(rows) : sent[p].spanId # sent[i].parentSpanId

\* The first a spans left are those below the roots, and nothing but what hangs below
\* them is still to come.
MarginOK(rows, left, sent) ==
    /\ \A k \in DOMAIN rows : rows[k].depth = 0 => IsRoot(rows[k].at, sent)
    /\ \E a \in 0 .. Len(left) :
          /\ \A m \in 1 .. a : left[m].depth = 0 => IsRoot(left[m].at, sent)
          /\ \A i \in DOMAIN sent :
                \/ i \in Seen(rows)
                \/ \E m \in 1 .. a : left[m].at = i
                \/ Waits(i, rows, sent)

LEMMA NothingWaits ==
    ASSUME NEW sent, Levelled(sent), NEW rows,
           \A i \in DOMAIN sent : i \in Seen(rows) \/ Waits(i, rows, sent)
    PROVE  DOMAIN sent \subseteq Seen(rows)
<1> SUFFICES ASSUME DOMAIN sent \ Seen(rows) # {} PROVE FALSE
  OBVIOUS
<1>1. PICK level \in [DOMAIN sent -> Nat] : \A i, p \in DOMAIN sent :
          sent[p].spanId = sent[i].parentSpanId => level[p] < level[i]
  BY DEF Levelled
<1> DEFINE B == {level[i] : i \in DOMAIN sent \ Seen(rows)}
<1>2. B \in SUBSET Nat /\ B # {}
  OBVIOUS
<1>3. PICK m \in B : \A y \in B : m <= y
  <2> HIDE DEF B
  <2> QED BY <1>2, Smallest
<1>4. PICK i \in DOMAIN sent \ Seen(rows) : level[i] = m
  OBVIOUS
<1>5. Waits(i, rows, sent)
  BY <1>4
<1>6. PICK p \in DOMAIN sent : sent[p].spanId = sent[i].parentSpanId
  BY <1>5 DEF Waits, IsRoot, Ids
<1>7. p \notin Seen(rows)
  BY <1>5, <1>6 DEF Waits
<1>8. level[p] < level[i] /\ level[p] \in B /\ level[p] \in Nat /\ level[i] \in Nat
  BY <1>1, <1>4, <1>6, <1>7
<1> QED BY <1>3, <1>4, <1>8

LEMMA PassMargin ==
    ASSUME NEW M, NEW sent \in Seq(M), NEW rows, NEW left, left \in Seq(Row(sent)),
           MarginOK(rows, left, sent), left # <<>>, Head(left).at \in Seen(rows)
    PROVE  MarginOK(rows, Tail(left), sent)
<1> DEFINE R == Row(sent)
           rest == Tail(left)
<1>2. /\ Head(left) = left[1] /\ rest \in Seq(R) /\ Len(left) \in Nat \ {0}
      /\ Len(rest) = Len(left) - 1 /\ \A k \in 1 .. Len(rest) : rest[k] = left[k + 1]
  <2> HIDE DEF R
  <2> QED BY TailIs DEF R
<1> HIDE DEF R, rest
<1>3. PICK a \in 0 .. Len(left) :
          /\ \A m \in 1 .. a : left[m].depth = 0 => IsRoot(left[m].at, sent)
          /\ \A i \in DOMAIN sent : \/ i \in Seen(rows)
                                    \/ \E m \in 1 .. a : left[m].at = i
                                    \/ Waits(i, rows, sent)
  BY DEF MarginOK
<1> DEFINE b == IF a = 0 THEN 0 ELSE a - 1
<1>4. b \in 0 .. Len(rest)
  BY <1>2, <1>3
<1>5. \A m \in 1 .. b : rest[m] = left[m + 1] /\ m + 1 \in 1 .. a
  BY <1>2, <1>3
<1>6. \A m \in 1 .. a : m = 1 \/ (m - 1 \in 1 .. b /\ rest[m - 1] = left[m])
  BY <1>2, <1>3
<1> HIDE DEF b
<1>7. \A m \in 1 .. b : rest[m].depth = 0 => IsRoot(rest[m].at, sent)
  BY <1>3, <1>5
<1>8. \A i \in DOMAIN sent : \/ i \in Seen(rows)
                             \/ \E m \in 1 .. b : rest[m].at = i
                             \/ Waits(i, rows, sent)
  <2> SUFFICES ASSUME NEW i \in DOMAIN sent, i \notin Seen(rows), ~Waits(i, rows, sent)
               PROVE  \E m \in 1 .. b : rest[m].at = i
    OBVIOUS
  <2>1. PICK m \in 1 .. a : left[m].at = i
    BY <1>3
  <2> QED BY <1>2, <1>6, <2>1
<1> QED BY <1>4, <1>7, <1>8 DEF MarginOK, rest

LEMMA RowMargin ==
    ASSUME NEW M, NEW sent \in Seq(M), Timed(sent), Levelled(sent), NEW rows, NEW left,
           rows \in Seq(Row(sent)), left \in Seq(Row(sent)),
           MarginOK(rows, left, sent), left # <<>>, Head(left).at \notin Seen(rows)
    PROVE  MarginOK(Append(rows, Head(left)), Children(Head(left), sent) \o Tail(left), sent)
<1> DEFINE R == Row(sent)
           rest == Tail(left)
           x == Head(left)
           more == Children(x, sent)
           new == Append(rows, x)
           next == more \o rest
           n == Len(rows)
<1>2. /\ x = left[1] /\ x \in R /\ rest \in Seq(R) /\ Len(left) \in Nat \ {0}
      /\ Len(rest) = Len(left) - 1 /\ \A k \in 1 .. Len(rest) : rest[k] = left[k + 1]
  <2> HIDE DEF R
  <2> QED BY TailIs DEF R
<1>4. /\ new \in Seq(R) /\ n \in Nat /\ DOMAIN new = 1 .. n + 1 /\ DOMAIN rows = 1 .. n
      /\ \A k \in 1 .. n : new[k] = rows[k]
      /\ new[n + 1] = x
  <2>1. rows \in Seq(R)
    OBVIOUS
  <2> HIDE DEF R, x
  <2> QED BY <1>2, <2>1
<1>5. x.at \in DOMAIN sent /\ x.depth \in Nat
  BY <1>2 DEF Row
<1>6. /\ more \in Seq(R) /\ Len(more) \in 0 .. Len(sent)
      /\ \A k \in 1 .. Len(more) : more[k].at \in DOMAIN sent
                                   /\ IsChild(more[k].at, x.at, sent) /\ more[k].depth = x.depth + 1
      /\ \A i \in DOMAIN sent : IsChild(i, x.at, sent) => \E k \in 1 .. Len(more) : more[k].at = i
  <2> HIDE DEF x
  <2> QED BY <1>2, ChildrenAre
<1> DEFINE c == Len(more)
<1>7. /\ next \in Seq(R) /\ Len(next) = c + Len(rest)
      /\ c \in Nat /\ Len(rest) \in Nat
      /\ \A k \in 1 .. c : next[k] = more[k]
      /\ \A k \in 1 .. Len(rest) : next[c + k] = rest[k]
  <2>1. more \in Seq(R) /\ rest \in Seq(R)
    BY <1>2, <1>6
  <2> HIDE DEF R, rest, more
  <2> QED BY <2>1, JoinIs
<1> HIDE DEF R, rest, x, more, new, next, n, c
<1>8. PICK a \in 0 .. Len(left) :
          /\ \A m \in 1 .. a : left[m].depth = 0 => IsRoot(left[m].at, sent)
          /\ \A i \in DOMAIN sent : \/ i \in Seen(rows)
                                    \/ \E m \in 1 .. a : left[m].at = i
                                    \/ Waits(i, rows, sent)
  BY DEF MarginOK
<1>9. a # 0
  <2> SUFFICES ASSUME a = 0 PROVE FALSE
    OBVIOUS
  <2>1. \A i \in DOMAIN sent : i \in Seen(rows) \/ Waits(i, rows, sent)
    BY <1>8
  <2>2. DOMAIN sent \subseteq Seen(rows)
    BY <2>1, NothingWaits
  <2> QED BY <1>5, <2>2 DEF x
<1> DEFINE b == c + (a - 1)
<1>10. b \in 0 .. Len(next)
  BY <1>2, <1>7, <1>8, <1>9
<1>11. \A m \in 1 .. b : \/ m \in 1 .. c /\ next[m].depth = x.depth + 1
                         \/ m - c + 1 \in 1 .. a /\ next[m] = left[m - c + 1]
  <2> SUFFICES ASSUME NEW m \in 1 .. b, m \notin 1 .. c
               PROVE  m - c + 1 \in 1 .. a /\ next[m] = left[m - c + 1]
    BY <1>6, <1>7 DEF c
  <2>1. m - c \in 1 .. Len(rest) /\ c + (m - c) = m /\ m - c + 1 \in 1 .. a
    BY <1>2, <1>7, <1>8, <1>9
  <2> QED BY <1>2, <1>7, <2>1
<1>12. \A m \in 1 .. a : m = 1 \/ (c + (m - 1) \in 1 .. b /\ next[c + (m - 1)] = left[m])
  <2> SUFFICES ASSUME NEW m \in 1 .. a, m # 1
               PROVE  c + (m - 1) \in 1 .. b /\ next[c + (m - 1)] = left[m]
    OBVIOUS
  <2>1. m - 1 \in 1 .. Len(rest) /\ (m - 1) + 1 = m /\ c + (m - 1) \in 1 .. b
    BY <1>2, <1>7, <1>8, <1>9
  <2> QED BY <1>2, <1>7, <2>1
<1>13. 1 .. c \subseteq 1 .. b
  BY <1>7, <1>8, <1>9
<1> HIDE DEF b
<1>14. \A m \in 1 .. b : next[m].depth = 0 => IsRoot(next[m].at, sent)
  BY <1>5, <1>8, <1>11
<1>15. \A k \in DOMAIN new : new[k].depth = 0 => IsRoot(new[k].at, sent)
  <2>1. \A k \in DOMAIN new : k = n + 1 \/ (k \in DOMAIN rows /\ new[k] = rows[k])
    BY <1>4
  <2>2. 1 \in 1 .. a
    BY <1>8, <1>9
  <2>3. x.depth = 0 => IsRoot(x.at, sent)
    BY <1>2, <1>8, <2>2
  <2> QED BY <1>4, <2>1, <2>3 DEF MarginOK
<1>16. Seen(new) = Seen(rows) \cup {x.at}
  <2>1. \A k \in DOMAIN new : k = n + 1 \/ (k \in DOMAIN rows /\ new[k] = rows[k])
    BY <1>4
  <2>2. n + 1 \in DOMAIN new /\ \A k \in DOMAIN rows : k \in DOMAIN new /\ new[k] = rows[k]
    BY <1>4
  <2> QED BY <1>4, <2>1, <2>2 DEF Seen
<1>17. ASSUME NEW i \in DOMAIN sent
       PROVE  \/ i \in Seen(new)
              \/ \E m \in 1 .. b : next[m].at = i
              \/ Waits(i, new, sent)
  <2>1. CASE i \in Seen(rows)
    BY <1>16, <2>1
  <2>2. CASE \E m \in 1 .. a : left[m].at = i
    <3>1. PICK m \in 1 .. a : left[m].at = i
      BY <2>2
    <3> QED BY <1>2, <1>12, <1>16, <3>1
  <2>3. CASE Waits(i, rows, sent)
    <3>1. CASE sent[x.at].spanId = sent[i].parentSpanId
      <4>1. IsChild(i, x.at, sent)
        BY <2>3, <3>1 DEF IsChild, Waits
      <4>2. PICK k \in 1 .. c : more[k].at = i
        BY <1>6, <4>1 DEF c
      <4> QED BY <1>7, <1>13, <4>2
    <3>2. CASE sent[x.at].spanId # sent[i].parentSpanId
      BY <1>16, <2>3, <3>2 DEF Waits
    <3> QED BY <3>1, <3>2
  <2> QED BY <1>8, <2>1, <2>2, <2>3
<1>18. MarginOK(new, next, sent)
  BY <1>10, <1>14, <1>15, <1>17 DEF MarginOK
<1> QED BY <1>18 DEF new, next, x, more, rest

-----------------------------------------------------------------------------
\* The states of the walk over a list.
Walks(sent) ==
    {w \in [rows : Seq(Row(sent)), left : Seq(Row(sent))] :
        /\ WalkOK(w.rows, w.left, sent)
        /\ Levelled(sent) => MarginOK(w.rows, w.left, sent)}

LEMMA WalkStarts ==
    ASSUME NEW M, NEW sent \in Seq(M), Timed(sent)
    PROVE  /\ Unvisited(sent) \in Walks(sent)
           /\ Len(Unvisited(sent).left) \in 0 .. Len(sent) + Len(sent)
           /\ Unvisited(sent).rows = <<>>
<1> DEFINE R == Row(sent)
           S == {i \in DOMAIN sent : IsRoot(i, sent)}
           roots == AtDepth(ByStart(S, sent), 0)
           N == Len(sent)
           each == [i \in DOMAIN sent |-> i]
           all == AtDepth(each, 0)
           left == roots \o all
<1>1. N \in Nat /\ DOMAIN sent = 1 .. N
  OBVIOUS
<1>2. /\ roots \in Seq(Row(sent)) /\ Len(roots) \in 0 .. N
      /\ \A k \in 1 .. Len(roots) : roots[k].at \in S /\ roots[k].depth = 0
      /\ \A i \in S : \E k \in 1 .. Len(roots) : roots[k].at = i
  <2> DEFINE list == AtDepth(ByStart(S, sent), 0)
  <2>1. S \in Places(sent) /\ 0 \in Nat /\ list = AtDepth(ByStart(S, sent), 0)
    BY DEF Places
  <2>2. /\ list \in Seq(Row(sent)) /\ Len(list) \in 0 .. Len(sent)
        /\ \A k \in 1 .. Len(list) : list[k].at \in S /\ list[k].depth = 0
        /\ \A i \in S : \E k \in 1 .. Len(list) : list[k].at = i
    <3> HIDE DEF S, list, roots
    <3> QED BY <2>1, SortedRowsAre, Z3
  <2> QED BY <2>2
<1>3. /\ all \in Seq(Row(sent)) /\ Len(all) = N
      /\ \A k \in 1 .. N : all[k].at = k /\ all[k].depth = 0
  <2>1. all = [k \in 1 .. N |-> [at |-> k, depth |-> 0]]
    BY <1>1 DEF AtDepth
  <2>2. \A k \in 1 .. N : [at |-> k, depth |-> 0] \in Row(sent)
    BY <1>1 DEF Row
  <2> HIDE DEF all, N
  <2> QED BY <1>1, <2>1, <2>2
<1> DEFINE c == Len(roots)
<1>4. /\ left \in Seq(R) /\ Len(left) = c + N /\ DOMAIN left = 1 .. (c + N) /\ c \in 0 .. N
      /\ \A k \in 1 .. c : left[k] = roots[k]
      /\ \A k \in 1 .. N : left[c + k] = all[k]
      /\ \A k \in 1 .. c + N : k \in 1 .. c \/ (k - c \in 1 .. N /\ c + (k - c) = k)
  <2>1. roots \in Seq(R) /\ all \in Seq(R) /\ Len(all) = N /\ c \in 0 .. N
    BY <1>2, <1>3
  <2>0. roots \in Seq(R) /\ all \in Seq(R)
    BY <2>1
  <2> HIDE DEF R, roots, all, N, S, each
  <2>2. /\ left \in Seq(R) /\ Len(left) = c + Len(all) /\ DOMAIN left = 1 .. (c + Len(all))
        /\ \A k \in 1 .. c : left[k] = roots[k]
        /\ \A k \in 1 .. Len(all) : left[c + k] = all[k]
        /\ \A k \in 1 .. c + Len(all) :
              k \in 1 .. c \/ (k - c \in 1 .. Len(all) /\ c + (k - c) = k)
    BY <2>0, JoinIs
  <2> HIDE DEF left, c
  <2> QED BY <2>1, <2>2
<1>5. Unvisited(sent) = [rows |-> <<>>, left |-> left]
  BY DEF Unvisited, Roots
<1> HIDE DEF R, roots, all, left, c, N, S, each
<1>6. \A k \in DOMAIN left : left[k].depth = 0
  <2> SUFFICES ASSUME NEW k \in DOMAIN left PROVE left[k].depth = 0
    OBVIOUS
  <2>1. k \in 1 .. c \/ (k - c \in 1 .. N /\ left[k] = all[k - c])
    BY <1>4
  <2> QED BY <1>2, <1>3, <1>4, <2>1 DEF c
<1>7. \A i \in DOMAIN sent : i \in Seen(left)
  <2> SUFFICES ASSUME NEW i \in DOMAIN sent PROVE i \in Seen(left)
    OBVIOUS
  <2>1. c + i \in DOMAIN left /\ left[c + i].at = i
    <3>1. i \in 1 .. N /\ c \in Nat /\ N \in Nat
      BY <1>1, <1>4
    <3>2. c + i \in 1 .. (c + N) /\ left[c + i] = all[i]
      BY <1>4, <3>1
    <3> QED BY <1>3, <1>4, <3>1, <3>2
  <2> QED BY <2>1 DEF Seen
<1> DEFINE none == <<>>
<1>8. none \in Seq(R) /\ Len(none) = 0 /\ DOMAIN none = {}
  OBVIOUS
<1> HIDE DEF none
<1>9. WalkOK(none, left, sent)
  <2>1. TreeOK(none, sent)
    BY <1>8 DEF TreeOK
  <2>2. \A m \in DOMAIN left : Hangs(none, left[m], sent)
    BY <1>6 DEF Hangs
  <2>3. \A l, m \in DOMAIN left : l < m => left[l].depth >= left[m].depth
    BY <1>6
  <2> QED BY <1>4, <1>7, <1>8, <2>1, <2>2, <2>3 DEF WalkOK, R
<1>10. MarginOK(none, left, sent)
  <2>1. c \in 0 .. Len(left)
    BY <1>1, <1>4
  <2>2. \A m \in 1 .. c : left[m].depth = 0 => IsRoot(left[m].at, sent)
    BY <1>2, <1>4 DEF c, S
  <2>3. ASSUME NEW i \in DOMAIN sent
        PROVE  (\E m \in 1 .. c : left[m].at = i) \/ Waits(i, none, sent)
    <3>1. CASE IsRoot(i, sent)
      <4>1. PICK k \in 1 .. c : roots[k].at = i
        BY <1>2, <3>1 DEF c, S
      <4> QED BY <1>4, <4>1
    <3>2. CASE ~IsRoot(i, sent)
      BY <1>8, <3>2 DEF Waits, Seen
    <3> QED BY <3>1, <3>2
  <2> QED BY <1>8, <2>1, <2>2, <2>3 DEF MarginOK
<1>11. Unvisited(sent) \in Walks(sent) /\ Unvisited(sent).left = left /\ Unvisited(sent).rows = <<>>
  BY <1>4, <1>5, <1>8, <1>9, <1>10 DEF Walks, none, R
<1> QED BY <1>1, <1>4, <1>11 DEF N

\* Every visit takes something off the list, or what is without a row.
Ahead(w, sent) == Len(w.left) + Len(sent) * (Len(sent) - Len(w.rows))

LEMMA Product ==
    ASSUME NEW n \in Nat, NEW q \in Nat
    PROVE  /\ n * q \in Nat
           /\ q > 0 => n * q = n * (q - 1) + n
  OBVIOUS

LEMMA VisitKeeps ==
    ASSUME NEW M, NEW sent \in Seq(M), Timed(sent), NEW w \in Walks(sent)
    PROVE  /\ Visit(w, sent) \in Walks(sent)
           /\ w.left = <<>> => Visit(w, sent) = w
           /\ w.left # <<>> => Ahead(Visit(w, sent), sent) < Ahead(w, sent)
           /\ Ahead(w, sent) \in Nat
<1> DEFINE rows == w.rows
           left == w.left
           N == Len(sent)
           n == Len(rows)
<1>1. /\ rows \in Seq(Row(sent)) /\ left \in Seq(Row(sent)) /\ WalkOK(rows, left, sent)
      /\ Levelled(sent) => MarginOK(rows, left, sent)
  BY DEF Walks
<1>2. n \in 0 .. N /\ N \in Nat /\ Len(left) \in Nat
  BY <1>1, RowsBounded DEF WalkOK
<1>3. N - n \in Nat /\ N * (N - n) \in Nat
  BY <1>2, Product
<1>4. Ahead(w, sent) = Len(left) + N * (N - n)
  BY DEF Ahead
<1>5. Ahead(w, sent) \in Nat
  <2> HIDE DEF N, n, left
  <2> QED BY <1>2, <1>3, <1>4
<1>6. CASE left = <<>>
  BY <1>5, <1>6 DEF Visit
<1>7. CASE left # <<>> /\ Head(left).at \in Seen(rows)
  <2> DEFINE rest == Tail(left)
             v == Visit(w, sent)
  <2>1. WalkOK(rows, rest, sent)
    BY <1>1, <1>7, PassKeeps
  <2>2. Levelled(sent) => MarginOK(rows, rest, sent)
    BY <1>1, <1>7, PassMargin
  <2>3. v = [rows |-> rows, left |-> rest]
    BY <1>7 DEF Visit, Seen
  <2>4. rest \in Seq(Row(sent)) /\ Len(rest) = Len(left) - 1
    BY <1>1, <1>7, TailIs
  <2> HIDE DEF v, rest, rows, left
  <2>5. v \in Walks(sent)
    BY <1>1, <2>1, <2>2, <2>3, <2>4 DEF Walks
  <2>6. v.rows = rows /\ v.left = rest
    BY <2>3
  <2>7. Ahead(v, sent) = Len(rest) + N * (N - n)
    BY <2>6 DEF Ahead
  <2> HIDE DEF N, n
  <2>8. Ahead(v, sent) < Ahead(w, sent)
    BY <1>2, <1>3, <1>4, <2>4, <2>7
  <2> QED BY <1>5, <1>7, <2>5, <2>8 DEF left, v
<1>8. CASE left # <<>> /\ Head(left).at \notin Seen(rows)
  <2> DEFINE new == Append(rows, Head(left))
             next == Children(Head(left), sent) \o Tail(left)
  <2>1. WalkOK(new, next, sent) /\ Len(next) < Len(left) + N
    BY <1>1, <1>8, RowKeeps
  <2>2. Levelled(sent) => MarginOK(new, next, sent)
    BY <1>1, <1>8, RowMargin
  <2>3. Visit(w, sent) = [rows |-> new, left |-> next]
    BY <1>8 DEF Visit, Seen
  <2>4. Len(new) = n + 1
    BY <1>1
  <2> HIDE DEF new, next
  <2>5. new \in Seq(Row(sent)) /\ next \in Seq(Row(sent))
    BY <2>1 DEF WalkOK
  <2>6. Visit(w, sent) \in Walks(sent)
    BY <2>1, <2>2, <2>3, <2>5 DEF Walks
  <2>7. Len(new) \in 0 .. N
    BY <2>1, RowsBounded DEF WalkOK
  <2>8. Ahead(Visit(w, sent), sent) = Len(next) + N * (N - (n + 1))
    BY <2>3, <2>4 DEF Ahead
  <2> HIDE DEF N, n, left
  <2>9. N - n > 0 /\ (N - n) - 1 = N - (n + 1)
    BY <1>2, <2>4, <2>7
  <2>10. N * (N - n) = N * ((N - n) - 1) + N /\ N * ((N - n) - 1) \in Nat
    BY <1>2, <1>3, <2>9, Product
  <2>11. Len(next) \in Nat
    BY <2>5
  <2> DEFINE p == N * (N - (n + 1))
  <2>12. Ahead(w, sent) = Len(left) + p + N /\ Ahead(Visit(w, sent), sent) = Len(next) + p /\ p \in Nat
    BY <1>2, <1>4, <2>8, <2>9, <2>10
  <2> HIDE DEF p
  <2>13. Ahead(Visit(w, sent), sent) < Ahead(w, sent)
    BY <1>2, <2>1, <2>11, <2>12
  <2> QED BY <1>5, <1>8, <2>6, <2>13 DEF left
<1> QED BY <1>6, <1>7, <1>8

LEMMA WalkEnds ==
    ASSUME NEW M, NEW sent \in Seq(M), Timed(sent)
    PROVE  \E w \in Walks(sent) : w.left = <<>> /\ SpanTreeRows(sent) = w.rows
<1> DEFINE V == Visits(sent)
           S == Walks(sent)
           Body(f) == [n \in 0 .. V |-> IF n = 0 THEN Unvisited(sent) ELSE Visit(f[n - 1], sent)]
           walk == CHOOSE f : f = Body(f)
           N == Len(sent)
<1>1. SpanTreeRows(sent) = walk[V].rows
  BY DEF SpanTreeRows
<1>2. N \in Nat /\ V \in Nat /\ V = N * (N + 2)
  <2>1. N \in Nat
    OBVIOUS
  <2>2. N + 2 \in Nat /\ N * (N + 2) \in Nat
    BY <2>1, Product
  <2> QED BY <2>1, <2>2 DEF Visits
<1>3. \E f : f = Body(f)
  <2> DEFINE next == [x \in (1 .. V) \X S |-> Visit(x[2], sent)]
             start == Unvisited(sent)
  <2>1. \A w \in S : Visit(w, sent) \in S
    BY VisitKeeps
  <2>2. start \in S
    BY WalkStarts
  <2>3. IsStep(next, V, S) /\ \A k \in 1 .. V, w \in S : next[<<k, w>>] = Visit(w, sent)
    <3> HIDE DEF S, V
    <3> QED BY <2>1 DEF IsStep
  <2> HIDE DEF next, S, V, start
  <2>4. PICK f : Iterates(f, V, S, start, next)
    BY <1>2, <2>2, <2>3, Iterated
  <2>5. ASSUME NEW k \in 0 .. V
        PROVE  f[k] = IF k = 0 THEN Unvisited(sent) ELSE Visit(f[k - 1], sent)
    <3>1. CASE k = 0
      BY <2>4, <3>1 DEF Iterates, start
    <3>2. CASE k # 0
      <4>1. k \in 1 .. V /\ k - 1 \in 0 .. V
        BY <1>2, <3>2
      <4>2. f[k - 1] \in S /\ f[k] = next[<<k, f[k - 1]>>]
        BY <2>4, <4>1 DEF Iterates
      <4> QED BY <2>3, <3>2, <4>1, <4>2
    <3> QED BY <3>1, <3>2
  <2>6. f = [k \in 0 .. V |-> f[k]]
    BY <2>4 DEF Iterates
  <2>7. f = Body(f)
    BY <2>5, <2>6
  <2> QED BY <2>7
<1>4. walk = Body(walk)
  BY <1>3
<1> HIDE DEF walk
<1>5. walk[0] = Unvisited(sent) /\ \A k \in 1 .. V : walk[k] = Visit(walk[k - 1], sent)
  <2>1. \A k \in 0 .. V : walk[k] = IF k = 0 THEN Unvisited(sent) ELSE Visit(walk[k - 1], sent)
    BY <1>4
  <2> HIDE DEF V
  <2> QED BY <1>2, <2>1
<1> HIDE DEF V
<1>6. \A k \in 0 .. V : walk[k] \in S
  <2>1. walk[0] \in S /\ \A k \in 1 .. V : walk[k - 1] \in S => walk[k] \in S
    BY <1>5, WalkStarts, VisitKeeps
  <2> HIDE DEF S
  <2> QED BY <1>2, <2>1, Throughout
<1> DEFINE Done(k) == walk[k].left = <<>> \/ Ahead(walk[k], sent) + k <= V
           Bad == {k \in 0 .. V : ~Done(k)}
<1>7. Done(0)
  <2> DEFINE u == Unvisited(sent)
  <2>1. Len(u.left) \in 0 .. N + N /\ Len(u.rows) = 0
    BY WalkStarts
  <2>2. Ahead(u, sent) = Len(u.left) + N * (N - 0)
    BY <2>1 DEF Ahead
  <2> DEFINE p == N * N
  <2>3. N * (N - 0) = p /\ p \in Nat /\ V = p + N + N /\ N \in Nat
    BY <1>2
  <2> DEFINE l == Len(u.left)
  <2>4. l \in 0 .. N + N /\ Ahead(u, sent) = l + p
    BY <2>1, <2>2, <2>3
  <2> HIDE DEF u, N, p, l
  <2>5. Ahead(u, sent) + 0 <= V
    BY <2>3, <2>4
  <2> QED BY <1>5, <2>5 DEF u
<1>8. ASSUME NEW k \in 1 .. V, Done(k - 1) PROVE Done(k)
  <2>1. walk[k - 1] \in S /\ walk[k] = Visit(walk[k - 1], sent) /\ walk[k] \in S
    BY <1>2, <1>5, <1>6
  <2> DEFINE w == walk[k - 1]
             v == walk[k]
  <2>2. /\ w.left = <<>> => v = w
        /\ w.left # <<>> => Ahead(v, sent) < Ahead(w, sent)
        /\ Ahead(w, sent) \in Nat
    BY <2>1, VisitKeeps
  <2>3. Ahead(v, sent) \in Nat
    BY <2>1, VisitKeeps
  <2>4. CASE w.left = <<>>
    BY <2>2, <2>4
  <2>5. CASE w.left # <<>>
    <3>1. Ahead(w, sent) + (k - 1) <= V
      BY <1>8, <2>5
    <3> QED BY <1>2, <2>2, <2>3, <2>5, <3>1
  <2> QED BY <2>4, <2>5
<1> HIDE DEF Done
<1>9. Bad = {}
  <2> SUFFICES ASSUME Bad # {} PROVE FALSE
    OBVIOUS
  <2>1. Bad \in SUBSET Nat
    BY <1>2
  <2>2. PICK m \in Bad : m = 0 \/ (m - 1 \in Nat /\ m - 1 \notin Bad)
    <3> HIDE DEF Bad
    <3> QED BY <2>1, Least
  <2>3. m \in 1 .. V /\ m - 1 \in 0 .. V
    BY <1>2, <1>7, <2>2
  <2> QED BY <1>8, <2>2, <2>3
<1>10. Done(V) /\ walk[V] \in S /\ Ahead(walk[V], sent) \in Nat
  <2>1. V \in 0 .. V
    BY <1>2
  <2> QED BY <1>6, <1>9, <2>1, VisitKeeps
<1>11. walk[V].left = <<>>
  <2> SUFFICES ASSUME walk[V].left # <<>> PROVE FALSE
    OBVIOUS
  <2>1. Ahead(walk[V], sent) = 0
    BY <1>2, <1>10 DEF Done
  <2>2. Ahead(Visit(walk[V], sent), sent) < 0 /\ Visit(walk[V], sent) \in Walks(sent)
    BY <1>10, <2>1, VisitKeeps
  <2>3. Ahead(Visit(walk[V], sent), sent) \in Nat
    BY <2>2, VisitKeeps
  <2> QED BY <2>2, <2>3
<1> QED BY <1>1, <1>10, <1>11

\* Whatever list of spans the trace tab is sent, with whatever ids, without parents or
\* with parents that are each other's: every span is in one row, under its parent's
\* row and one deeper, or at the margin (spanTreeRows); and if no parents form a cycle,
\* exactly the spans whose parent is not in the list are at the margin.
THEOREM RowsShowAll ==
    ASSUME NEW M, NEW sent \in Seq(M), Timed(sent)
    PROVE  LET rows == SpanTreeRows(sent) IN
           /\ Shows(rows, sent)
           /\ Levelled(sent) => \A k \in DOMAIN rows :
                 rows[k].depth = 0 <=> sent[rows[k].at].parentSpanId \notin Ids(sent)
<1>1. PICK w \in Walks(sent) : w.left = <<>> /\ SpanTreeRows(sent) = w.rows
  BY WalkEnds
<1> DEFINE rows == w.rows
<1>2. /\ rows \in Seq(Row(sent)) /\ WalkOK(rows, <<>>, sent)
      /\ Levelled(sent) => MarginOK(rows, <<>>, sent)
  BY <1>1 DEF Walks
<1>3. \A k \in DOMAIN rows : rows[k].at \in DOMAIN sent /\ rows[k].depth \in Nat
  <2>1. \A k \in DOMAIN rows : rows[k] \in Row(sent)
    BY <1>2
  <2> QED BY <2>1 DEF Row
<1>4. Seen(rows) = DOMAIN sent
  <2>1. \A i \in DOMAIN sent : i \in Seen(rows)
    BY <1>2 DEF WalkOK, Seen
  <2> QED BY <1>3, <2>1 DEF Seen
<1>5. Shows(rows, sent)
  BY <1>2, <1>4 DEF WalkOK, Shows, Seen, TreeOK, Above
<1>6. ASSUME Levelled(sent), NEW k \in DOMAIN rows
      PROVE  rows[k].depth = 0 <=> sent[rows[k].at].parentSpanId \notin Ids(sent)
  <2>1. CASE rows[k].depth = 0
    <3>1. IsRoot(rows[k].at, sent)
      BY <1>2, <1>6, <2>1 DEF MarginOK
    <3>2. sent[rows[k].at].parentSpanId # sent[rows[k].at].spanId
      BY <1>3, <1>6 DEF Levelled
    <3> QED BY <2>1, <3>1, <3>2 DEF IsRoot
  <2>2. CASE rows[k].depth # 0
    <3>1. rows[k].depth > 0
      BY <1>3, <2>2
    <3>2. PICK j \in 1 .. k - 1 : sent[rows[j].at].spanId = sent[rows[k].at].parentSpanId
      BY <1>5, <3>1 DEF Shows
    <3>3. j \in DOMAIN rows
      BY <1>2, <3>2
    <3> QED BY <1>3, <2>2, <3>2, <3>3 DEF Ids
  <2> QED BY <2>1, <2>2
<1> QED BY <1>1, <1>5, <1>6

-----------------------------------------------------------------------------
LEMMA Highest ==
    ASSUME NEW n \in Nat \ {0}, NEW f \in [1 .. n -> Int]
    PROVE  \E k \in 1 .. n : \A l \in 1 .. n : f[l] <= f[k]
<1> DEFINE S == 1 .. n
           order == InOrder(S, f)
<1>1. S \in SUBSET Nat /\ IsFiniteSet(S) /\ Cardinality(S) = n
  BY FS_Interval
<1>2. /\ order \in [1 .. n -> S] /\ \A i \in S : \E k \in 1 .. n : order[k] = i
      /\ \A k, l \in 1 .. n : k < l => Earlier(order[k], order[l], f)
  <2> DEFINE c == Cardinality(S)
  <2>1. f \in [S -> Int]
    OBVIOUS
  <2> HIDE DEF S
  <2>2. /\ order \in [1 .. c -> S] /\ \A i \in S : \E k \in 1 .. c : order[k] = i
        /\ \A k, l \in 1 .. c : k < l => Earlier(order[k], order[l], f)
    BY <1>1, <2>1, InOrderIs
  <2>3. c = n
    BY <1>1
  <2> HIDE DEF c, order
  <2> QED BY <2>2, <2>3
<1> HIDE DEF order
<1>3. n \in 1 .. n
  OBVIOUS
<1>4. ASSUME NEW l \in 1 .. n PROVE f[l] <= f[order[n]]
  <2>1. PICK k \in 1 .. n : order[k] = l
    BY <1>2
  <2>2. k = n \/ k < n
    OBVIOUS
  <2>3. f[order[n]] \in Int /\ f[l] \in Int
    BY <1>2, <1>3
  <2>4. CASE k = n
    BY <2>1, <2>3, <2>4
  <2>5. CASE k < n
    <3>1. Earlier(order[k], order[n], f)
      BY <1>2, <1>3, <2>5
    <3> QED BY <2>1, <2>3, <3>1 DEF Earlier
  <2> QED BY <2>2, <2>4, <2>5
<1> QED BY <1>2, <1>3, <1>4

\* A list of spans as a trace's is one of the positions it takes, in some order.
Lists(list, order, S, sent) ==
    /\ DOMAIN order = DOMAIN list
    /\ \A k \in DOMAIN order : order[k] \in S /\ list[k] = sent[order[k]]
    /\ \A k, l \in DOMAIN order : order[k] = order[l] => k = l
    /\ \A i \in S : \E k \in DOMAIN order : order[k] = i

Clocked(sent) == \A i \in DOMAIN sent : sent[i].start \in Int /\ sent[i].end \in Int
Trace(i, sent) == {j \in DOMAIN sent : sent[j].traceId = sent[i].traceId}

LEMMA GroupIs ==
    ASSUME NEW M, NEW sent \in Seq(M), Clocked(sent), NEW i \in DOMAIN sent
    PROVE  LET group == Group(i, sent) IN
           /\ group.traceId = sent[i].traceId
           /\ group.spans \in Seq(M)
           /\ \E order : Lists(group.spans, order, Trace(i, sent), sent)
           /\ group.end \in Int
           /\ group.hasError <=> \E k \in DOMAIN group.spans : group.spans[k].error
<1> DEFINE mine == Trace(i, sent)
           key == [j \in mine |-> j]
           order == InOrder(mine, key)
           n == Cardinality(mine)
           list == [k \in DOMAIN order |-> sent[order[k]]]
           group == Group(i, sent)
           ends == {list[k].end : k \in DOMAIN list}
<1>1. mine \in SUBSET DOMAIN sent /\ i \in mine /\ mine \in SUBSET Nat /\ IsFiniteSet(mine) /\ n \in Nat
  <2>1. DOMAIN sent \in SUBSET Nat /\ IsFiniteSet(DOMAIN sent)
    BY PlacesIs
  <2>2. mine \in SUBSET DOMAIN sent /\ i \in mine
    BY DEF Trace
  <2>3. IsFiniteSet(mine)
    BY <2>1, <2>2, FS_Subset
  <2> QED BY <2>1, <2>2, <2>3, FS_CardinalityType
<1>2. key \in [mine -> Int]
  BY <1>1
<1>3. /\ order \in [1 .. n -> mine]
      /\ \A k, l \in 1 .. n : order[k] = order[l] => k = l
      /\ \A j \in mine : \E k \in 1 .. n : order[k] = j
  <2> HIDE DEF mine, key
  <2> QED BY <1>1, <1>2, InOrderIs
<1>4. /\ group.traceId = sent[i].traceId /\ group.spans = list
      /\ group.end = Max({list[1].start} \cup ends)
      /\ group.hasError = \E k \in DOMAIN list : list[k].error
  BY DEF Group, Trace
<1> HIDE DEF group, mine, key, order, n
<1>5. DOMAIN list = 1 .. n /\ \A k \in 1 .. n : list[k] = sent[order[k]] /\ list[k] \in M
                                                /\ list[k].start \in Int /\ list[k].end \in Int
  <2>1. DOMAIN list = 1 .. n /\ \A k \in 1 .. n : list[k] = sent[order[k]] /\ order[k] \in DOMAIN sent
    BY <1>1, <1>3
  <2>2. \A j \in DOMAIN sent : sent[j] \in M
    OBVIOUS
  <2> QED BY <2>1, <2>2 DEF Clocked
<1>6. list \in Seq(M)
  <2>1. list = [k \in 1 .. n |-> list[k]]
    BY <1>5
  <2> HIDE DEF list
  <2> QED BY <1>1, <1>5, <2>1
<1> HIDE DEF list
<1>7. Lists(list, order, mine, sent)
  BY <1>3, <1>5 DEF Lists
<1>8. n # 0
  BY <1>1, <1>3
<1>9. Max({list[1].start} \cup ends) \in Int
  <2> DEFINE f == [k \in 1 .. n |-> list[k].end]
             S == {list[1].start} \cup ends
  <2>1. n \in Nat \ {0} /\ f \in [1 .. n -> Int] /\ \A k \in 1 .. n : f[k] = list[k].end
    BY <1>1, <1>5, <1>8
  <2>2. PICK k \in 1 .. n : \A l \in 1 .. n : f[l] <= f[k]
    <3> HIDE DEF f
    <3> QED BY <2>1, Highest
  <2>3. ends = {list[l].end : l \in 1 .. n}
    BY <1>5
  <2>4. list[1].start \in Int /\ f[k] \in ends /\ f[k] \in Int /\ \A e \in ends : e <= f[k] /\ e \in Int
    <3>1. 1 \in 1 .. n
      BY <1>1, <1>8
    <3> QED BY <1>5, <2>1, <2>2, <2>3, <3>1
  <2> HIDE DEF f, ends
  <2>5. \E x \in S : \A y \in S : x >= y
    <3>1. CASE f[k] >= list[1].start
      BY <2>4, <3>1
    <3>2. CASE ~(f[k] >= list[1].start)
      BY <2>4, <3>2
    <3> QED BY <3>1, <3>2
  <2>6. Max(S) \in S
    BY <2>5 DEF Max
  <2> QED BY <2>4, <2>6
<1> QED BY <1>4, <1>6, <1>7, <1>9 DEF group, mine

Firsts(sent) == {i \in DOMAIN sent : \A j \in 1 .. i - 1 : sent[j].traceId # sent[i].traceId}

LEMMA TracesAre ==
    ASSUME NEW M, NEW sent \in Seq(M), Clocked(sent)
    PROVE  LET groups == GroupTraces(sent) IN
           \E order : /\ DOMAIN order = DOMAIN groups
                      /\ \A k \in DOMAIN order : order[k] \in Firsts(sent)
                                                 /\ groups[k] = Group(order[k], sent)
                      /\ \A k, l \in DOMAIN order : order[k] = order[l] => k = l
                      /\ \A i \in Firsts(sent) : \E k \in DOMAIN order : order[k] = i
<1> DEFINE S == Firsts(sent)
           G == [i \in S |-> Group(i, sent)]
           key == [i \in S |-> -G[i].end]
           order == InOrder(S, key)
           n == Cardinality(S)
           groups == GroupTraces(sent)
<1>1. S \in SUBSET DOMAIN sent /\ S \in SUBSET Nat /\ IsFiniteSet(S)
  <2>1. DOMAIN sent \in SUBSET Nat /\ IsFiniteSet(DOMAIN sent)
    BY PlacesIs
  <2>2. S \in SUBSET DOMAIN sent
    BY DEF Firsts
  <2>3. IsFiniteSet(S)
    BY <2>1, <2>2, FS_Subset
  <2> QED BY <2>1, <2>2, <2>3
<1>2. key \in [S -> Int]
  <2> SUFFICES ASSUME NEW i \in S PROVE -G[i].end \in Int
    OBVIOUS
  <2>1. Group(i, sent).end \in Int
    BY <1>1, GroupIs
  <2> QED BY <2>1
<1>3. /\ order \in [1 .. n -> S]
      /\ \A k, l \in 1 .. n : order[k] = order[l] => k = l
      /\ \A j \in S : \E k \in 1 .. n : order[k] = j
  <2> HIDE DEF S, key
  <2> QED BY <1>1, <1>2, InOrderIs
<1>4. groups = [k \in DOMAIN order |-> G[order[k]]]
  BY DEF GroupTraces, Firsts
<1> HIDE DEF order, n, groups
<1>5. DOMAIN order = 1 .. n /\ \A k \in 1 .. n : order[k] \in S /\ groups[k] = Group(order[k], sent)
  BY <1>3, <1>4
<1>6. DOMAIN groups = DOMAIN order
  BY <1>4
<1> HIDE DEF S, G, key
<1> QED BY <1>3, <1>5, <1>6 DEF groups, S

LEMMA FirstOf ==
    ASSUME NEW M, NEW sent \in Seq(M), NEW e \in DOMAIN sent
    PROVE  \E i \in Firsts(sent) : sent[i].traceId = sent[e].traceId
<1> DEFINE B == Trace(e, sent)
<1>1. B \in SUBSET Nat /\ e \in B /\ DOMAIN sent = 1 .. Len(sent) /\ Len(sent) \in Nat
  BY DEF Trace
<1>2. PICK i \in B : \A j \in B : i <= j
  <2> HIDE DEF B
  <2> QED BY <1>1, Smallest
<1>3. i \in DOMAIN sent /\ sent[i].traceId = sent[e].traceId
  BY DEF Trace
<1>4. ASSUME NEW j \in 1 .. i - 1 PROVE sent[j].traceId # sent[i].traceId
  <2>1. j \in DOMAIN sent /\ ~(i <= j)
    BY <1>1, <1>3
  <2> QED BY <1>2, <1>3, <2>1 DEF Trace
<1> QED BY <1>3, <1>4 DEF Firsts

-----------------------------------------------------------------------------
NamesOK == \A s \in DOMAIN spans : s \in SpanId /\ s.kind \in {"run", "step", "system"}

LEMMA EndsAreFinite ==
    ASSUME NamesOK
    PROVE  /\ IsFiniteSet(Ends) /\ Cardinality(Ends) \in Nat
           /\ Ends \subseteq DOMAIN spans
<1> DEFINE A == Instrument \cup {0}
           B == {"none", "run", "step", "system"}
           C == 0 .. MaxSteps
           D == Pair \cup {0}
           T == A \X (B \X (C \X D))
           f == [s \in SpanId |-> <<s.by, <<s.kind, <<s.step, s.of>>>>>>]
<1>1. IsFiniteSet(A) /\ IsFiniteSet(D)
  BY InstrumentsAreFinite, PairsAreFinite, FS_AddElement
<1>2. IsFiniteSet(B)
  <2>1. IsFiniteSet({"none"})
    BY FS_Singleton
  <2>2. IsFiniteSet({"none"} \cup {"run"})
    BY <2>1, FS_AddElement
  <2>3. IsFiniteSet(({"none"} \cup {"run"}) \cup {"step"})
    BY <2>2, FS_AddElement
  <2>4. IsFiniteSet((({"none"} \cup {"run"}) \cup {"step"}) \cup {"system"})
    BY <2>3, FS_AddElement
  <2>5. B = (({"none"} \cup {"run"}) \cup {"step"}) \cup {"system"}
    OBVIOUS
  <2> QED BY <2>4, <2>5
<1>3. IsFiniteSet(C)
  BY PairsAreFinite, FS_Interval
<1>4. IsFiniteSet(T)
  <2> HIDE DEF A, B, C, D
  <2>1. IsFiniteSet(C \X D)
    BY <1>1, <1>3, FS_Product
  <2>2. IsFiniteSet(B \X (C \X D))
    BY <1>2, <2>1, FS_Product
  <2> QED BY <1>1, <2>2, FS_Product
<1>5. f \in Injection(SpanId, T)
  <2>1. f \in [SpanId -> T]
    BY DEF SpanId
  <2>2. ASSUME NEW s \in SpanId, NEW t \in SpanId, f[s] = f[t] PROVE s = t
    <3>1. s.by = t.by /\ s.kind = t.kind /\ s.step = t.step /\ s.of = t.of
      BY <2>2
    <3> QED BY <3>1 DEF SpanId
  <2> HIDE DEF f, T
  <2> QED BY <2>1, <2>2 DEF Injection, IsInjective
<1> HIDE DEF f, T
<1>6. IsFiniteSet(SpanId)
  BY <1>4, <1>5, FS_Injection
<1>7. Ends \in SUBSET SpanId
  BY DEF NamesOK, Ends
<1>8. IsFiniteSet(Ends)
  BY <1>6, <1>7, FS_Subset
<1> QED BY <1>8, FS_CardinalityType DEF Ends

LEMMA DeepestIs ==
    ASSUME NamesOK, NEW S, S \subseteq DOMAIN spans, S # {}
    PROVE  Deepest(S) \in S
<1>1. \A s \in S : Depth(s) \in 0 .. 2
  BY DEF NamesOK, Depth
<1>2. \E s \in S : \A t \in S : Depth(t) <= Depth(s)
  <2>1. CASE \E s \in S : Depth(s) = 2
    BY <1>1, <2>1
  <2>2. CASE (\A s \in S : Depth(s) # 2) /\ \E s \in S : Depth(s) = 1
    BY <1>1, <2>2
  <2>3. CASE \A s \in S : Depth(s) # 2 /\ Depth(s) # 1
    BY <1>1, <2>3
  <2> QED BY <2>1, <2>2, <2>3
<1> QED BY <1>2 DEF Deepest

\* The exporter sends each span that has ended once.
Sends(all, n) ==
    /\ all \in Seq(Ends) /\ Len(all) = n
    /\ \A k, l \in DOMAIN all : all[k] = all[l] => k = l

LEMMA SendsOneMore ==
    ASSUME NamesOK, NEW n \in Nat, n < Cardinality(Ends), NEW all, Sends(all, n)
    PROVE  Sends(Append(all, Deepest(Ends \ Range(all))), n + 1)
<1> DEFINE S == Ends \ Range(all)
           x == Deepest(S)
           new == Append(all, x)
<1>1. IsFiniteSet(Ends) /\ Cardinality(Ends) \in Nat /\ Ends \subseteq DOMAIN spans
  BY EndsAreFinite
<1>2. all \in Seq(Ends) /\ Len(all) = n /\ DOMAIN all = 1 .. n /\ \A k \in 1 .. n : all[k] \in Ends
  BY DEF Sends
<1>3. S # {}
  <2> SUFFICES ASSUME Ends \subseteq Range(all) PROVE FALSE
    OBVIOUS
  <2>1. all \in Surjection(1 .. n, Ends)
    <3>1. all \in [1 .. n -> Ends]
      BY <1>2
    <3>2. \A e \in Ends : \E k \in 1 .. n : all[k] = e
      BY <1>2 DEF Range
    <3> QED BY <3>1, <3>2 DEF Surjection
  <2>2. IsFiniteSet(1 .. n) /\ Cardinality(1 .. n) = n
    BY FS_Interval
  <2>3. Cardinality(Ends) <= Cardinality(1 .. n)
    BY <2>1, <2>2, FS_Surjection
  <2> QED BY <1>1, <2>2, <2>3
<1>4. x \in S
  <2> HIDE DEF x
  <2>1. S \subseteq DOMAIN spans
    BY <1>1
  <2> HIDE DEF S
  <2> QED BY <1>3, <2>1, DeepestIs DEF x
<1>5. x \in Ends /\ \A k \in 1 .. n : all[k] # x
  BY <1>2, <1>4 DEF Range
<1> HIDE DEF x
<1>6. new \in Seq(Ends) /\ Len(new) = n + 1 /\ DOMAIN new = 1 .. n + 1
      /\ (\A k \in 1 .. n : new[k] = all[k]) /\ new[n + 1] = x
  BY <1>2, <1>5
<1> HIDE DEF new
<1>7. \A k, l \in DOMAIN new : new[k] = new[l] => k = l
  <2>1. \A k \in DOMAIN new : k = n + 1 \/ k \in 1 .. n
    BY <1>6
  <2> QED BY <1>2, <1>5, <1>6, <2>1 DEF Sends
<1> QED BY <1>6, <1>7 DEF Sends, new, x

LEMMA ExportedIs ==
    ASSUME NamesOK
    PROVE  \E all : /\ Sends(all, Cardinality(Ends))
                    /\ Exported = [k \in DOMAIN all |-> Sent(all[k])]
<1> DEFINE V == Cardinality(Ends)
           Body(f) == [n \in 0 .. V |->
                          IF n = 0 THEN <<>>
                          ELSE LET before == f[n - 1]
                               IN Append(before, Deepest(Ends \ Range(before)))]
           list == CHOOSE f : f = Body(f)
           More(l) == Append(l, Deepest(Ends \ Range(l)))
<1>1. Exported = [k \in DOMAIN list[V] |-> Sent(list[V][k])]
  BY DEF Exported
<1>2. V \in Nat
  BY EndsAreFinite
<1>3. \E f : f = Body(f)
  <2> DEFINE U == Ends \cup {Deepest({})}
             S == Seq(U)
             next == [x \in (1 .. V) \X S |-> More(x[2])]
             start == <<>>
  <2>1. ASSUME NEW l \in S PROVE More(l) \in S
    <3> DEFINE x == Deepest(Ends \ Range(l))
    <3>1. x \in U
      <4>1. CASE Ends \ Range(l) = {}
        BY <4>1
      <4>2. CASE Ends \ Range(l) # {}
        <5> DEFINE T == Ends \ Range(l)
        <5>1. T \subseteq DOMAIN spans /\ T # {} /\ T \subseteq Ends
          BY <4>2, EndsAreFinite
        <5>2. Deepest(T) \in T
          <6> HIDE DEF T
          <6> QED BY <5>1, DeepestIs
        <5> QED BY <5>1, <5>2
      <4> QED BY <4>1, <4>2
    <3> HIDE DEF x, U
    <3>2. Append(l, x) \in Seq(U)
      BY <3>1
    <3> QED BY <3>2 DEF x
  <2>2. start \in S
    OBVIOUS
  <2>3. IsStep(next, V, S) /\ \A k \in 1 .. V, l \in S : next[<<k, l>>] = More(l)
    <3> HIDE DEF S, V, More
    <3> QED BY <2>1 DEF IsStep
  <2> HIDE DEF next, S, V, start
  <2>4. PICK f : Iterates(f, V, S, start, next)
    BY <1>2, <2>2, <2>3, Iterated
  <2>5. ASSUME NEW k \in 0 .. V
        PROVE  f[k] = IF k = 0 THEN <<>> ELSE More(f[k - 1])
    <3> HIDE DEF More
    <3>1. CASE k = 0
      BY <2>4, <3>1 DEF Iterates, start
    <3>2. CASE k # 0
      <4>1. k \in 1 .. V /\ k - 1 \in 0 .. V
        BY <1>2, <3>2
      <4>2. f[k - 1] \in S /\ f[k] = next[<<k, f[k - 1]>>]
        BY <2>4, <4>1 DEF Iterates
      <4> QED BY <2>3, <3>2, <4>1, <4>2
    <3> QED BY <3>1, <3>2
  <2>6. f = [k \in 0 .. V |-> f[k]]
    BY <2>4 DEF Iterates
  <2>7. f = Body(f)
    BY <2>5, <2>6
  <2> QED BY <2>7
<1>4. list = Body(list)
  BY <1>3
<1> HIDE DEF list
<1>5. list[0] = <<>> /\ \A k \in 1 .. V : list[k] = More(list[k - 1])
  <2>1. \A k \in 0 .. V : list[k] = IF k = 0 THEN <<>> ELSE More(list[k - 1])
    BY <1>4
  <2> HIDE DEF V, More
  <2> QED BY <1>2, <2>1
<1> DEFINE Bad == {k \in 0 .. V : ~Sends(list[k], k)}
<1>6. Bad = {}
  <2> SUFFICES ASSUME Bad # {} PROVE FALSE
    OBVIOUS
  <2>1. Bad \in SUBSET Nat
    BY <1>2
  <2>2. PICK m \in Bad : m = 0 \/ (m - 1 \in Nat /\ m - 1 \notin Bad)
    <3> HIDE DEF Bad
    <3> QED BY <2>1, Least
  <2>3. Sends(list[0], 0)
    BY <1>5 DEF Sends
  <2>4. m \in 1 .. V /\ m - 1 \in 0 .. V /\ m - 1 < V
    BY <1>2, <2>2, <2>3
  <2>5. Sends(list[m - 1], m - 1)
    BY <2>2, <2>4
  <2>6. Sends(More(list[m - 1]), (m - 1) + 1)
    <3>1. m - 1 \in Nat
      BY <2>4
    <3> QED BY <2>4, <2>5, <3>1, SendsOneMore
  <2>7. (m - 1) + 1 = m
    BY <2>4
  <2> HIDE DEF More
  <2>8. Sends(list[m], m)
    BY <1>5, <2>4, <2>6, <2>7
  <2> QED BY <2>2, <2>8
<1>7. Sends(list[V], V)
  <2>1. V \in 0 .. V
    BY <1>2
  <2> QED BY <1>6, <2>1
<1> QED BY <1>1, <1>7

LEMMA SentIs ==
    ASSUME NamesOK, SpansFormTheRun
    PROVE  LET sent == Exported IN
           \E M : /\ sent \in Seq(M) /\ Clocked(sent)
                  /\ \A k, l \in DOMAIN sent : sent[k] = sent[l] => k = l
                  /\ \A k \in DOMAIN sent : \E s \in DOMAIN spans : sent[k] = Sent(s)
<1> DEFINE sent == Exported
           M == {Sent(s) : s \in DOMAIN spans}
<1>1. PICK all : /\ Sends(all, Cardinality(Ends))
                 /\ sent = [k \in DOMAIN all |-> Sent(all[k])]
  BY ExportedIs
<1> HIDE DEF sent
<1> DEFINE n == Len(all)
<1>2. n \in Nat /\ DOMAIN all = 1 .. n /\ \A k \in 1 .. n : all[k] \in DOMAIN spans
  <2>1. all \in Seq(Ends) /\ Ends \subseteq DOMAIN spans
    BY <1>1, EndsAreFinite DEF Sends
  <2> QED BY <2>1
<1> HIDE DEF n
<1>3. DOMAIN sent = 1 .. n /\ \A k \in 1 .. n : sent[k] = Sent(all[k]) /\ sent[k] \in M
  BY <1>1, <1>2
<1>4. sent \in Seq(M)
  <2>1. sent = [k \in 1 .. n |-> sent[k]]
    BY <1>1, <1>3
  <2> HIDE DEF M
  <2> QED BY <1>2, <1>3, <2>1
<1>5. ASSUME NEW k \in DOMAIN sent PROVE sent[k].start \in Int /\ sent[k].end \in Int
  <2>1. all[k] \in SpanId /\ all[k].kind \in {"run", "step", "system"} /\ sent[k] = Sent(all[k])
    BY <1>2, <1>3 DEF NamesOK
  <2>2. all[k].step \in Nat
    BY <2>1, PairsAreFinite DEF SpanId
  <2>3. Depth(all[k]) \in 0 .. 2
    BY <2>1 DEF Depth
  <2> QED BY <2>1, <2>2, <2>3 DEF Sent
<1>6. ASSUME NEW k \in DOMAIN sent, NEW l \in DOMAIN sent, sent[k] = sent[l] PROVE k = l
  <2>1. all[k] = all[l]
    BY <1>3, <1>6 DEF Sent
  <2> QED BY <1>1, <1>2, <1>3, <2>1 DEF Sends
<1>7. \A k \in DOMAIN sent : \E s \in DOMAIN spans : sent[k] = Sent(s)
  BY <1>2, <1>3
<1> QED BY <1>4, <1>5, <1>6, <1>7 DEF Clocked, sent

\* A step lies below its run and a pair below its step: parents are less deep.
LEMMA ListLevelled ==
    ASSUME NamesOK, SpansFormTheRun, NEW list,
           \A k \in DOMAIN list : \E s \in DOMAIN spans : list[k] = Sent(s)
    PROVE  Levelled(list)
<1> DEFINE level == [k \in DOMAIN list |-> Depth(list[k].spanId)]
<1>1. \A k \in DOMAIN list : \E s \in DOMAIN spans :
          s = list[k].spanId /\ list[k].parentSpanId = spans[s].parent
  BY DEF Sent
<1>2. ASSUME NEW s \in DOMAIN spans PROVE Depth(s) \in 0 .. 2
  BY DEF NamesOK, Depth
<1>3. level \in [DOMAIN list -> Nat]
  BY <1>1, <1>2
<1>4. ASSUME NEW i \in DOMAIN list, NEW p \in DOMAIN list,
             list[p].spanId = list[i].parentSpanId
      PROVE  level[p] < level[i]
  <2>1. PICK s \in DOMAIN spans : s = list[i].spanId /\ list[i].parentSpanId = spans[s].parent
    BY <1>1
  <2>2. PICK t \in DOMAIN spans : t = list[p].spanId
    BY <1>1
  <2>3. t = spans[s].parent /\ level[i] = Depth(s) /\ level[p] = Depth(t)
    BY <1>4, <2>1, <2>2
  <2>4. t.kind \in {"run", "step", "system"} /\ s.kind \in {"run", "step", "system"}
    BY DEF NamesOK
  <2>5. CASE s.kind = "run"
    BY <2>3, <2>4, <2>5 DEF SpansFormTheRun, NoSpan
  <2>6. CASE s.kind = "step"
    <3>1. t.kind = "run"
      BY <2>3, <2>6 DEF SpansFormTheRun, RunSpan
    <3>2. Depth(t) = 0 /\ Depth(s) = 1
      BY <2>6, <3>1 DEF Depth
    <3> HIDE DEF level
    <3> QED BY <2>3, <3>2
  <2>7. CASE s.kind = "system"
    <3>1. t.kind = "step"
      BY <2>3, <2>7 DEF SpansFormTheRun, StepSpan
    <3>2. Depth(t) = 1 /\ Depth(s) = 2
      BY <2>7, <3>1 DEF Depth
    <3> HIDE DEF level
    <3> QED BY <2>3, <3>2
  <2> QED BY <2>4, <2>5, <2>6, <2>7
<1> HIDE DEF level
<1> QED BY <1>3, <1>4 DEF Levelled

LEMMA TracesShowAll ==
    ASSUME NamesOK, SpansFormTheRun
    PROVE  TimelineShowsAll
<1> DEFINE sent == Exported
           groups == GroupTraces(sent)
<1>1. PICK M : /\ sent \in Seq(M) /\ Clocked(sent)
               /\ \A k, l \in DOMAIN sent : sent[k] = sent[l] => k = l
               /\ \A k \in DOMAIN sent : \E s \in DOMAIN spans : sent[k] = Sent(s)
  BY SentIs
<1> HIDE DEF sent
<1>2. PICK first : /\ DOMAIN first = DOMAIN groups
                   /\ \A k \in DOMAIN first : first[k] \in Firsts(sent)
                                              /\ groups[k] = Group(first[k], sent)
                   /\ \A k, l \in DOMAIN first : first[k] = first[l] => k = l
                   /\ \A i \in Firsts(sent) : \E k \in DOMAIN first : first[k] = i
  <2>1. sent \in Seq(M) /\ Clocked(sent)
    BY <1>1
  <2> QED BY <2>1, TracesAre, Zenon
<1> HIDE DEF groups
<1>3. ASSUME NEW i \in DOMAIN groups
      PROVE  /\ first[i] \in DOMAIN sent /\ groups[i].traceId = sent[first[i]].traceId
             /\ groups[i].spans \in Seq(M)
             /\ \E order : Lists(groups[i].spans, order, Trace(first[i], sent), sent)
             /\ groups[i].hasError <=> \E k \in DOMAIN groups[i].spans : groups[i].spans[k].error
  <2>1. first[i] \in DOMAIN sent /\ groups[i] = Group(first[i], sent)
    BY <1>2 DEF Firsts
  <2> QED BY <1>1, <2>1, GroupIs
<1>4. ASSUME NEW i \in DOMAIN groups, NEW j \in DOMAIN groups,
             groups[i].traceId = groups[j].traceId
      PROVE  i = j
  <2>1. /\ first[i] \in Firsts(sent) /\ first[j] \in Firsts(sent)
        /\ sent[first[i]].traceId = sent[first[j]].traceId
        /\ first[i] \in Nat /\ first[j] \in Nat /\ first[i] >= 1 /\ first[j] >= 1
    BY <1>1, <1>2, <1>3, <1>4
  <2>2. first[i] = first[j]
    BY <2>1 DEF Firsts
  <2> QED BY <1>2, <2>2
<1>5. ASSUME NEW i \in DOMAIN groups, NEW m \in DOMAIN groups[i].spans
      PROVE  \E e \in DOMAIN sent : groups[i].spans[m] = sent[e] /\ sent[e].traceId = groups[i].traceId
  <2>1. PICK order : Lists(groups[i].spans, order, Trace(first[i], sent), sent)
    BY <1>3
  <2>2. order[m] \in Trace(first[i], sent) /\ groups[i].spans[m] = sent[order[m]]
    BY <2>1 DEF Lists
  <2> QED BY <1>3, <2>2 DEF Trace
<1>6. ASSUME NEW i \in DOMAIN groups, NEW m \in DOMAIN groups[i].spans,
             NEW n \in DOMAIN groups[i].spans, groups[i].spans[m] = groups[i].spans[n]
      PROVE  m = n
  <2>1. PICK order : Lists(groups[i].spans, order, Trace(first[i], sent), sent)
    BY <1>3
  <2>2. sent[order[m]] = sent[order[n]] /\ order[m] \in DOMAIN sent /\ order[n] \in DOMAIN sent
    BY <1>6, <2>1 DEF Lists, Trace
  <2> QED BY <1>1, <2>1, <2>2 DEF Lists
<1>7. ASSUME NEW e \in DOMAIN sent
      PROVE  \E i \in DOMAIN groups : \E m \in DOMAIN groups[i].spans :
                \A j \in DOMAIN groups : \A n \in DOMAIN groups[j].spans :
                   groups[j].spans[n] = sent[e] <=> j = i /\ n = m
  <2>1. PICK f \in Firsts(sent) : sent[f].traceId = sent[e].traceId
    BY <1>1, FirstOf
  <2>2. PICK i \in DOMAIN groups : first[i] = f
    BY <1>2
  <2>3. groups[i].traceId = sent[e].traceId /\ e \in Trace(first[i], sent)
    BY <1>3, <2>1, <2>2 DEF Trace
  <2>4. PICK order : Lists(groups[i].spans, order, Trace(first[i], sent), sent)
    BY <1>3
  <2>5. PICK m \in DOMAIN groups[i].spans : groups[i].spans[m] = sent[e]
    BY <2>3, <2>4 DEF Lists
  <2>6. ASSUME NEW j \in DOMAIN groups, NEW n \in DOMAIN groups[j].spans,
               groups[j].spans[n] = sent[e]
        PROVE  j = i /\ n = m
    <3>1. groups[j].traceId = sent[e].traceId
      BY <1>1, <1>5, <2>6
    <3>2. j = i
      BY <1>4, <2>3, <3>1
    <3> QED BY <1>6, <2>5, <2>6, <3>2
  <2> QED BY <2>5, <2>6
<1>8. ASSUME NEW i \in DOMAIN groups
      PROVE  LET list == groups[i].spans
                 rows == SpanTreeRows(list)
             IN
             /\ \A m \in DOMAIN list : \E e \in DOMAIN sent : list[m] = sent[e]
             /\ Shows(rows, list)
             /\ \A k \in DOMAIN rows :
                   rows[k].depth = 0 <=> list[rows[k].at].parentSpanId \notin Ids(list)
             /\ groups[i].hasError <=> \E k \in DOMAIN rows : list[rows[k].at].error
  <2> DEFINE list == groups[i].spans
             rows == SpanTreeRows(list)
  <2>1. \A m \in DOMAIN list : \E e \in DOMAIN sent : list[m] = sent[e]
    BY <1>5
  <2>2. list \in Seq(M) /\ (groups[i].hasError <=> \E k \in DOMAIN list : list[k].error)
    BY <1>3
  <2> HIDE DEF list
  <2>3. Timed(list)
    BY <1>1, <2>1 DEF Timed, Clocked
  <2>4. Levelled(list)
    <3>1. \A k \in DOMAIN list : \E s \in DOMAIN spans : list[k] = Sent(s)
      BY <1>1, <2>1
    <3> QED BY <3>1, ListLevelled
  <2>5. /\ Shows(rows, list)
        /\ \A k \in DOMAIN rows :
              rows[k].depth = 0 <=> list[rows[k].at].parentSpanId \notin Ids(list)
    BY <2>2, <2>3, <2>4, RowsShowAll
  <2> HIDE DEF rows
  <2>6. groups[i].hasError <=> \E k \in DOMAIN rows : list[rows[k].at].error
    <3>1. {rows[k].at : k \in DOMAIN rows} = DOMAIN list
      BY <2>5 DEF Shows
    <3> QED BY <2>2, <3>1
  <2> QED BY <2>1, <2>5, <2>6 DEF list, rows
<1> QED BY <1>4, <1>7, <1>8 DEF TimelineShowsAll, sent, groups

\* Whatever the pairs, steps and instrumentations and whenever the page looks, every
\* span the exporter has sent is in one trace of the tab and in one row of its tree,
\* under its parent if that was sent, and at the left margin only if it was not
\* (groupTraces and spanTreeRows of store.ts, instrument-world.ts).
THEOREM EverySpanIsShown == Spec => []TimelineShowsAll
<1>1. OtelInv => TimelineShowsAll
  <2> SUFFICES ASSUME OtelInv PROVE TimelineShowsAll
    OBVIOUS
  <2>1. SpansAreTrue
    BY InvSays
  <2>2. NamesOK
    BY <2>1, KindsAre DEF NamesOK, SpansAreTrue, TypeOK
  <2>3. SpansFormTheRun
    BY <2>1 DEF SpansAreTrue
  <2> QED BY <2>2, <2>3, TracesShowAll
<1> QED
  BY <1>1, OtelInvHolds, PTL

==================================================================================
