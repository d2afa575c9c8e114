-------------------------------- MODULE Devtools --------------------------------
(***************************************************************************)
(* The devtools page (packages/devtools/ui/src: ws.ts, main.tsx, store.ts) *)
(* connected to the server: a socket that is opened again after it closes, *)
(* requests that end with a result, a timeout or the connection, and the   *)
(* reducer that turns server messages into what is shown.                  *)
(* X_Variant is X with a plausible defect; nothing uses it.                *)
(***************************************************************************)
EXTENDS DevtoolsServer

CONSTANTS
    MaxConns,     \* bound of sockets opened
    MaxRequests,  \* bound of the user's requests
    MaxUnread,    \* bound of messages under way at which the server does no more
    EventCap,     \* EVENT_CAP
    SpanCap       \* SPAN_CAP

ASSUME BoundsAreNumbers ==
    {MaxContent, MaxRuns, MaxExports, SpanBuffer, MaxConns, MaxRequests, EventCap, SpanCap}
        \subseteq Nat

VARIABLES
    status,   \* "open", or "closed" (which stands for "connecting" too)
    pending,  \* the ids of requests without an outcome
    nextId,
    outcome,  \* outcome[id]: "ok" or "error", for settled requests
    ui        \* the reducer's state: [world, trace, events, spans]

pageVars == <<status, pending, nextId, outcome, ui>>
vars == <<serverVars, pageVars>>

TypeOK ==
    /\ ServerTypeOK
    /\ status \in {"open", "closed"}
    /\ pending \subseteq 1 .. nextId
    /\ DOMAIN outcome = 1 .. nextId
    /\ Len(ui.events) <= EventCap

NoWorld == [type |-> "none"]

Init ==
    /\ ServerInit
    /\ status = "closed"
    /\ pending = {}
    /\ nextId = 0
    /\ outcome = <<>>
    /\ ui = [world |-> NoWorld, trace |-> <<>>, events |-> <<>>, spans |-> <<>>]

-----------------------------------------------------------------------------
(* The socket                                                               *)

Settled(ids, how) == [id \in DOMAIN outcome |-> IF id \in ids THEN how ELSE outcome[id]]

Command(id, c, type, step) == [id |-> id, conn |-> c, type |-> type, step |-> step]

\* The backoff timer opens a socket, at the first try or a later one; the server
\* accepts and greets it, and onopen asks for a refresh, whose outcome nobody
\* waits for (id 0 stands for it).
Connect ==
    /\ Macrotask /\ status = "closed"
    /\ status' = "open"
    /\ open' = TRUE
    /\ conn' = conn + 1
    /\ down' = Greeting
    /\ up' = Append(up, Command(0, conn + 1, "refresh", 0))
    /\ untold' = AllTold
    /\ UNCHANGED <<world, runs, saved, flush, emitted, spanVars, shown, refreshes, loading,
                   effects, ui, pending, nextId, outcome>>

\* onclose: failAll, and a timer that opens another socket.
Disconnect ==
    /\ status = "open" /\ conn < MaxConns
    /\ status' = "closed"
    /\ open' = FALSE
    /\ down' = <<>>
    /\ pending' = {}
    /\ outcome' = Settled(pending, "error")
    /\ UNCHANGED <<worldVars, spanVars, conn, up, shown, refreshes, loading, effects, nextId, ui>>

\* request(): rejected at once unless the socket is open.
Request ==
    /\ status = "open" /\ nextId < MaxRequests
    /\ nextId' = nextId + 1
    /\ pending' = pending \cup {nextId'}
    /\ outcome' = Append(outcome, "none")
    /\ \E type \in {"mutate", "run", "send", "load-step"} : \E step \in 1 .. 2 :
          /\ type # "load-step" => step = 1
          /\ up' = Append(up, Command(nextId', conn, type, step))
    /\ UNCHANGED <<worldVars, spanVars, conn, open, down, shown, refreshes, loading, effects,
                   status, ui>>

Timeout(id) ==
    /\ id \in pending
    /\ pending' = pending \ {id}
    /\ outcome' = Settled({id}, "error")
    /\ UNCHANGED <<serverVars, status, nextId, ui>>

-----------------------------------------------------------------------------
(* The reducer                                                              *)

Capped_Oldest(s, cap) == IF Len(s) > cap THEN SubSeq(s, 1, cap) ELSE s
Capped(s, cap) == IF Len(s) > cap THEN SubSeq(s, Len(s) - cap + 1, Len(s)) ELSE s

\* A span that is known keeps its place (a Map keyed by trace and span).
Merged_Blind(spans, new) == spans \o new
Put(spans, s) == IF s \in Range(spans) THEN spans ELSE Append(spans, s)
Merged(spans, new) ==
    LET after[n \in 0 .. Len(new)] == IF n = 0 THEN spans ELSE Put(after[n - 1], new[n])
    IN after[Len(new)]

Reduced(state, msg) ==
    CASE msg.type = "world" -> [state EXCEPT !.world = msg]
      [] msg.type = "trace" -> [state EXCEPT !.trace = msg.steps]
      [] msg.type = "event" -> [state EXCEPT !.events = Capped(Append(@, msg.n), EventCap)]
      [] msg.type = "spans" -> [state EXCEPT !.spans = Capped(Merged(@, msg.spans), SpanCap)]

\* The next message arrives: a result settles its request if that still waits,
\* the others are reduced.  That main.tsx keeps them for the next frame is left
\* out: a frame reduces them in the order they came, and the caps make no other
\* difference than which spans are dropped when one frame brings a span twice.
Receive ==
    /\ down # <<>>
    /\ down' = Tail(down)
    /\ LET msg == Head(down) IN
       IF msg.type = "result"
       THEN /\ pending' = pending \ {msg.id}
            /\ outcome' = Settled(pending \cap {msg.id}, IF msg.ok THEN "ok" ELSE "error")
            /\ UNCHANGED ui
       ELSE /\ ui' = Reduced(ui, msg)
            /\ UNCHANGED <<pending, outcome>>
    /\ UNCHANGED <<worldVars, spanVars, conn, open, up, shown, refreshes, loading, effects,
                   status, nextId>>

Next ==
    \/ Len(down) < MaxUnread /\ ServerNext /\ UNCHANGED pageVars
    \/ Connect \/ Disconnect \/ Request \/ Receive
    \/ \E id \in pending : Timeout(id)

Spec == Init /\ [][Next]_vars

-----------------------------------------------------------------------------
(* Properties                                                               *)

Quiet == status = "open" /\ down = <<>> /\ ~flush /\ ~world.running

\* Once everything sent has arrived, the page shows the committed content, the
\* step and the running flag of the idle world: no order of mutations, runs, loads,
\* history reads and reconnects leaves it with an older state.  The exception is what
\* a load or a spawn that threw half-way has changed: nobody is notified of it, so the
\* page shows the world before it until the server next tells one.
ViewIsCurrent == Quiet /\ ~untold.world => ui.world = WorldMessage(world, shown)

\* It shows the flight recorder too, except for two things the server does not send
\* it: the entries of runs that ended with every candidate vetoed, until the next
\* step, and a load, which empties the recorder while the page keeps the steps of
\* the old timeline until the next one of the new.
Told == SubSeq(world.trace, 1, Len(world.trace) - untold.trace)
TraceIsCurrentOrEmptied == Quiet => ui.trace = Told \/ Told = <<>>

\* Run events are shown in the order they were emitted and never twice, across
\* reconnects and past the cap; only a lost socket leaves a gap, and a page on
\* its first one shows the newest.
EventsInOrder ==
    /\ \A i, j \in DOMAIN ui.events : i < j => ui.events[i] < ui.events[j]
    /\ Cardinality({i \in 2 .. Len(ui.events) : ui.events[i] # ui.events[i - 1] + 1}) < conn \/ conn = 0
    /\ Quiet /\ conn = 1 /\ ui.events # <<>> => Last(ui.events) = emitted

\* A command takes effect at most once, and one the page reports as done did:
\* a late or lost result, a timeout or a reconnect never turns a refusal or
\* another command's result into a success.
AcksAreTrue ==
    /\ \A i, j \in DOMAIN effects : effects[i] = effects[j] => i = j
    /\ \A id \in DOMAIN outcome : outcome[id] = "ok" => id \in Range(effects)

\* When the socket closes nobody keeps waiting for a result that cannot come.
NoRequestStranded == pending # {} => status = "open"

\* No span is shown twice, although the server replays its buffer to every new
\* socket and exporters retry; and what the buffer holds is shown, as long as
\* the page dropped none to keep its cap.
SpansShownOnce ==
    /\ IsInjective(ui.spans)
    /\ Len(ui.spans) <= SpanCap
    /\ (status = "open" /\ down = <<>> /\ Len(ui.spans) < SpanCap)
            => Range(spanBuffer) \subseteq Range(ui.spans)

\* What the page shows is what the server told, and but for the two exceptions above
\* what there is: the world, its recorder and the run events, in order and once.
PageSafety == TypeOK /\ ViewIsCurrent /\ TraceIsCurrentOrEmptied /\ EventsInOrder

\* Every request gets one outcome, and a true one.
RequestsSettle == AcksAreTrue /\ NoRequestStranded
================================================================================
