------------------------------ MODULE DevtoolsProofs ------------------------------
(***************************************************************************)
(* Proofs about Devtools, for every bound: what the page shows once all    *)
(* messages have arrived, and the outcomes of its requests.                *)
(***************************************************************************)
EXTENDS Devtools, FiniteSetTheorems, WellFoundedInduction, TLAPS

(***************************************************************************)
(* What travels, and the shape of the state.                               *)
(***************************************************************************)
Message ==
    [type : {"world"}, content : Nat, step : Nat, running : BOOLEAN, hist : SUBSET Nat]
    \cup [type : {"trace"}, steps : Seq(Nat)]
    \cup [type : {"event"}, n : Nat, kind : {"start", "step", "end"}]
    \cup [type : {"spans"}, spans : Seq(Span)]
    \cup [type : {"result"}, id : Nat, ok : BOOLEAN]

Commands ==
    [id : Nat, conn : Nat, type : {"refresh", "mutate", "run", "send", "load-step"}, step : Nat]

\* A step is never ahead of the content it left, and the recorder holds no more
\* steps than there were.
ServerOK ==
    /\ ServerTypeOK
    /\ world.step <= world.content /\ Len(world.trace) <= world.content
    /\ saved \in [DOMAIN saved -> 0 .. MaxContent] /\ \A s \in DOMAIN saved : s <= saved[s]
    /\ spanBuffer \in Seq(Span)
    /\ emitted \in Nat /\ conn \in Nat
    /\ up \in Seq(Commands) /\ loading \subseteq Commands

PageOK ==
    /\ status \in {"open", "closed"} /\ open = (status = "open")
    /\ down \in Seq(Message)
    /\ ~open => down = <<>>
    /\ nextId \in Nat /\ pending \subseteq 1 .. nextId
    /\ outcome \in [1 .. nextId -> {"none", "ok", "error"}]
    /\ ui = [world |-> ui.world, trace |-> ui.trace, events |-> ui.events, spans |-> ui.spans]
    /\ ui.events \in Seq(Nat) /\ Len(ui.events) <= EventCap

(***************************************************************************)
(* The newest message of its type among those under way, d, is msg; when   *)
(* there is none of the type, the page has seen msg.                       *)
(***************************************************************************)
NewestIs(d, msg, seen) ==
    \/ \E i \in DOMAIN d : /\ d[i] = msg
                           /\ \A j \in DOMAIN d : j > i => d[j].type # msg.type
    \/ seen /\ \A j \in DOMAIN d : d[j].type # msg.type

ViewOK ==
    open /\ ~flush /\ ~world.running /\ ~untold.world =>
        NewestIs(down, WorldMessage(world, shown), ui.world = WorldMessage(world, shown))

\* The recorder as the server last told it.
TraceTold == [type |-> "trace", steps |-> Told]

TraceOK == open => Told = <<>> \/ NewestIs(down, TraceTold, ui.trace = Told)

(***************************************************************************)
(* The first event from place i of d on is number n; if there is none, n   *)
(* is the next one to be emitted after top.                                *)
(***************************************************************************)
IsEvent(msg) == msg.type = "event"

NextIs(d, i, n, top) ==
    \/ \E k \in DOMAIN d : /\ i <= k /\ IsEvent(d[k]) /\ d[k].n = n
                           /\ \A j \in DOMAIN d : i <= j /\ j < k => ~IsEvent(d[j])
    \/ n = top + 1 /\ \A j \in DOMAIN d : i <= j => ~IsEvent(d[j])

Gaps(s) == {i \in 2 .. Len(s) : s[i] # s[i - 1] + 1}
GapBefore(s, n) == IF s # <<>> /\ Last(s) + 1 # n THEN 1 ELSE 0

\* The events under way are consecutive, those shown came before them, and every
\* gap between two neighbours is a lost socket's.
EventsOK ==
    /\ \A i, j \in DOMAIN ui.events : i < j => ui.events[i] < ui.events[j]
    /\ \A i \in DOMAIN ui.events : ui.events[i] <= emitted
    /\ conn = 0 => ui.events = <<>> /\ ~open
    /\ conn > 0 => Cardinality(Gaps(ui.events)) < conn
    /\ \A i \in DOMAIN down :
          IsEvent(down[i]) => /\ down[i].n <= emitted
                              /\ NextIs(down, i + 1, down[i].n + 1, emitted)
    /\ open => \E n \in 1 .. emitted + 1 :
          /\ NextIs(down, 1, n, emitted)
          /\ \A i \in DOMAIN ui.events : ui.events[i] < n
          /\ Cardinality(Gaps(ui.events)) + GapBefore(ui.events, n) < conn

(***************************************************************************)
(* A command that is still to be handled has had no effect, and no result  *)
(* under way lies.                                                         *)
(***************************************************************************)
CommandsOK ==
    /\ \A i \in DOMAIN up : /\ up[i].id <= nextId /\ (up[i].id = 0 <=> up[i].type = "refresh")
                            /\ up[i].id \notin Range(effects)
    /\ \A i, j \in DOMAIN up : up[i].id = up[j].id => i = j \/ up[i].id = 0
    /\ \A c \in loading : /\ c.id \in 1 .. nextId /\ c.id \notin Range(effects)
                          /\ \A i \in DOMAIN up : up[i].id # c.id
    /\ \A c, d \in loading : c.id = d.id => c = d
    /\ effects \in Seq(1 .. nextId)
    /\ \A i, j \in DOMAIN effects : effects[i] = effects[j] => i = j

ResultsOK ==
    /\ \A i \in DOMAIN down :
          down[i].type = "result" /\ down[i].ok => down[i].id \in Range(effects) \cup {0}
    /\ \A id \in DOMAIN outcome : outcome[id] = "ok" => id \in Range(effects)
    /\ pending # {} => open

-----------------------------------------------------------------------------
(* Sequences                                                                *)

LEMMA Cat ==
    ASSUME NEW S, NEW a \in Seq(S), NEW b \in Seq(S)
    PROVE  /\ a \o b \in Seq(S)
           /\ DOMAIN a = 1 .. Len(a) /\ DOMAIN b = 1 .. Len(b)
           /\ Len(a) \in Nat /\ Len(b) \in Nat
           /\ DOMAIN (a \o b) = 1 .. (Len(a) + Len(b))
           /\ \A i \in 1 .. Len(a) : (a \o b)[i] = a[i]
           /\ \A i \in 1 .. Len(b) : (a \o b)[Len(a) + i] = b[i]
           /\ \A i \in DOMAIN (a \o b) :
                 \/ i \in DOMAIN a
                 \/ \E k \in DOMAIN b : i = Len(a) + k /\ (a \o b)[i] = b[k]
<1>1. /\ a \o b \in Seq(S)
      /\ DOMAIN a = 1 .. Len(a) /\ DOMAIN b = 1 .. Len(b)
      /\ Len(a) \in Nat /\ Len(b) \in Nat
      /\ DOMAIN (a \o b) = 1 .. (Len(a) + Len(b))
      /\ \A i \in 1 .. Len(a) : (a \o b)[i] = a[i]
  OBVIOUS
<1>2. \A i \in 1 .. Len(b) : (a \o b)[Len(a) + i] = b[i]
  BY <1>1
<1>3. ASSUME NEW i \in DOMAIN (a \o b), i \notin DOMAIN a
      PROVE  \E k \in DOMAIN b : i = Len(a) + k /\ (a \o b)[i] = b[k]
  <2>1. i - Len(a) \in 1 .. Len(b) /\ i = Len(a) + (i - Len(a))
    BY <1>1, <1>3
  <2> QED BY <1>1, <1>2, <2>1
<1> QED BY <1>1, <1>2, <1>3

LEMMA CatAssociates ==
    ASSUME NEW S, NEW a \in Seq(S), NEW b \in Seq(S), NEW c \in Seq(S)
    PROVE  (a \o b) \o c = a \o (b \o c)
OBVIOUS

LEMMA CatEmpty ==
    ASSUME NEW S, NEW a \in Seq(S)
    PROVE  a \o <<>> = a
OBVIOUS

LEMMA TailOf ==
    ASSUME NEW S, NEW a \in Seq(S), a # <<>>
    PROVE  /\ Head(a) = a[1] /\ Head(a) \in S
           /\ Tail(a) \in Seq(S) /\ Len(a) \in Nat \ {0}
           /\ DOMAIN a = 1 .. Len(a) /\ DOMAIN Tail(a) = 1 .. (Len(a) - 1)
           /\ \A i \in DOMAIN Tail(a) : Tail(a)[i] = a[i + 1] /\ i + 1 \in DOMAIN a
OBVIOUS

LEMMA AppendOf ==
    ASSUME NEW S, NEW a \in Seq(S), NEW x \in S
    PROVE  /\ Append(a, x) \in Seq(S)
           /\ Len(Append(a, x)) = Len(a) + 1
           /\ Len(a) \in Nat /\ DOMAIN a = 1 .. Len(a)
           /\ DOMAIN Append(a, x) = 1 .. (Len(a) + 1)
           /\ \A i \in 1 .. Len(a) : Append(a, x)[i] = a[i]
           /\ Append(a, x)[Len(a) + 1] = x
           /\ Range(Append(a, x)) = Range(a) \cup {x}
<1>1. /\ Append(a, x) \in Seq(S)
      /\ Len(Append(a, x)) = Len(a) + 1
      /\ Len(a) \in Nat /\ DOMAIN a = 1 .. Len(a)
      /\ DOMAIN Append(a, x) = 1 .. (Len(a) + 1)
      /\ \A i \in 1 .. Len(a) : Append(a, x)[i] = a[i]
      /\ Append(a, x)[Len(a) + 1] = x
  OBVIOUS
<1>2. Range(Append(a, x)) \subseteq Range(a) \cup {x}
  BY <1>1 DEF Range
<1>3. Range(a) \subseteq Range(Append(a, x))
  <2> SUFFICES ASSUME NEW i \in DOMAIN a PROVE a[i] \in Range(Append(a, x))
    BY DEF Range
  <2> QED BY <1>1 DEF Range
<1>4. x \in Range(Append(a, x))
  BY <1>1 DEF Range
<1> QED BY <1>1, <1>2, <1>3, <1>4

LEMMA Bounded ==
    ASSUME NEW S, NEW n \in Nat, NEW a
    PROVE  a \in BoundedSeq(S, n) <=> a \in Seq(S) /\ Len(a) <= n
<1>1. ASSUME a \in BoundedSeq(S, n) PROVE a \in Seq(S) /\ Len(a) <= n
  BY <1>1 DEF BoundedSeq, SeqOf
<1>2. ASSUME a \in Seq(S), Len(a) <= n PROVE a \in BoundedSeq(S, n)
  <2>1. a \in [1 .. Len(a) -> S] /\ Len(a) \in 0 .. n
    BY <1>2
  <2> QED BY <2>1 DEF BoundedSeq, SeqOf
<1> QED BY <1>1, <1>2

LEMMA Tuples ==
    ASSUME NEW S, NEW x \in S, NEW y \in S, NEW z \in S
    PROVE  /\ <<x>> \in Seq(S) /\ DOMAIN <<x>> = {1} /\ <<x>>[1] = x
           /\ <<x, y>> \in Seq(S) /\ DOMAIN <<x, y>> = {1, 2} /\ Len(<<x, y>>) = 2
           /\ <<x, y>>[1] = x /\ <<x, y>>[2] = y
           /\ <<x, y, z>> \in Seq(S) /\ DOMAIN <<x, y, z>> = {1, 2, 3}
           /\ <<x, y, z>>[1] = x /\ <<x, y, z>>[2] = y /\ <<x, y, z>>[3] = z
           /\ <<x>> # <<>> /\ <<x, y>> # <<>> /\ <<x, y, z>> # <<>>
OBVIOUS

-----------------------------------------------------------------------------
(* What the server has told of the recorder                                 *)

LEMMA Prefix ==
    ASSUME NEW S, NEW t \in Seq(S), NEW x \in S, NEW k \in 0 .. Len(t)
    PROVE  /\ SubSeq(t, 1, Len(t) - 0) = t
           /\ SubSeq(Append(t, x), 1, Len(Append(t, x)) - (k + 1)) = SubSeq(t, 1, Len(t) - k)
           /\ k + 1 \in 0 .. Len(Append(t, x))
<1>1. Len(t) \in Nat /\ Append(t, x) \in Seq(S) /\ Len(Append(t, x)) = Len(t) + 1
  OBVIOUS
<1>2. \A i \in 1 .. Len(t) : Append(t, x)[i] = t[i]
  OBVIOUS
<1>3. Len(t) - k \in 0 .. Len(t) /\ Len(Append(t, x)) - (k + 1) = Len(t) - k /\ Len(t) - 0 = Len(t)
  BY <1>1
<1>4. SubSeq(t, 1, Len(t)) = t
  OBVIOUS
<1>5. SubSeq(Append(t, x), 1, Len(t) - k) = SubSeq(t, 1, Len(t) - k)
  BY <1>1, <1>2, <1>3
<1> QED BY <1>1, <1>3, <1>4, <1>5

\* After a step that leaves no entry untold, all of it has been told.
LEMMA AllOfItNext ==
    ASSUME NEW S, world'.trace \in Seq(S), untold'.trace = 0
    PROVE  Told' = world'.trace /\ TraceTold' = TraceMessage(world')
<1>1. SubSeq(world'.trace, 1, Len(world'.trace) - 0) = world'.trace
  OBVIOUS
<1> QED BY <1>1 DEF Told, TraceTold, TraceMessage

LEMMA ToldSame ==
    ASSUME world'.trace = world.trace, untold'.trace = untold.trace
    PROVE  Told' = Told /\ TraceTold' = TraceTold
BY DEF Told, TraceTold

-----------------------------------------------------------------------------
(* The messages of a step of the server                                     *)

\* The worlds the server shows.
Worlds == [content : Nat, step : Nat, running : BOOLEAN, trace : Seq(Nat)]

LEMMA WorldIsMessage ==
    ASSUME NEW w \in Worlds, NEW hist \in SUBSET Nat
    PROVE  WorldMessage(w, hist) \in Message /\ WorldMessage(w, hist).type = "world"
BY DEF WorldMessage, Message, Worlds

LEMMA TraceIsMessage ==
    ASSUME NEW w \in Worlds
    PROVE  TraceMessage(w) \in Message /\ TraceMessage(w).type = "trace"
BY DEF TraceMessage, Message, Worlds

LEMMA EventIsMessage ==
    ASSUME NEW kind \in {"start", "step", "end"}, emitted \in Nat, NEW e,
           e = [type |-> "event", n |-> emitted + 1, kind |-> kind]
    PROVE  e \in Message /\ e.type = "event" /\ e.n = emitted + 1
BY DEF Message

LEMMA SpansIsMessage ==
    ASSUME NEW s \in Seq(Span)
    PROVE  Spans(s) \in Message /\ Spans(s).type = "spans"
BY DEF Spans, Message

LEMMA ResultIsMessage ==
    ASSUME NEW id \in Nat, NEW ok \in BOOLEAN
    PROVE  /\ Result(id, ok) \in Message
           /\ Result(id, ok).type = "result" /\ Result(id, ok).id = id /\ Result(id, ok).ok = ok
BY DEF Result, Message

LEMMA OneResult ==
    ASSUME NEW id \in Nat, NEW more, more = <<Result(id, TRUE)>> \/ more = <<>>
    PROVE  /\ more \in Seq(Message)
           /\ \A i \in DOMAIN more : more[i].type = "result" /\ more[i].id = id
<1>1. CASE more = <<>>
  BY <1>1
<1>2. CASE more = <<Result(id, TRUE)>>
  <2>1. Result(id, TRUE) \in Message /\ Result(id, TRUE).type = "result" /\ Result(id, TRUE).id = id
    BY ResultIsMessage
  <2>2. more \in Seq(Message) /\ DOMAIN more = {1} /\ more[1] = Result(id, TRUE)
    BY <1>2, <2>1, Tuples
  <2> QED BY <2>1, <2>2
<1> QED BY <1>1, <1>2

LEMMA RunningWorld ==
    ASSUME NEW w \in Worlds
    PROVE  /\ Running(w) \in Worlds
           /\ Running(w).running /\ Running(w).trace = w.trace
BY DEF Running, Worlds

\* Each message carries what its type says.
LEMMA MessageFields ==
    ASSUME NEW m \in Message
    PROVE  /\ m.type \in {"world", "trace", "event", "spans", "result"}
           /\ m.type = "event" => m.n \in Nat
           /\ m.type = "result" => m.id \in Nat /\ m.ok \in BOOLEAN
           /\ m.type = "spans" => m.spans \in Seq(Span)
BY DEF Message

\* What the state holds can be sent.
LEMMA StateFields ==
    ASSUME ServerOK
    PROVE  /\ world \in Worlds /\ world.trace \in Seq(1 .. MaxContent)
           /\ shown \in SUBSET Nat /\ \A r \in refreshes : r \in SUBSET Nat
           /\ emitted \in Nat /\ flush \in BOOLEAN /\ open \in BOOLEAN
           /\ untold \in [world : BOOLEAN, trace : 0 .. Len(world.trace)]
           /\ saved \in [DOMAIN saved -> 0 .. MaxContent]
<1>1. world \in [content : 0 .. MaxContent, step : 0 .. MaxContent, running : BOOLEAN,
                 trace : BoundedSeq(1 .. MaxContent, MaxContent)]
  BY DEF ServerOK, ServerTypeOK
<1>2. MaxContent \in Nat
  BY BoundsAreNumbers
<1>3. world.trace \in Seq(1 .. MaxContent)
  BY <1>1, <1>2, Bounded
<1>4. world.trace \in Seq(Nat)
  BY <1>2, <1>3
<1>5. \A r \in refreshes \cup {shown} : r \subseteq 0 .. MaxContent
  BY DEF ServerOK, ServerTypeOK
<1>6. /\ emitted \in Nat /\ flush \in BOOLEAN /\ open \in BOOLEAN
      /\ untold \in [world : BOOLEAN, trace : 0 .. Len(world.trace)]
      /\ saved \in [DOMAIN saved -> 0 .. MaxContent]
  BY DEF ServerOK, ServerTypeOK
<1>7. world \in Worlds
  BY <1>1, <1>2, <1>4 DEF Worlds
<1>8. shown \in SUBSET Nat /\ \A r \in refreshes : r \in SUBSET Nat
  BY <1>2, <1>5
<1> QED BY <1>3, <1>6, <1>7, <1>8

(***************************************************************************)
(* A step of the server sends msgs: one event if it emits one, the world   *)
(* and the recorder if it changes them and is not about to, and no false   *)
(* acknowledgement.                                                        *)
(***************************************************************************)
Idle == ~flush /\ ~world.running /\ ~untold.world

Tells(msgs) ==
    /\ msgs \in Seq(Message)
    /\ down' = IF open THEN down \o msgs ELSE down
    /\ \/ emitted' = emitted /\ \A i \in DOMAIN msgs : ~IsEvent(msgs[i])
       \/ /\ emitted' = emitted + 1
          /\ msgs # <<>> /\ IsEvent(msgs[1]) /\ msgs[1].n = emitted + 1
          /\ \A i \in DOMAIN msgs : i > 1 => ~IsEvent(msgs[i])
    /\ \/ flush' \/ world'.running \/ untold'.world
       \/ NewestIs(msgs, WorldMessage(world', shown'), Idle /\ world' = world /\ shown' = shown)
    /\ Told' = <<>> \/ NewestIs(msgs, TraceTold', Told' = Told)
    /\ \A i \in DOMAIN msgs :
          msgs[i].type = "result" /\ msgs[i].ok => msgs[i].id \in Range(effects') \cup {0}

LEMMA NewestAt ==
    ASSUME NEW d, NEW msg, NEW seen, NEW i \in DOMAIN d, d[i] = msg,
           \A j \in DOMAIN d : j > i => d[j].type # msg.type
    PROVE  NewestIs(d, msg, seen)
BY DEF NewestIs

\* A step that says nothing changes nothing it would have to tell.
LEMMA TellsNothing ==
    ASSUME PageOK, down' = down, emitted' = emitted,
           \/ flush' \/ world'.running \/ untold'.world
           \/ UNCHANGED <<flush, world, shown, untold>>,
           Told' = <<>> \/ Told' = Told
    PROVE  Tells(<<>>)
<1>1. down \o <<>> = down
  BY CatEmpty DEF PageOK
<1>2. <<>> \in Seq(Message) /\ DOMAIN <<>> = {}
  OBVIOUS
<1> QED BY <1>1, <1>2 DEF Tells, NewestIs, Idle

\* A result alone tells nothing about the world.
LEMMA TellsResult ==
    ASSUME NEW c, NEW id \in Nat, NEW ok \in BOOLEAN, PageOK,
           Send(c, <<Result(id, ok)>>), emitted' = emitted,
           ok => id \in Range(effects') \cup {0},
           \/ flush' \/ world'.running \/ untold'.world
           \/ UNCHANGED <<flush, world, shown, untold>>,
           Told' = <<>> \/ Told' = Told
    PROVE  \E msgs : Tells(msgs)
<1>1. CASE ~(open /\ c = conn)
  <2>1. down' = down
    BY <1>1 DEF Send
  <2> QED BY <2>1, TellsNothing
<1>2. CASE open /\ c = conn
  <2> DEFINE msgs == <<Result(id, ok)>>
  <2>1. msgs \in Seq(Message) /\ DOMAIN msgs = {1} /\ msgs[1] = Result(id, ok)
    BY ResultIsMessage, Tuples
  <2>2. msgs[1].type = "result" /\ msgs[1].ok = ok /\ msgs[1].id = id
    BY <2>1, ResultIsMessage
  <2>3. WorldMessage(world', shown').type = "world" /\ TraceTold'.type = "trace"
    BY DEF WorldMessage, TraceTold
  <2>4. down' = down \o msgs
    BY <1>2 DEF Send
  <2> HIDE DEF msgs
  <2>5. Tells(msgs)
    BY <1>2, <2>1, <2>2, <2>3, <2>4 DEF Tells, NewestIs, IsEvent, Idle
  <2> QED BY <2>5
<1> QED BY <1>1, <1>2

\* What the observer broadcasts at the start of a run.
LEMMA StartTells ==
    ASSUME ServerOK, NEW w \in Worlds
    PROVE  /\ StartMessages(w) \in Seq(Message) /\ DOMAIN StartMessages(w) = {1, 2}
           /\ Len(StartMessages(w)) = 2
           /\ StartMessages(w)[1].type = "event" /\ StartMessages(w)[1].n = emitted + 1
           /\ StartMessages(w)[2].type = "world"
<1> DEFINE e == [type |-> "event", n |-> emitted + 1, kind |-> "start"]
<1>1. e \in Message /\ e.type = "event" /\ e.n = emitted + 1
  BY EventIsMessage, StateFields
<1>2. WorldMessage(w, shown) \in Message /\ WorldMessage(w, shown).type = "world"
  BY WorldIsMessage, StateFields
<1>3. StartMessages(w) = <<e, WorldMessage(w, shown)>>
  BY DEF StartMessages
<1> HIDE DEF e
<1> QED BY <1>1, <1>2, <1>3, Tuples

\* The start of a run, and results of the command that started it.
LEMMA TellsRun ==
    ASSUME ServerOK, PageOK, NEW w \in Worlds, StartRun(w), w.trace = world.trace,
           NEW more \in Seq(Message),
           \A i \in DOMAIN more : /\ more[i].type = "result"
                                  /\ more[i].ok => more[i].id \in Range(effects') \cup {0},
           down' = IF open THEN down \o (StartMessages(Running(w)) \o more) ELSE down
    PROVE  \E msgs : Tells(msgs)
<1> DEFINE first == StartMessages(Running(w))
<1> DEFINE msgs == first \o more
<1>1. /\ first \in Seq(Message) /\ DOMAIN first = {1, 2} /\ Len(first) = 2
      /\ first[1].type = "event" /\ first[1].n = emitted + 1
      /\ first[2].type = "world"
  BY StartTells, RunningWorld
<1>2. down' = IF open THEN down \o msgs ELSE down
  OBVIOUS
<1> HIDE DEF first
<1>3. /\ msgs \in Seq(Message) /\ DOMAIN msgs = 1 .. (2 + Len(more)) /\ Len(more) \in Nat
      /\ msgs[1] = first[1] /\ msgs[2] = first[2]
      /\ \A i \in DOMAIN msgs : i \in DOMAIN first \/ \E k \in DOMAIN more : msgs[i] = more[k]
  <2>1. 1 \in 1 .. Len(first) /\ 2 \in 1 .. Len(first)
    BY <1>1
  <2> QED BY <1>1, <2>1, Cat
<1> HIDE DEF msgs
<1>4. \A i \in DOMAIN msgs :
          \/ i = 1 \/ i = 2
          \/ msgs[i].type = "result" /\ (msgs[i].ok => msgs[i].id \in Range(effects') \cup {0})
  BY <1>1, <1>3
<1>5. world'.running /\ world'.trace = world.trace /\ emitted' = emitted + 1
      /\ untold'.trace = untold.trace
  BY RunningWorld, StateFields DEF StartRun, WorldTold
<1>6. msgs # <<>> /\ 1 \in DOMAIN msgs
  BY <1>3
<1>7. \A i \in DOMAIN msgs : i > 1 => ~IsEvent(msgs[i])
  BY <1>1, <1>3, <1>4 DEF IsEvent
<1>8. \A i \in DOMAIN msgs : msgs[i].type # "trace"
  BY <1>1, <1>3, <1>4
<1>9. TraceTold'.type = "trace" /\ Told' = Told
  BY <1>5, ToldSame DEF TraceTold
<1>10. \A i \in DOMAIN msgs :
          msgs[i].type = "result" /\ msgs[i].ok => msgs[i].id \in Range(effects') \cup {0}
  BY <1>1, <1>3, <1>4
<1>11. NewestIs(msgs, TraceTold', Told' = Told)
  BY <1>8, <1>9 DEF NewestIs
<1>12. IsEvent(msgs[1]) /\ msgs[1].n = emitted + 1
  BY <1>1, <1>3 DEF IsEvent
<1>13. Tells(msgs)
  BY <1>2, <1>3, <1>5, <1>6, <1>7, <1>10, <1>11, <1>12 DEF Tells
<1> QED BY <1>13

LEMMA TellsProgramRuns ==
    ASSUME ServerOK, PageOK, ProgramRuns
    PROVE  \E msgs : Tells(msgs)
<1>1. world \in Worlds /\ StartRun(world)
  BY StateFields DEF ProgramRuns
<1>2. StartMessages(Running(world)) \in Seq(Message)
  BY <1>1, StartTells, RunningWorld
<1>3. StartMessages(Running(world)) \o <<>> = StartMessages(Running(world))
  BY <1>2, CatEmpty
<1>4. <<>> \in Seq(Message) /\ DOMAIN <<>> = {}
  OBVIOUS
<1>5. down' = IF open THEN down \o (StartMessages(Running(world)) \o <<>>) ELSE down
  BY <1>3 DEF ProgramRuns, Broadcast
<1> QED BY <1>1, <1>4, <1>5, TellsRun

LEMMA TellsRunCommand ==
    ASSUME ServerOK, PageOK, NEW cmd \in Commands, RunCommand(cmd),
           shown' = shown, effects \in Seq(Nat)
    PROVE  \E msgs : Tells(msgs)
<1> DEFINE w == Sent(cmd)
<1>1. CASE Refuse(cmd)
  BY <1>1, TellsResult, ToldSame DEF Refuse, Commands, worldVars
<1>3. CASE /\ Sent(cmd) # world /\ Change(Sent(cmd)) /\ UNCHANGED untold
           /\ Send(cmd.conn, <<Result(cmd.id, FALSE)>>)
  <2>1. flush' /\ emitted' = emitted /\ world'.trace = world.trace /\ untold'.trace = untold.trace
    BY <1>3, StateFields DEF Change, Sent, Worlds
  <2> QED BY <1>3, <2>1, TellsResult, ToldSame DEF Commands
<1>2. CASE /\ StartRun(w) /\ Effect(cmd)
           /\ down' = IF ~open THEN down
                      ELSE down \o StartMessages(Running(w))
                                \o (IF cmd.conn = conn THEN <<Result(cmd.id, TRUE)>> ELSE <<>>)
  <2> DEFINE more == IF cmd.conn = conn THEN <<Result(cmd.id, TRUE)>> ELSE <<>>
  <2>1. /\ StartRun(w) /\ Effect(cmd)
        /\ down' = IF ~open THEN down ELSE (down \o StartMessages(Running(w))) \o more
    BY <1>2
  <2>2. w \in Worlds /\ w.trace = world.trace
    <3>1. world \in Worlds
      BY StateFields
    <3>2. w = world \/ w = [world EXCEPT !.content = @ + 1]
      BY DEF Sent
    <3> HIDE DEF w
    <3> QED BY <3>1, <3>2 DEF Worlds
  <2>3. cmd.id \in Nat
    BY DEF Commands
  <2>4. cmd.id \in Range(effects')
    BY <2>1, <2>3, AppendOf DEF Effect
  <2>5. /\ more \in Seq(Message)
        /\ \A i \in DOMAIN more : /\ more[i].type = "result"
                                  /\ more[i].ok => more[i].id \in Range(effects') \cup {0}
    <3>1. more = <<Result(cmd.id, TRUE)>> \/ more = <<>>
      OBVIOUS
    <3> HIDE DEF more
    <3>2. /\ more \in Seq(Message)
          /\ \A i \in DOMAIN more : more[i].type = "result" /\ more[i].id = cmd.id
      BY <2>3, <3>1, OneResult
    <3> QED BY <2>4, <3>2
  <2> HIDE DEF more, w
  <2>6. StartMessages(Running(w)) \in Seq(Message)
    BY <2>2, StartTells, RunningWorld
  <2>7. (down \o StartMessages(Running(w))) \o more = down \o (StartMessages(Running(w)) \o more)
    BY <2>5, <2>6, CatAssociates DEF PageOK
  <2>8. down' = IF open THEN down \o (StartMessages(Running(w)) \o more) ELSE down
    BY <2>1, <2>7
  <2> QED BY <2>1, <2>2, <2>5, <2>8, TellsRun
<1> QED BY <1>1, <1>2, <1>3 DEF RunCommand

LEMMA TellsStep ==
    ASSUME ServerOK, PageOK, Step
    PROVE  \E msgs : Tells(msgs)
<1> DEFINE w == [world EXCEPT !.content = @ + 1, !.trace = Append(@, world.content + 1)]
<1> DEFINE e == [type |-> "event", n |-> emitted + 1, kind |-> "step"]
<1> DEFINE told == [w EXCEPT !.step = w.step]
<1> DEFINE msgs == StepMessages(w, w.step)
<1>1. w \in Worlds
  <2>1. Append(world.trace, world.content + 1) \in Seq(Nat) /\ world.content + 1 \in Nat
    BY StateFields DEF Worlds
  <2> QED BY <2>1, StateFields DEF Worlds
<1>2. told = w
  BY <1>1 DEF Worlds
<1>3. WorldMessage(told, shown) \in Message /\ WorldMessage(told, shown).type = "world"
  BY <1>1, <1>2, WorldIsMessage, StateFields
<1>4. TraceMessage(w) \in Message /\ TraceMessage(w).type = "trace"
  BY <1>1, TraceIsMessage
<1>5. e \in Message /\ e.type = "event" /\ e.n = emitted + 1
  BY EventIsMessage, StateFields
<1>6. /\ world' = [w EXCEPT !.step = @ + 1] /\ Broadcast(msgs) /\ world.running
      /\ emitted' = emitted + 1 /\ effects' = effects /\ untold'.trace = 0
  BY DEF Step, AllTold
<1>7. world'.running /\ world'.trace = w.trace
  BY <1>1, <1>6, StateFields DEF Worlds
<1>8. TraceTold' = TraceMessage(w)
  <2>1. world'.trace \in Seq(Nat)
    BY <1>1, <1>7 DEF Worlds
  <2>2. TraceTold' = TraceMessage(world')
    BY <1>6, <2>1, AllOfItNext
  <2> QED BY <1>7, <2>2 DEF TraceMessage
<1>9. msgs = <<e, WorldMessage(told, shown), TraceMessage(w)>>
  BY DEF StepMessages
<1> HIDE DEF w, e, told, msgs
<1>10. /\ msgs \in Seq(Message) /\ DOMAIN msgs = {1, 2, 3} /\ msgs # <<>>
       /\ msgs[1] = e /\ msgs[2] = WorldMessage(told, shown) /\ msgs[3] = TraceMessage(w)
  BY <1>3, <1>4, <1>5, <1>9, Tuples
<1>11. NewestIs(msgs, TraceTold', Told' = Told)
  BY <1>8, <1>10 DEF NewestIs
<1>12. Tells(msgs)
  BY <1>3, <1>4, <1>5, <1>6, <1>7, <1>10, <1>11 DEF Tells, IsEvent, Broadcast
<1> QED BY <1>12

\* The end of a run tells the world, and no more of the recorder than was told.
LEMMA EndOfRun ==
    ASSUME ServerOK, EndRun
    PROVE  /\ world' \in Worlds /\ ~world'.running
           /\ Told' = Told /\ ~untold'.world
<1>1. CASE world' = Ended(world) /\ untold' = WorldTold
  <2>1. world' \in Worlds /\ ~world'.running /\ world'.trace = world.trace
        /\ untold'.trace = untold.trace /\ ~untold'.world
    BY <1>1, StateFields DEF Ended, WorldTold, Worlds
  <2> QED BY <2>1, ToldSame
<1>2. CASE /\ world' = Ended([world EXCEPT !.content = @ + 1,
                                            !.trace = Append(@, world.content + 1)])
           /\ untold' = [world |-> FALSE, trace |-> untold.trace + 1]
  <2>1. world.trace \in Seq(Nat) /\ world.content + 1 \in Nat /\ untold.trace \in 0 .. Len(world.trace)
    BY StateFields DEF Worlds
  <2>2. /\ world'.trace = Append(world.trace, world.content + 1) /\ ~world'.running
        /\ world' \in Worlds
    <3> DEFINE t == Append(world.trace, world.content + 1)
    <3>1. t \in Seq(Nat)
      BY <2>1
    <3>2. world' = [[world EXCEPT !.content = @ + 1, !.trace = t] EXCEPT !.running = FALSE]
      BY <1>2, StateFields DEF Ended, Worlds
    <3> HIDE DEF t
    <3>3. /\ world' = [content |-> world.content + 1, step |-> world.step, running |-> FALSE, trace |-> t]
      BY <3>2, StateFields DEF Worlds
    <3>4. world' \in Worlds /\ world'.trace = t /\ ~world'.running
      BY <2>1, <3>1, <3>3, StateFields DEF Worlds
    <3> QED BY <3>4 DEF t
  <2>3. untold'.trace = untold.trace + 1 /\ ~untold'.world
    BY <1>2
  <2>4. SubSeq(Append(world.trace, world.content + 1), 1,
               Len(Append(world.trace, world.content + 1)) - (untold.trace + 1)) = Told
    <3> DEFINE t == world.trace  x == world.content + 1  k == untold.trace
    <3>1. t \in Seq(Nat) /\ x \in Nat /\ k \in 0 .. Len(t)
      BY <2>1
    <3>2. Told = SubSeq(t, 1, Len(t) - k)
      BY DEF Told
    <3> HIDE DEF t, x, k
    <3>3. SubSeq(Append(t, x), 1, Len(Append(t, x)) - (k + 1)) = SubSeq(t, 1, Len(t) - k)
      BY <3>1, Prefix
    <3> QED BY <3>2, <3>3 DEF t, x, k
  <2> QED BY <2>2, <2>3, <2>4 DEF Told
<1> QED BY <1>1, <1>2 DEF EndRun

LEMMA TellsEnd ==
    ASSUME ServerOK, PageOK, EndRun
    PROVE  \E msgs : Tells(msgs)
<1> DEFINE w == world'
<1> DEFINE e == [type |-> "event", n |-> emitted + 1, kind |-> "end"]
<1> DEFINE msgs == EndMessages(w)
<1>1. w \in Worlds /\ Told' = Told
  BY EndOfRun
<1>2. WorldMessage(w, shown) \in Message /\ WorldMessage(w, shown).type = "world"
  BY <1>1, WorldIsMessage, StateFields
<1>3. e \in Message /\ e.type = "event" /\ e.n = emitted + 1
  BY EventIsMessage, StateFields
<1>4. /\ world' = w /\ Broadcast(msgs) /\ emitted' = emitted + 1 /\ shown' = shown
      /\ effects' = effects
  BY DEF EndRun
<1>5. msgs = <<e, WorldMessage(w, shown)>>
  BY DEF EndMessages
<1> HIDE DEF w, e, msgs
<1>6. /\ msgs \in Seq(Message) /\ DOMAIN msgs = {1, 2} /\ msgs # <<>>
      /\ msgs[1] = e /\ msgs[2] = WorldMessage(w, shown)
  BY <1>2, <1>3, <1>5, Tuples
<1>7. TraceTold'.type = "trace"
  BY DEF TraceTold
<1>8. Tells(msgs)
  BY <1>1, <1>2, <1>3, <1>4, <1>6, <1>7 DEF Tells, NewestIs, IsEvent, Broadcast
<1> QED BY <1>8

\* A single state of the world.
LEMMA TellsWorld ==
    ASSUME ServerOK, PageOK, world' = world, untold' = WorldTold, emitted' = emitted,
           shown' \in SUBSET Nat,
           Broadcast(<<WorldMessage(world, shown')>>)
    PROVE  \E msgs : Tells(msgs)
<1> DEFINE msgs == <<WorldMessage(world, shown')>>
<1>1. WorldMessage(world, shown') \in Message /\ WorldMessage(world, shown').type = "world"
  BY WorldIsMessage, StateFields
<1>2. msgs \in Seq(Message) /\ DOMAIN msgs = {1} /\ msgs[1] = WorldMessage(world, shown')
  BY <1>1, Tuples
<1>3. TraceTold'.type = "trace" /\ Told' = Told
  BY ToldSame, StateFields DEF TraceTold, WorldTold
<1> HIDE DEF msgs
<1>4. Broadcast(msgs)
  BY DEF msgs
<1>5. Tells(msgs)
  BY <1>1, <1>2, <1>3, <1>4 DEF Tells, NewestIs, IsEvent, Broadcast
<1> QED BY <1>5

\* A refresh is answered with the world, the recorder and a result.
LEMMA TellsRefresh ==
    ASSUME ServerOK, PageOK, NEW cmd \in Commands, Refresh(cmd), shown' = shown, cmd.id = 0
    PROVE  \E msgs : Tells(msgs)
<1> DEFINE msgs == <<WorldMessage(world, shown), TraceMessage(world), Result(cmd.id, TRUE)>>
<1>1. /\ UNCHANGED <<world, flush, emitted, effects>> /\ Send(cmd.conn, msgs)
      /\ untold' = IF open /\ cmd.conn = conn THEN AllTold ELSE untold
  BY DEF Refresh
<1>2. WorldMessage(world, shown) \in Message /\ WorldMessage(world, shown).type = "world"
  BY WorldIsMessage, StateFields
<1>3. TraceMessage(world) \in Message /\ TraceMessage(world).type = "trace"
  BY TraceIsMessage, StateFields
<1>4. Result(cmd.id, TRUE) \in Message /\ Result(cmd.id, TRUE).type = "result"
      /\ Result(cmd.id, TRUE).id = 0
  BY ResultIsMessage, 0 \in Nat
<1>5. /\ msgs \in Seq(Message) /\ DOMAIN msgs = {1, 2, 3}
      /\ msgs[1] = WorldMessage(world, shown) /\ msgs[2] = TraceMessage(world)
      /\ msgs[3] = Result(cmd.id, TRUE)
  <2> DEFINE w == WorldMessage(world, shown)  t == TraceMessage(world)  r == Result(cmd.id, TRUE)
  <2>1. w \in Message /\ t \in Message /\ r \in Message
    BY <1>2, <1>3, <1>4
  <2> HIDE DEF w, t, r
  <2>2. LET m == <<w, t, r>> IN
        m \in Seq(Message) /\ DOMAIN m = {1, 2, 3} /\ m[1] = w /\ m[2] = t /\ m[3] = r
    BY <2>1, Tuples
  <2> QED BY <2>2 DEF w, t, r
<1> HIDE DEF msgs
<1>51. WorldMessage(world', shown') = WorldMessage(world, shown) /\ TraceMessage(world') = TraceMessage(world)
       /\ world'.trace \in Seq(Nat)
  BY <1>1, StateFields DEF Worlds
<1>52. /\ 1 \in DOMAIN msgs /\ \A j \in DOMAIN msgs : j > 1 => msgs[j].type # "world"
       /\ 2 \in DOMAIN msgs /\ \A j \in DOMAIN msgs : j > 2 => msgs[j].type # "trace"
  <2>1. msgs[2].type # "world" /\ msgs[3].type # "world" /\ msgs[3].type # "trace"
    BY <1>3, <1>4, <1>5
  <2>2. DOMAIN msgs = {1, 2, 3}
    BY <1>5
  <2>3. \A j \in DOMAIN msgs : j > 1 => j = 2 \/ j = 3
    BY <2>2
  <2>4. \A j \in DOMAIN msgs : j > 2 => j = 3
    BY <2>2
  <2> QED BY <2>1, <2>2, <2>3, <2>4
<1>6. CASE open /\ cmd.conn = conn
  <2>1. NewestIs(msgs, WorldMessage(world', shown'),
                 Idle /\ world' = world /\ shown' = shown)
    BY <1>2, <1>3, <1>5, <1>51, <1>52, NewestAt
  <2>4. TraceTold' = TraceMessage(world)
    BY <1>1, <1>6, <1>51, AllOfItNext DEF AllTold
  <2>2. NewestIs(msgs, TraceTold', Told' = Told)
    BY <1>2, <1>3, <1>5, <2>4, <1>52, NewestAt
  <2>3. Tells(msgs)
    BY <1>1, <1>2, <1>3, <1>4, <1>5, <1>6, <2>1, <2>2 DEF Tells, IsEvent, Send
  <2> QED BY <2>3
<1>7. CASE ~(open /\ cmd.conn = conn)
  <2>1. down' = down /\ untold' = untold
    BY <1>1, <1>7 DEF Send
  <2> QED BY <1>1, <2>1, TellsNothing, ToldSame
<1> QED BY <1>6, <1>7

LEMMA TellsMutate ==
    ASSUME ServerOK, PageOK, NEW cmd \in Commands, Mutate(cmd),
           shown' = shown, effects \in Seq(Nat)
    PROVE  \E msgs : Tells(msgs)
<1>1. cmd.id \in Nat
  BY DEF Commands
<1>2. CASE Refuse(cmd)
  BY <1>1, <1>2, TellsResult, ToldSame DEF Refuse, worldVars
<1>3. CASE ~Refuse(cmd)
  <2>1. /\ Change([world EXCEPT !.content = @ + 1])
        /\ Send(cmd.conn, <<Result(cmd.id, TRUE)>>)
        /\ Effect(cmd) /\ untold' = untold
    BY <1>3 DEF Mutate
  <2>2. cmd.id \in Range(effects')
    BY <1>1, <2>1, AppendOf DEF Effect
  <2>3. flush' /\ emitted' = emitted /\ world'.trace = world.trace
    BY <2>1, StateFields DEF Change, Worlds
  <2> QED BY <1>1, <2>1, <2>2, <2>3, TellsResult, ToldSame
<1> QED BY <1>2, <1>3

LEMMA TellsCommand ==
    ASSUME ServerOK, PageOK, CommandsOK, HandleCommand
    PROVE  \E msgs : Tells(msgs)
<1> DEFINE cmd == Head(up)
<1>1. cmd \in Commands /\ cmd = up[1] /\ 1 \in DOMAIN up
  BY TailOf DEF HandleCommand, ServerOK
<1>2. effects \in Seq(Nat)
  BY DEF CommandsOK, PageOK
<1>3. shown' = shown /\ (Refresh(cmd) \/ Mutate(cmd) \/ RunCommand(cmd) \/ LoadStep(cmd))
  BY DEF HandleCommand
<1> HIDE DEF cmd
<1>4. CASE Refresh(cmd)
  <2>1. cmd.id = 0
    BY <1>1, <1>4 DEF CommandsOK, Refresh
  <2> QED BY <1>1, <1>3, <1>4, <2>1, TellsRefresh
<1>5. CASE LoadStep(cmd)
  BY <1>3, <1>5, TellsNothing, ToldSame DEF LoadStep, worldVars
<1> QED BY <1>1, <1>2, <1>3, <1>4, <1>5, TellsMutate, TellsRunCommand

\* The three ends of a load.
LoadRefused(cmd) ==
    /\ Send(cmd.conn, <<Result(cmd.id, FALSE)>>)
    /\ UNCHANGED <<worldVars, effects, refreshes>>
LoadTorn(cmd) ==
    /\ world.content < MaxContent
    /\ Tear([world EXCEPT !.content = @ + 1, !.trace = <<>>])
    /\ Send(cmd.conn, <<Result(cmd.id, FALSE)>>)
    /\ UNCHANGED <<effects, refreshes>>
Loaded(cmd) ==
    /\ cmd.step \in DOMAIN saved
    /\ Change([world EXCEPT !.content = saved[cmd.step], !.step = cmd.step, !.trace = <<>>])
    /\ untold' = [untold EXCEPT !.trace = 0]
    /\ Send(cmd.conn, <<Result(cmd.id, TRUE)>>)
    /\ Effect(cmd)
    /\ refreshes' = refreshes \cup {DOMAIN saved}

LEMMA LoadEnds ==
    ASSUME LoadStepLands
    PROVE  \E cmd \in loading :
              /\ loading' = loading \ {cmd}
              /\ LoadRefused(cmd) \/ LoadTorn(cmd) \/ Loaded(cmd)
BY DEF LoadStepLands, LoadRefused, LoadTorn, Loaded

LEMMA TellsLoad ==
    ASSUME ServerOK, PageOK, CommandsOK, LoadStepLands
    PROVE  \E msgs : Tells(msgs)
<1>1. PICK cmd \in loading : LoadRefused(cmd) \/ LoadTorn(cmd) \/ Loaded(cmd)
  BY LoadEnds
<1>2. cmd.id \in Nat /\ effects \in Seq(Nat) /\ shown' = shown
  BY DEF ServerOK, Commands, CommandsOK, PageOK, LoadStepLands
<1>3. CASE LoadRefused(cmd)
  BY <1>2, <1>3, TellsResult, ToldSame DEF LoadRefused, worldVars
<1>4. ASSUME world'.trace = <<>>, untold'.trace = 0 PROVE Told' = <<>>
  <2>1. world'.trace \in Seq(Nat)
    BY <1>4
  <2> QED BY <1>4, <2>1, AllOfItNext
<1>5. CASE LoadTorn(cmd)
  <2>1. /\ untold'.world /\ untold'.trace = 0 /\ emitted' = emitted /\ world'.trace = <<>>
        /\ Send(cmd.conn, <<Result(cmd.id, FALSE)>>)
    BY <1>5, StateFields DEF LoadTorn, Tear, Worlds
  <2> QED BY <1>2, <1>4, <2>1, TellsResult
<1>6. CASE Loaded(cmd)
  <2>1. /\ flush' /\ emitted' = emitted /\ world'.trace = <<>> /\ Effect(cmd) /\ untold'.trace = 0
        /\ Send(cmd.conn, <<Result(cmd.id, TRUE)>>)
    BY <1>6, StateFields DEF Loaded, Change, Worlds
  <2>2. cmd.id \in Range(effects')
    BY <1>2, <2>1, AppendOf DEF Effect
  <2> QED BY <1>2, <1>4, <2>1, <2>2, TellsResult
<1> QED BY <1>1, <1>3, <1>5, <1>6

LEMMA TellsExport ==
    ASSUME ServerOK, PageOK, Export
    PROVE  \E msgs : Tells(msgs)
<1>1. PICK s \in Span : Broadcast(<<Spans(<<s>>)>>)
  BY DEF Export
<1> DEFINE msgs == <<Spans(<<s>>)>>
<1>2. Spans(<<s>>) \in Message /\ Spans(<<s>>).type = "spans"
  <2>1. <<s>> \in Seq(Span)
    OBVIOUS
  <2> QED BY <2>1, SpansIsMessage
<1>3. msgs \in Seq(Message) /\ DOMAIN msgs = {1} /\ msgs[1] = Spans(<<s>>)
  BY <1>2, Tuples
<1>4. UNCHANGED <<world, flush, emitted, effects, shown, untold>>
  BY DEF Export, worldVars
<1>5. WorldMessage(world', shown').type = "world" /\ TraceTold'.type = "trace" /\ Told' = Told
  BY <1>4, ToldSame DEF WorldMessage, TraceTold
<1> HIDE DEF msgs
<1>6. Broadcast(msgs)
  BY <1>1 DEF msgs
<1>7. Tells(msgs)
  BY <1>2, <1>3, <1>4, <1>5, <1>6 DEF Tells, NewestIs, IsEvent, Broadcast, Idle
<1> QED BY <1>7

\* A write of the program, whether it throws half-way or not.
LEMMA Grown ==
    ASSUME ServerOK, NEW w, w = [world EXCEPT !.content = @ + 1],
           (Change(w) /\ UNCHANGED untold) \/ Tear(w)
    PROVE  /\ flush' \/ untold'.world
           /\ world'.trace = world.trace /\ untold'.trace = untold.trace /\ emitted' = emitted
<1>1. w.trace = world.trace /\ untold.trace \in 0 .. Len(world.trace)
  BY StateFields DEF Worlds
<1>2. CASE Change(w) /\ UNCHANGED untold
  BY <1>1, <1>2 DEF Change
<1>3. CASE Tear(w)
  <2>1. /\ world'.trace = world.trace /\ emitted' = emitted /\ untold'.world
        /\ untold'.trace = IF world.trace = <<>> THEN 0 ELSE untold.trace
    BY <1>1, <1>3 DEF Tear
  <2>2. world.trace = <<>> => untold.trace = 0
    BY <1>1
  <2> QED BY <2>1, <2>2
<1> QED BY <1>2, <1>3

\* Every step of the server tells what it changes.
LEMMA ServerTells ==
    ASSUME ServerOK, PageOK, CommandsOK, ServerNext
    PROVE  \E msgs : Tells(msgs)
<1>1. CASE ProgramWrites
  <2>1. /\ flush' \/ untold'.world
        /\ UNCHANGED <<down, emitted>> /\ world'.trace = world.trace
        /\ untold'.trace = untold.trace
    BY <1>1, Grown DEF ProgramWrites
  <2> QED BY <2>1, TellsNothing, ToldSame
<1>2. CASE Flush
  BY <1>2, TellsWorld, StateFields DEF Flush
<1>3. CASE RefreshLands
  <2>1. PICK steps \in refreshes :
          /\ shown' = steps
          /\ IF steps = shown THEN UNCHANGED <<down, untold>>
             ELSE Broadcast(<<WorldMessage(world, steps)>>) /\ untold' = WorldTold
    BY <1>3 DEF RefreshLands
  <2>2. UNCHANGED <<world, flush, emitted>> /\ steps \in SUBSET Nat
    BY <1>3, StateFields DEF RefreshLands
  <2>3. CASE steps = shown
    BY <2>1, <2>2, <2>3, TellsNothing, ToldSame
  <2>4. CASE steps # shown
    BY <2>1, <2>2, <2>4, TellsWorld
  <2> QED BY <2>3, <2>4
<1> QED
  BY <1>1, <1>2, <1>3, TellsProgramRuns, TellsStep, TellsEnd, TellsCommand, TellsLoad, TellsExport
     DEF ServerNext

-----------------------------------------------------------------------------
(* Types                                                                    *)

\* The server does not open or close sockets.
LEMMA ServerFrame ==
    ASSUME ServerNext
    PROVE  UNCHANGED <<open, conn>>
BY DEF ServerNext, ProgramWrites, ProgramRuns, Step, EndRun, Flush, RefreshLands, HandleCommand,
       LoadStepLands, Export

\* What ServerOK says of the world and of its history.
WorldOK ==
    /\ world \in [content : 0 .. MaxContent, step : 0 .. MaxContent, running : BOOLEAN,
                  trace : BoundedSeq(1 .. MaxContent, MaxContent)]
    /\ world.step <= world.content /\ Len(world.trace) <= world.content
    /\ runs \in 0 .. MaxRuns
    /\ flush \in BOOLEAN /\ emitted \in Nat
    /\ untold \in [world : BOOLEAN, trace : 0 .. Len(world.trace)]

HistoryOK ==
    /\ DOMAIN saved \subseteq 0 .. MaxContent /\ Range(saved) \subseteq 0 .. MaxContent
    /\ \A r \in refreshes \cup {shown} : r \subseteq DOMAIN saved
    /\ saved \in [DOMAIN saved -> 0 .. MaxContent] /\ \A s \in DOMAIN saved : s <= saved[s]

RestOK ==
    /\ open \in BOOLEAN /\ conn \in Nat
    /\ up \in Seq(Commands) /\ loading \subseteq Commands
    /\ Range(spanBuffer) \subseteq Span /\ Len(spanBuffer) <= SpanBuffer
    /\ exports \in 0 .. MaxExports
    /\ spanBuffer \in Seq(Span)

LEMMA ServerParts == ServerOK <=> WorldOK /\ HistoryOK /\ RestOK
BY DEF ServerOK, ServerTypeOK, WorldOK, HistoryOK, RestOK

\* A world with more content, the same step and the same recorder.
LEMMA GrownWorld ==
    ASSUME WorldOK, world.content < MaxContent, NEW w,
           w = [world EXCEPT !.content = @ + 1]
    PROVE  /\ w \in [content : 0 .. MaxContent, step : 0 .. MaxContent, running : BOOLEAN,
                     trace : BoundedSeq(1 .. MaxContent, MaxContent)]
           /\ w.step <= w.content /\ Len(w.trace) <= w.content
           /\ w.trace = world.trace
<1>1. MaxContent \in Nat
  BY BoundsAreNumbers
<1>2. world.trace \in Seq(1 .. MaxContent)
  BY <1>1, Bounded DEF WorldOK
<1>3. Len(world.trace) \in Nat
  BY <1>2
<1>4. w.content = world.content + 1 /\ w.step = world.step /\ w.trace = world.trace
      /\ w.running = world.running
  BY DEF WorldOK
<1> QED BY <1>1, <1>3, <1>4 DEF WorldOK

LEMMA StartRunTypes ==
    ASSUME WorldOK, NEW w, StartRun(w),
           \/ w = world
           \/ w = [world EXCEPT !.content = @ + 1] /\ world.content < MaxContent
    PROVE  WorldOK'
<1>1. /\ w \in [content : 0 .. MaxContent, step : 0 .. MaxContent, running : BOOLEAN,
                trace : BoundedSeq(1 .. MaxContent, MaxContent)]
      /\ w.step <= w.content /\ Len(w.trace) <= w.content /\ w.trace = world.trace
  BY GrownWorld DEF WorldOK
<1>2. world' = [w EXCEPT !.running = TRUE] /\ runs < MaxRuns /\ runs' = runs + 1
      /\ emitted' = emitted + 1 /\ flush' \in BOOLEAN
      /\ untold' = [untold EXCEPT !.world = FALSE]
  BY DEF StartRun, Running, WorldOK, WorldTold
<1>3. MaxRuns \in Nat
  BY BoundsAreNumbers
<1>4. /\ world' \in [content : 0 .. MaxContent, step : 0 .. MaxContent, running : BOOLEAN,
                     trace : BoundedSeq(1 .. MaxContent, MaxContent)]
      /\ world'.step <= world'.content /\ Len(world'.trace) <= world'.content
      /\ world'.trace = world.trace
  BY <1>1, <1>2
<1>5. runs' \in 0 .. MaxRuns /\ emitted' \in Nat
  BY <1>2, <1>3 DEF WorldOK
<1>6. untold' \in [world : BOOLEAN, trace : 0 .. Len(world'.trace)]
  BY <1>2, <1>4 DEF WorldOK
<1> QED BY <1>2, <1>4, <1>5, <1>6 DEF WorldOK

LEMMA ChangeTypes ==
    ASSUME WorldOK, NEW w, w = [world EXCEPT !.content = @ + 1], world.content < MaxContent,
           (Change(w) /\ UNCHANGED untold) \/ Tear(w)
    PROVE  WorldOK'
<1>1. /\ w \in [content : 0 .. MaxContent, step : 0 .. MaxContent, running : BOOLEAN,
                trace : BoundedSeq(1 .. MaxContent, MaxContent)]
      /\ w.step <= w.content /\ Len(w.trace) <= w.content
      /\ w.trace = world.trace
  BY GrownWorld
<1>2. /\ world' = w /\ flush' \in BOOLEAN /\ UNCHANGED <<runs, emitted>>
      /\ \/ untold' = untold
         \/ untold' = [world |-> TRUE, trace |-> 0]
         \/ untold' = [world |-> TRUE, trace |-> untold.trace]
  BY DEF Change, Tear, WorldOK
<1>3. Len(world.trace) \in Nat
  <2>1. world.trace \in Seq(1 .. MaxContent)
    BY BoundsAreNumbers, Bounded DEF WorldOK
  <2> QED BY <2>1
<1>4. untold' \in [world : BOOLEAN, trace : 0 .. Len(world'.trace)]
  <2>1. untold \in [world : BOOLEAN, trace : 0 .. Len(world.trace)] /\ 0 \in 0 .. Len(world.trace)
    BY <1>3 DEF WorldOK
  <2>2. world'.trace = world.trace
    BY <1>1, <1>2
  <2>3. CASE untold' = untold
    BY <2>1, <2>2, <2>3
  <2>4. CASE untold' = [world |-> TRUE, trace |-> 0]
    <3>1. [world |-> TRUE, trace |-> 0] \in [world : BOOLEAN, trace : 0 .. Len(world.trace)]
      BY <2>1
    <3> QED BY <2>2, <2>4, <3>1
  <2>5. CASE untold' = [world |-> TRUE, trace |-> untold.trace]
    <3>1. [world |-> TRUE, trace |-> untold.trace] \in [world : BOOLEAN, trace : 0 .. Len(world.trace)]
      BY <2>1
    <3> QED BY <2>2, <2>5, <3>1
  <2> QED BY <1>2, <2>3, <2>4, <2>5
<1> QED BY <1>1, <1>2, <1>4 DEF WorldOK

\* The history once step s of the world has been saved.
LEMMA KeptTypes ==
    ASSUME HistoryOK, NEW s0 \in 0 .. MaxContent, NEW c \in 0 .. MaxContent, s0 <= c,
           saved' = Kept(s0, c), shown' = shown,
           refreshes' = refreshes \/ refreshes' = refreshes \cup {DOMAIN saved'}
    PROVE  HistoryOK'
<1>1. /\ DOMAIN saved' = DOMAIN saved \cup {s0}
      /\ saved' = [s \in DOMAIN saved' |-> IF s = s0 THEN c ELSE saved[s]]
  BY DEF Kept
<1>2. \A s \in DOMAIN saved' : saved'[s] = IF s = s0 THEN c ELSE saved[s]
  BY <1>1
<1>3. ASSUME NEW s \in DOMAIN saved'
      PROVE  saved'[s] \in 0 .. MaxContent /\ s <= saved'[s]
  <2>1. CASE s = s0
    BY <1>2, <2>1
  <2>2. CASE s # s0
    BY <1>1, <1>2, <2>2 DEF HistoryOK
  <2> QED BY <2>1, <2>2
<1>4. DOMAIN saved' \subseteq 0 .. MaxContent
  BY <1>1 DEF HistoryOK
<1>5. saved' \in [DOMAIN saved' -> 0 .. MaxContent]
  BY <1>1, <1>3
<1>6. Range(saved') \subseteq 0 .. MaxContent
  BY <1>3 DEF Range
<1>7. \A r \in refreshes' \cup {shown'} : r \subseteq DOMAIN saved'
  BY <1>1 DEF HistoryOK
<1> QED BY <1>3, <1>4, <1>5, <1>6, <1>7 DEF HistoryOK

LEMMA StepTypes ==
    ASSUME ServerOK, Step
    PROVE  WorldOK' /\ HistoryOK'
<1> DEFINE w == [world EXCEPT !.content = @ + 1, !.trace = Append(@, world.content + 1)]
<1>1. /\ world.content < MaxContent /\ world' = [w EXCEPT !.step = @ + 1]
      /\ saved' = Kept(w.step + 1, w.content)
      /\ emitted' = emitted + 1 /\ UNCHANGED <<runs, flush, shown, refreshes>>
      /\ untold' = [world |-> FALSE, trace |-> 0]
  BY DEF Step, AllTold
<1>2. MaxContent \in Nat /\ WorldOK /\ HistoryOK
  BY BoundsAreNumbers, ServerParts
<1>3. world.content \in 0 .. MaxContent /\ world.step \in 0 .. world.content
  BY <1>2 DEF WorldOK
<1>4. world.trace \in Seq(1 .. MaxContent) /\ Len(world.trace) \in Nat
  BY StateFields
<1>5. /\ w.content = world.content + 1 /\ w.step = world.step /\ w.running = world.running
      /\ w.trace = Append(world.trace, world.content + 1)
  BY StateFields DEF Worlds
<1>6. /\ Append(world.trace, world.content + 1) \in Seq(1 .. MaxContent)
      /\ Len(Append(world.trace, world.content + 1)) = Len(world.trace) + 1
  BY <1>1, <1>2, <1>3, <1>4
<1>7. /\ world'.content = world.content + 1 /\ world'.step = world.step + 1
      /\ world'.running = world.running /\ world'.trace = Append(world.trace, world.content + 1)
      /\ world' = [content |-> world'.content, step |-> world'.step, running |-> world'.running,
                   trace |-> world'.trace]
  BY <1>1, StateFields DEF Worlds
<1>8. Len(world.trace) + 1 <= MaxContent
  BY <1>1, <1>2, <1>3, <1>4 DEF WorldOK
<1>9. world'.trace \in BoundedSeq(1 .. MaxContent, MaxContent)
  BY <1>2, <1>6, <1>7, <1>8, Bounded
<1>10. WorldOK'
  <2>1. /\ world'.content \in 0 .. MaxContent /\ world'.step \in 0 .. MaxContent
        /\ world'.step <= world'.content /\ world'.running \in BOOLEAN
    BY <1>1, <1>2, <1>3, <1>7 DEF WorldOK
  <2>2. Len(world'.trace) <= world'.content
    BY <1>2, <1>3, <1>4, <1>6, <1>7 DEF WorldOK
  <2>3. runs' \in 0 .. MaxRuns /\ flush' \in BOOLEAN /\ emitted' \in Nat
    BY <1>1, <1>2 DEF WorldOK
  <2>4. untold' \in [world : BOOLEAN, trace : 0 .. Len(world'.trace)]
    <3>1. 0 \in 0 .. Len(world'.trace)
      BY <1>4, <1>6, <1>7
    <3> QED BY <1>1, <3>1
  <2> QED BY <1>7, <1>9, <2>1, <2>2, <2>3, <2>4 DEF WorldOK
<1>11. world.step + 1 \in 0 .. MaxContent /\ world.content + 1 \in 0 .. MaxContent
       /\ world.step + 1 <= world.content + 1
  BY <1>1, <1>2, <1>3
<1>12. saved' = Kept(world.step + 1, world.content + 1)
  BY <1>1, <1>5
<1> HIDE DEF w
<1>13. HistoryOK'
  BY <1>1, <1>2, <1>11, <1>12, KeptTypes
<1> QED BY <1>10, <1>13

\* A world whose recorder is emptied, at a step that is not ahead of its content.
LEMMA EmptiedTypes ==
    ASSUME WorldOK, NEW c \in 0 .. MaxContent, NEW s0 \in 0 .. c, NEW told \in BOOLEAN,
           world' = [world EXCEPT !.content = c, !.step = s0, !.trace = <<>>],
           untold' = [world |-> told, trace |-> 0], flush' \in BOOLEAN, UNCHANGED <<runs, emitted>>
    PROVE  WorldOK'
<1>1. MaxContent \in Nat
  BY BoundsAreNumbers
<1>2. <<>> \in Seq(1 .. MaxContent) /\ Len(<<>>) = 0 /\ 0 <= MaxContent
  BY <1>1
<1>3. <<>> \in BoundedSeq(1 .. MaxContent, MaxContent)
  BY <1>1, <1>2, Bounded
<1>4. /\ world'.content = c /\ world'.step = s0
      /\ world'.running = world.running /\ world'.trace = <<>>
      /\ world' = [content |-> world'.content, step |-> world'.step, running |-> world'.running,
                   trace |-> world'.trace]
  BY DEF WorldOK
<1>5. untold' \in [world : BOOLEAN, trace : 0 .. Len(world'.trace)]
  BY <1>2, <1>4
<1> QED BY <1>1, <1>2, <1>3, <1>4, <1>5 DEF WorldOK

LEMMA LoadTypes ==
    ASSUME ServerOK, LoadStepLands
    PROVE  WorldOK' /\ HistoryOK'
<1>1. PICK cmd \in loading : LoadRefused(cmd) \/ LoadTorn(cmd) \/ Loaded(cmd)
  BY LoadEnds
<1>2. MaxContent \in Nat /\ WorldOK /\ HistoryOK /\ shown' = shown
  BY BoundsAreNumbers, ServerParts DEF LoadStepLands
<1>3. CASE LoadRefused(cmd)
  BY <1>1, <1>2, <1>3 DEF LoadRefused, worldVars, WorldOK, HistoryOK
<1>4. CASE LoadTorn(cmd)
  <2> DEFINE w == [world EXCEPT !.content = @ + 1, !.trace = <<>>]
  <2>1. /\ world.content < MaxContent /\ Tear(w) /\ refreshes' = refreshes
    BY <1>4 DEF LoadTorn
  <2>2. w = [world EXCEPT !.content = world.content + 1, !.step = world.step, !.trace = <<>>]
        /\ w.trace = <<>>
    BY StateFields DEF Worlds
  <2>3. world.content + 1 \in 0 .. MaxContent /\ world.step \in 0 .. (world.content + 1)
    BY <1>2, <2>1 DEF WorldOK
  <2>4. /\ world' = w /\ untold' = [world |-> TRUE, trace |-> 0]
        /\ UNCHANGED <<runs, saved, flush, emitted>>
    BY <2>1, <2>2 DEF Tear
  <2>5. flush' \in BOOLEAN
    BY <1>2, <2>4 DEF WorldOK
  <2> HIDE DEF w
  <2>6. WorldOK'
    BY <1>2, <2>2, <2>3, <2>4, <2>5, EmptiedTypes
  <2> QED BY <1>2, <2>1, <2>4, <2>6 DEF HistoryOK
<1>5. CASE Loaded(cmd)
  <2>1. /\ world' = [world EXCEPT !.content = saved[cmd.step], !.step = cmd.step, !.trace = <<>>]
        /\ cmd.step \in DOMAIN saved
        /\ flush' \in BOOLEAN /\ UNCHANGED <<runs, saved, emitted>>
        /\ refreshes' = refreshes \cup {DOMAIN saved}
    BY <1>5 DEF Loaded, Change
  <2>2. saved[cmd.step] \in 0 .. MaxContent /\ cmd.step \in 0 .. saved[cmd.step]
    BY <1>2, <2>1 DEF HistoryOK
  <2>3. untold' = [world |-> untold.world, trace |-> 0] /\ untold.world \in BOOLEAN
    BY <1>2, <1>5 DEF Loaded, WorldOK
  <2>4. WorldOK'
    BY <1>2, <2>1, <2>2, <2>3, EmptiedTypes
  <2> QED BY <1>2, <2>1, <2>4 DEF HistoryOK
<1> QED BY <1>1, <1>3, <1>4, <1>5

LEMMA CommandTypes ==
    ASSUME ServerOK, HandleCommand
    PROVE  WorldOK' /\ HistoryOK'
<1> DEFINE cmd == Head(up)
<1>1. UNCHANGED <<shown, refreshes>> /\ (Refresh(cmd) \/ Mutate(cmd) \/ RunCommand(cmd) \/ LoadStep(cmd))
  BY DEF HandleCommand
<1>2. MaxContent \in Nat /\ WorldOK /\ HistoryOK
  BY BoundsAreNumbers, ServerParts
<1> HIDE DEF cmd
<1>3. CASE UNCHANGED worldVars
  BY <1>1, <1>2, <1>3 DEF worldVars, WorldOK, HistoryOK
<1>4. CASE Mutate(cmd) /\ ~Refuse(cmd)
  <2>1. world.content < MaxContent /\ Change([world EXCEPT !.content = @ + 1]) /\ untold' = untold
    BY <1>4 DEF Mutate
  <2> QED BY <1>1, <1>2, <2>1, ChangeTypes DEF Change, HistoryOK
<1>5. CASE RunCommand(cmd) /\ ~Refuse(cmd)
  <2>1. /\ Sent(cmd).content <= MaxContent
        /\ \/ StartRun(Sent(cmd))
           \/ Sent(cmd) # world /\ Change(Sent(cmd)) /\ untold' = untold
    BY <1>5 DEF RunCommand
  <2>2. Sent(cmd) = world \/ Sent(cmd) = [world EXCEPT !.content = @ + 1]
    BY DEF Sent
  <2>3. ASSUME Sent(cmd) = [world EXCEPT !.content = @ + 1] PROVE world.content < MaxContent
    <3>1. Sent(cmd).content = world.content + 1 /\ world.content \in Nat
      BY <2>3, StateFields DEF Worlds
    <3> QED BY <1>2, <2>1, <3>1
  <2>4. WorldOK'
    BY <1>2, <2>1, <2>2, <2>3, StartRunTypes, ChangeTypes
  <2> QED BY <1>1, <1>2, <2>1, <2>4 DEF StartRun, Change, HistoryOK
<1>6. CASE Refresh(cmd)
  <2>1. UNCHANGED <<world, runs, saved, flush, emitted>>
        /\ (untold' = untold \/ untold' = [world |-> FALSE, trace |-> 0])
    BY <1>6 DEF Refresh, AllTold
  <2>2. 0 \in 0 .. Len(world.trace)
    <3>1. world.trace \in Seq(1 .. MaxContent)
      BY StateFields
    <3> QED BY <3>1
  <2>3. untold' \in [world : BOOLEAN, trace : 0 .. Len(world'.trace)]
    <3>1. [world |-> FALSE, trace |-> 0] \in [world : BOOLEAN, trace : 0 .. Len(world.trace)]
      BY <2>2
    <3>2. CASE untold' = untold
      BY <2>1, <3>2, StateFields
    <3>3. CASE untold' = [world |-> FALSE, trace |-> 0]
      BY <2>1, <3>1, <3>3
    <3> QED BY <2>1, <3>2, <3>3
  <2> QED BY <1>1, <1>2, <2>1, <2>3 DEF WorldOK, HistoryOK
<1>7. Refuse(cmd) \/ LoadStep(cmd) => UNCHANGED worldVars
  BY DEF Refuse, LoadStep
<1> QED BY <1>1, <1>3, <1>4, <1>5, <1>6, <1>7

LEMMA EndTypes ==
    ASSUME ServerOK, EndRun
    PROVE  WorldOK' /\ HistoryOK'
<1>1. WorldOK /\ HistoryOK /\ MaxContent \in Nat
  BY ServerParts, BoundsAreNumbers
<1>2. /\ emitted' = emitted + 1 /\ UNCHANGED <<runs, flush, shown>>
      /\ saved' = saved \/ saved' = Kept(world.step, world'.content)
      /\ refreshes' = refreshes \cup {DOMAIN saved'}
  BY DEF EndRun
<1>3. /\ world.content \in 0 .. MaxContent /\ world.step \in 0 .. world.content
      /\ world.trace \in Seq(1 .. MaxContent) /\ Len(world.trace) \in 0 .. world.content
      /\ untold.trace \in 0 .. Len(world.trace)
  BY <1>1, StateFields DEF WorldOK
<1>4. CASE world' = Ended(world) /\ untold' = WorldTold
  <2>1. /\ world'.content = world.content /\ world'.step = world.step /\ world'.trace = world.trace
        /\ world' \in [content : 0 .. MaxContent, step : 0 .. MaxContent, running : BOOLEAN,
                       trace : BoundedSeq(1 .. MaxContent, MaxContent)]
    BY <1>1, <1>4 DEF Ended, WorldOK
  <2>2. untold' \in [world : BOOLEAN, trace : 0 .. Len(world'.trace)]
    BY <1>1, <1>4, <2>1 DEF WorldTold, WorldOK
  <2>3. WorldOK'
    BY <1>1, <1>2, <2>1, <2>2 DEF WorldOK
  <2>4. HistoryOK'
    <3>1. CASE saved' = saved
      BY <1>1, <1>2, <3>1 DEF HistoryOK
    <3>2. CASE saved' = Kept(world.step, world'.content)
      <4>1. world.step \in 0 .. MaxContent /\ world'.content \in 0 .. MaxContent
            /\ world.step <= world'.content
        BY <1>1, <1>3, <2>1
      <4> QED BY <1>1, <1>2, <3>2, <4>1, KeptTypes
    <3> QED BY <1>2, <3>1, <3>2
  <2> QED BY <2>3, <2>4
<1>5. CASE /\ world.content < MaxContent
           /\ world' = Ended([world EXCEPT !.content = @ + 1,
                                            !.trace = Append(@, world.content + 1)])
           /\ untold' = [world |-> FALSE, trace |-> untold.trace + 1]
  <2> DEFINE t == Append(world.trace, world.content + 1)
  <2>1. world.content + 1 \in 1 .. MaxContent
    BY <1>1, <1>3, <1>5
  <2>2. /\ t \in Seq(1 .. MaxContent) /\ Len(t) = Len(world.trace) + 1
        /\ untold.trace + 1 \in 0 .. Len(t)
    BY <1>3, <2>1, Prefix
  <2> HIDE DEF t
  <2>3. t \in BoundedSeq(1 .. MaxContent, MaxContent)
    BY <1>1, <1>3, <1>5, <2>2, Bounded
  <2>4. /\ world'.content = world.content + 1 /\ world'.step = world.step /\ world'.trace = t
        /\ world'.running = FALSE
        /\ world' = [content |-> world'.content, step |-> world'.step, running |-> world'.running,
                     trace |-> world'.trace]
    BY <1>5, StateFields DEF Ended, Worlds, t
  <2>5. untold' \in [world : BOOLEAN, trace : 0 .. Len(world'.trace)]
    BY <1>5, <2>2, <2>4
  <2>6. /\ world'.content \in 0 .. MaxContent /\ world'.step \in 0 .. MaxContent
        /\ world'.step <= world'.content /\ Len(world'.trace) <= world'.content
    BY <1>1, <1>3, <2>1, <2>2, <2>4
  <2>7. WorldOK'
    <3>1. world' \in [content : 0 .. MaxContent, step : 0 .. MaxContent, running : BOOLEAN,
                      trace : BoundedSeq(1 .. MaxContent, MaxContent)]
      BY <2>3, <2>4, <2>6
    <3>2. runs' \in 0 .. MaxRuns /\ flush' \in BOOLEAN /\ emitted' \in Nat
      BY <1>1, <1>2 DEF WorldOK
    <3> QED BY <2>5, <2>6, <3>1, <3>2 DEF WorldOK
  <2>8. HistoryOK'
    <3>1. CASE saved' = saved
      BY <1>1, <1>2, <3>1 DEF HistoryOK
    <3>2. CASE saved' = Kept(world.step, world'.content)
      <4>1. world.step \in 0 .. MaxContent /\ world.step <= world'.content
        BY <2>4, <2>6
      <4> QED BY <1>1, <1>2, <2>6, <3>2, <4>1, KeptTypes
    <3> QED BY <1>2, <3>1, <3>2
  <2> QED BY <2>7, <2>8
<1> QED BY <1>4, <1>5 DEF EndRun

LEMMA WorldStep ==
    ASSUME ServerOK, ServerNext
    PROVE  WorldOK' /\ HistoryOK'
<1>1. WorldOK /\ HistoryOK
  BY ServerParts
<1>2. CASE ProgramWrites
  <2> DEFINE w == [world EXCEPT !.content = @ + 1]
  <2>1. /\ (Change(w) /\ UNCHANGED untold) \/ Tear(w)
        /\ world.content < MaxContent /\ UNCHANGED <<shown, refreshes>>
    BY <1>2 DEF ProgramWrites
  <2>2. saved' = saved
    BY <2>1 DEF Change, Tear
  <2> HIDE DEF w
  <2>3. WorldOK'
    BY <1>1, <2>1, ChangeTypes DEF w
  <2> QED BY <1>1, <2>1, <2>2, <2>3 DEF HistoryOK
<1>3. CASE ProgramRuns
  <2>1. StartRun(world) /\ UNCHANGED <<shown, refreshes>>
    BY <1>3 DEF ProgramRuns
  <2> QED BY <1>1, <2>1, StartRunTypes DEF StartRun, HistoryOK
<1>4. CASE EndRun
  BY <1>4, EndTypes
<1>5. CASE Flush
  <2>1. UNCHANGED <<world, runs, saved, emitted, shown, refreshes>> /\ flush' \in BOOLEAN
        /\ untold' = [untold EXCEPT !.world = FALSE]
    BY <1>5 DEF Flush, WorldTold
  <2> QED BY <1>1, <2>1 DEF WorldOK, HistoryOK
<1>6. CASE RefreshLands
  <2>1. UNCHANGED <<world, runs, saved, flush, emitted>>
        /\ (untold' = untold \/ untold' = [untold EXCEPT !.world = FALSE])
        /\ shown' \in refreshes /\ refreshes' \subseteq refreshes
    BY <1>6 DEF RefreshLands, WorldTold
  <2> QED BY <1>1, <2>1 DEF WorldOK, HistoryOK
<1>7. CASE Export
  BY <1>1, <1>7 DEF Export, worldVars, WorldOK, HistoryOK
<1> QED
  BY <1>2, <1>3, <1>4, <1>5, <1>6, <1>7, StepTypes, LoadTypes, CommandTypes DEF ServerNext

LEMMA RestStep ==
    ASSUME ServerOK, ServerNext
    PROVE  RestOK'
<1>1. RestOK
  BY ServerParts
<1>2. CASE Export
  <2>1. PICK s \in Span : spanBuffer' = Trimmed(Append(spanBuffer, s))
    BY <1>2 DEF Export
  <2>2. /\ exports < MaxExports /\ exports' = exports + 1
        /\ UNCHANGED <<open, conn, up, loading>>
    BY <1>2 DEF Export
  <2>3. MaxExports \in Nat /\ SpanBuffer \in Nat
    BY BoundsAreNumbers
  <2>4. /\ Append(spanBuffer, s) \in Seq(Span)
        /\ Len(Append(spanBuffer, s)) = Len(spanBuffer) + 1 /\ Len(spanBuffer) \in Nat
    BY <1>1 DEF RestOK
  <2>5. spanBuffer' \in Seq(Span) /\ Len(spanBuffer') <= SpanBuffer
    BY <2>1, <2>3, <2>4 DEF Trimmed
  <2>6. Range(spanBuffer') \subseteq Span
    BY <2>5 DEF Range
  <2> QED BY <1>1, <2>2, <2>3, <2>5, <2>6 DEF RestOK
<1>3. CASE HandleCommand
  <2>1. up # <<>> /\ up' = Tail(up) /\ UNCHANGED <<spanVars, conn, open>>
    BY <1>3 DEF HandleCommand
  <2>2. Head(up) \in Commands /\ up' \in Seq(Commands)
    BY <1>1, <2>1, TailOf DEF RestOK
  <2>3. loading' = loading \/ loading' = loading \cup {Head(up)}
    BY <1>3 DEF HandleCommand, Refresh, Mutate, Refuse, RunCommand, LoadStep
  <2> QED BY <1>1, <2>1, <2>2, <2>3 DEF RestOK, spanVars
<1>4. CASE LoadStepLands
  <2>1. UNCHANGED <<spanVars, conn, open, up>> /\ \E cmd \in loading : loading' = loading \ {cmd}
    BY <1>4 DEF LoadStepLands
  <2> QED BY <1>1, <2>1 DEF RestOK, spanVars
<1>5. CASE UNCHANGED <<spanVars, conn, open, up, loading>>
  BY <1>1, <1>5 DEF RestOK, spanVars
<1> QED
  BY <1>2, <1>3, <1>4, <1>5
     DEF ServerNext, ProgramWrites, ProgramRuns, Step, EndRun, Flush, RefreshLands

\* The steps of the page leave the world and its history alone.
LEMMA PageFrame ==
    ASSUME Connect \/ Disconnect \/ Request \/ Receive \/ (\E id \in pending : Timeout(id))
    PROVE  /\ UNCHANGED <<world, runs, saved, flush, emitted, spanVars, shown, refreshes, loading,
                          effects>>
           /\ untold' = untold \/ untold' = AllTold
BY DEF Connect, Disconnect, Request, Receive, Timeout, serverVars, worldVars

LEMMA ServerOKStep ==
    ASSUME ServerOK, PageOK, [Next]_vars
    PROVE  ServerOK'
<1>1. CASE ServerNext
  <2>1. WorldOK' /\ HistoryOK' /\ RestOK'
    BY <1>1, WorldStep, RestStep
  <2> QED BY <2>1 DEF ServerOK, ServerTypeOK, WorldOK, HistoryOK, RestOK
<1>2. ASSUME UNCHANGED <<world, runs, saved, flush, emitted, shown, refreshes>>,
             untold' = untold \/ untold' = AllTold, RestOK'
      PROVE  ServerOK'
  <2>2. world.trace \in Seq(1 .. MaxContent)
    BY StateFields
  <2>3. untold' \in [world : BOOLEAN, trace : 0 .. Len(world'.trace)]
    <3>1. 0 \in 0 .. Len(world.trace)
      BY <2>2
    <3>2. [world |-> FALSE, trace |-> 0] \in [world : BOOLEAN, trace : 0 .. Len(world.trace)]
      BY <3>1
    <3>3. world' = world
      BY <1>2
    <3>4. CASE untold' = untold
      BY <3>3, <3>4, StateFields
    <3>5. CASE untold' = AllTold
      BY <3>2, <3>3, <3>5 DEF AllTold
    <3> QED BY <1>2, <3>4, <3>5
  <2>1. WorldOK' /\ HistoryOK'
    BY <1>2, <2>3, ServerParts DEF WorldOK, HistoryOK
  <2> QED BY <1>2, <2>1 DEF ServerOK, ServerTypeOK, WorldOK, HistoryOK, RestOK
<1>3. RestOK
  BY ServerParts
<1>4. CASE Connect
  <2>1. /\ open' = TRUE /\ conn' = conn + 1
        /\ up' = Append(up, Command(0, conn + 1, "refresh", 0))
    BY <1>4 DEF Connect
  <2>2. Command(0, conn + 1, "refresh", 0) \in Commands
    BY <1>3 DEF RestOK, Command, Commands
  <2>3. up' \in Seq(Commands)
    BY <1>3, <2>1, <2>2, AppendOf DEF RestOK
  <2> QED BY <1>2, <1>3, <1>4, <2>1, <2>3, PageFrame DEF RestOK, spanVars
<1>5. CASE Request
  <2>1. PICK type \in {"mutate", "run", "send", "load-step"} : \E step \in 1 .. 2 :
          up' = Append(up, Command(nextId', conn, type, step))
    BY <1>5 DEF Request
  <2>2. PICK step \in 1 .. 2 : up' = Append(up, Command(nextId', conn, type, step))
    BY <2>1
  <2>3. UNCHANGED <<conn, open>> /\ nextId' = nextId + 1 /\ nextId \in Nat
    BY <1>5 DEF Request, PageOK
  <2>4. Command(nextId', conn, type, step) \in Commands
    BY <1>3, <2>3 DEF RestOK, Command, Commands
  <2>5. up' \in Seq(Commands)
    BY <1>3, <2>2, <2>4, AppendOf DEF RestOK
  <2> QED BY <1>2, <1>3, <1>5, <2>3, <2>5, PageFrame DEF RestOK, spanVars
<1>6. CASE Disconnect \/ Receive \/ (\E id \in pending : Timeout(id)) \/ UNCHANGED vars
  <2>1. UNCHANGED <<worldVars, spanVars, shown, refreshes, loading, conn, up>> /\ open' \in BOOLEAN
        /\ UNCHANGED <<world, runs, saved, flush, emitted, untold>>
    BY <1>3, <1>6 DEF worldVars, Disconnect, Receive, Timeout, vars, serverVars, RestOK
  <2> QED BY <1>2, <1>3, <2>1 DEF RestOK, spanVars
<1> QED BY <1>1, <1>4, <1>5, <1>6 DEF Next

\* The reducer changes one field of what it shows.
LEMMA ReducedFields ==
    ASSUME PageOK, NEW msg \in Message, msg.type # "result"
    PROVE  LET new == Reduced(ui, msg) IN
           /\ new = [world |-> new.world, trace |-> new.trace, events |-> new.events,
                     spans |-> new.spans]
           /\ new.world = IF msg.type = "world" THEN msg ELSE ui.world
           /\ new.trace = IF msg.type = "trace" THEN msg.steps ELSE ui.trace
           /\ new.events = IF msg.type = "event" THEN Capped(Append(ui.events, msg.n), EventCap)
                                                 ELSE ui.events
           /\ new.spans = IF msg.type = "spans" THEN Capped(Merged(ui.spans, msg.spans), SpanCap)
                                                ELSE ui.spans
<1> DEFINE u == [world |-> ui.world, trace |-> ui.trace, events |-> ui.events, spans |-> ui.spans]
<1>1. ui = u
  BY DEF PageOK
<1>2. CASE msg.type = "world"
  <2>1. Reduced(ui, msg) = [u EXCEPT !.world = msg]
    BY <1>1, <1>2 DEF Reduced
  <2> QED BY <1>2, <2>1
<1>3. CASE msg.type = "trace"
  <2>1. Reduced(ui, msg) = [u EXCEPT !.trace = msg.steps]
    BY <1>1, <1>3 DEF Reduced
  <2> QED BY <1>3, <2>1
<1>4. CASE msg.type = "event"
  <2>1. Reduced(ui, msg) = [u EXCEPT !.events = Capped(Append(ui.events, msg.n), EventCap)]
    BY <1>1, <1>4 DEF Reduced
  <2> QED BY <1>4, <2>1
<1>5. CASE msg.type = "spans"
  <2>1. Reduced(ui, msg) = [u EXCEPT !.spans = Capped(Merged(ui.spans, msg.spans), SpanCap)]
    BY <1>1, <1>5 DEF Reduced
  <2> QED BY <1>5, <2>1
<1> QED BY <1>2, <1>3, <1>4, <1>5, MessageFields

\* Capping a list of numbers keeps the newest.
LEMMA CappedNewest ==
    ASSUME NEW s \in Seq(Nat), NEW n \in Nat, Len(s) <= EventCap
    PROVE  LET new == Capped(Append(s, n), EventCap) IN
           /\ new \in Seq(Nat) /\ Len(new) <= EventCap
           /\ \/ new = Append(s, n)
              \/ /\ Len(new) = Len(s)
                 /\ \A i \in 1 .. Len(s) : new[i] = Append(s, n)[i + 1]
<1>1. EventCap \in Nat
  BY BoundsAreNumbers
<1>2. /\ Append(s, n) \in Seq(Nat) /\ Len(Append(s, n)) = Len(s) + 1 /\ Len(s) \in Nat
  OBVIOUS
<1>3. CASE Len(s) + 1 <= EventCap
  BY <1>1, <1>2, <1>3 DEF Capped
<1>4. CASE Len(s) + 1 > EventCap
  <2> DEFINE a == Append(s, n)
  <2>1. Len(s) = EventCap
    BY <1>1, <1>2, <1>4
  <2>2. Capped(a, EventCap) = SubSeq(a, 2, EventCap + 1)
    BY <1>1, <1>2, <2>1 DEF Capped
  <2> HIDE DEF a
  <2>3. a \in Seq(Nat) /\ Len(a) = EventCap + 1
    BY <1>2, <2>1 DEF a
  <2>4. /\ SubSeq(a, 2, EventCap + 1) \in Seq(Nat) /\ Len(SubSeq(a, 2, EventCap + 1)) = EventCap
        /\ \A i \in 1 .. EventCap : SubSeq(a, 2, EventCap + 1)[i] = a[i + 1]
    BY <1>1, <2>3
  <2> QED BY <1>1, <2>1, <2>2, <2>4 DEF a
<1> QED BY <1>1, <1>2, <1>3, <1>4

\* What a new socket is greeted with.
LEMMA GreetingOf ==
    ASSUME ServerOK
    PROVE  /\ Greeting \in Seq(Message)
           /\ 1 \in DOMAIN Greeting /\ 2 \in DOMAIN Greeting
           /\ Greeting[1] = WorldMessage(world, shown) /\ Greeting[2] = TraceMessage(world)
           /\ \A i \in DOMAIN Greeting : i > 2 => Greeting[i].type = "spans"
           /\ Greeting[1].type = "world" /\ Greeting[2].type = "trace"
<1> DEFINE head == <<WorldMessage(world, shown), TraceMessage(world)>>
<1> DEFINE rest == IF spanBuffer = <<>> THEN <<>> ELSE <<Spans(spanBuffer)>>
<1>1. /\ WorldMessage(world, shown) \in Message /\ WorldMessage(world, shown).type = "world"
      /\ TraceMessage(world) \in Message /\ TraceMessage(world).type = "trace"
  BY WorldIsMessage, TraceIsMessage, StateFields
<1>2. Spans(spanBuffer) \in Message /\ Spans(spanBuffer).type = "spans"
  BY SpansIsMessage DEF ServerOK
<1>3. /\ head \in Seq(Message) /\ DOMAIN head = {1, 2} /\ Len(head) = 2
      /\ head[1] = WorldMessage(world, shown) /\ head[2] = TraceMessage(world)
  BY <1>1, Tuples
<1>4. rest \in Seq(Message) /\ \A i \in DOMAIN rest : rest[i].type = "spans"
  <2>1. CASE spanBuffer = <<>>
    <3>1. rest = <<>>
      BY <2>1
    <3> HIDE DEF rest
    <3> QED BY <3>1
  <2>2. CASE spanBuffer # <<>>
    <3>1. rest = <<Spans(spanBuffer)>>
      BY <2>2
    <3> HIDE DEF rest
    <3>2. DOMAIN rest = {1} /\ rest[1] = Spans(spanBuffer) /\ rest \in Seq(Message)
      BY <1>2, <3>1, Tuples
    <3> QED BY <1>2, <3>2
  <2> QED BY <2>1, <2>2
<1>5. Greeting = head \o rest
  BY DEF Greeting
<1> HIDE DEF head, rest
<1>6. /\ Greeting \in Seq(Message) /\ DOMAIN Greeting = 1 .. (2 + Len(rest)) /\ Len(rest) \in Nat
      /\ \A i \in 1 .. 2 : Greeting[i] = head[i]
      /\ \A i \in DOMAIN Greeting :
            i \in {1, 2} \/ \E k \in DOMAIN rest : Greeting[i] = rest[k]
  <2>1. /\ DOMAIN Greeting = 1 .. (2 + Len(rest)) /\ Len(rest) \in Nat
        /\ \A i \in 1 .. 2 : Greeting[i] = head[i]
        /\ Greeting \in Seq(Message)
    <3>1. /\ head \o rest \in Seq(Message) /\ DOMAIN (head \o rest) = 1 .. (Len(head) + Len(rest))
          /\ Len(rest) \in Nat /\ \A i \in 1 .. Len(head) : (head \o rest)[i] = head[i]
      <4>1. head \in Seq(Message) /\ rest \in Seq(Message)
        BY <1>3, <1>4
      <4> QED BY <4>1, Cat
    <3> QED BY <1>3, <1>5, <3>1
  <2>2. \A i \in DOMAIN Greeting :
            i \in DOMAIN head \/ \E k \in DOMAIN rest : Greeting[i] = rest[k]
    BY <1>3, <1>4, <1>5, Cat
  <2> QED BY <1>3, <2>1, <2>2
<1>7. Greeting[1] = head[1] /\ Greeting[2] = head[2] /\ 1 \in DOMAIN Greeting /\ 2 \in DOMAIN Greeting
  BY <1>6
<1>8. \A i \in DOMAIN Greeting : i > 2 => Greeting[i].type = "spans"
  BY <1>4, <1>6
<1> QED BY <1>1, <1>3, <1>6, <1>7, <1>8

LEMMA PageOKStep ==
    ASSUME ServerOK, PageOK, CommandsOK, [Next]_vars
    PROVE  PageOK'
<1>1. CASE ServerNext /\ UNCHANGED pageVars
  <2>1. PICK msgs : Tells(msgs)
    BY <1>1, ServerTells
  <2>2. down' \in Seq(Message) /\ (~open => down' = down)
    BY <2>1, Cat DEF Tells, PageOK
  <2>3. open' = open
    BY <1>1, ServerFrame
  <2> QED BY <1>1, <2>2, <2>3 DEF PageOK, pageVars
<1>2. CASE Connect
  <2>1. down' \in Seq(Message)
    BY <1>2, GreetingOf DEF Connect
  <2> QED BY <1>2, <2>1 DEF Connect, PageOK
<1>3. CASE Disconnect
  <2>1. outcome' \in [1 .. nextId -> {"none", "ok", "error"}]
    BY <1>3 DEF Disconnect, Settled, PageOK
  <2>2. <<>> \in Seq(Message)
    OBVIOUS
  <2> QED BY <1>3, <2>1, <2>2 DEF Disconnect, PageOK
<1>4. CASE Request
  <2>1. /\ nextId' = nextId + 1 /\ pending' = pending \cup {nextId'}
        /\ outcome' = Append(outcome, "none") /\ nextId \in Nat
        /\ UNCHANGED <<status, open, down, ui>>
    BY <1>4 DEF Request, PageOK
  <2>2. outcome \in Seq({"none", "ok", "error"}) /\ Len(outcome) = nextId
    BY <2>1 DEF PageOK
  <2>3. outcome' \in Seq({"none", "ok", "error"}) /\ Len(outcome') = nextId'
    BY <2>1, <2>2
  <2>4. outcome' \in [1 .. nextId' -> {"none", "ok", "error"}]
    BY <2>3
  <2> QED BY <2>1, <2>4 DEF PageOK
<1>5. CASE \E id \in pending : Timeout(id)
  BY <1>5 DEF Timeout, Settled, serverVars, PageOK
<1>6. CASE Receive
  <2>1. down # <<>> /\ down' = Tail(down) /\ UNCHANGED <<status, open, nextId>>
    BY <1>6 DEF Receive
  <2>2. Head(down) \in Message /\ down' \in Seq(Message) /\ open
    BY <2>1, TailOf DEF PageOK
  <2>3. CASE Head(down).type = "result"
    <3>1. /\ pending' = pending \ {Head(down).id} /\ UNCHANGED ui
          /\ outcome' = Settled(pending \cap {Head(down).id}, IF Head(down).ok THEN "ok" ELSE "error")
      BY <1>6, <2>3 DEF Receive
    <3>2. outcome' \in [1 .. nextId -> {"none", "ok", "error"}]
      BY <3>1 DEF Settled, PageOK
    <3> QED BY <2>1, <2>2, <3>1, <3>2 DEF PageOK
  <2>4. CASE Head(down).type # "result"
    <3>1. ui' = Reduced(ui, Head(down)) /\ UNCHANGED <<pending, outcome>>
      BY <1>6, <2>4 DEF Receive
    <3>2. ui' = [world |-> ui'.world, trace |-> ui'.trace, events |-> ui'.events,
                 spans |-> ui'.spans]
      BY <2>2, <2>4, <3>1, ReducedFields
    <3>3. \/ ui'.events = ui.events
          \/ Head(down).n \in Nat /\ ui'.events = Capped(Append(ui.events, Head(down).n), EventCap)
      BY <2>2, <2>4, <3>1, ReducedFields, MessageFields
    <3>4. ui'.events \in Seq(Nat) /\ Len(ui'.events) <= EventCap
      BY <3>3, CappedNewest DEF PageOK
    <3> QED BY <2>1, <2>2, <3>1, <3>2, <3>4 DEF PageOK
  <2> QED BY <2>3, <2>4
<1>7. CASE UNCHANGED vars
  BY <1>7 DEF vars, serverVars, pageVars, PageOK
<1> QED BY <1>1, <1>2, <1>3, <1>4, <1>5, <1>6, <1>7 DEF Next

-----------------------------------------------------------------------------
(* The world and the recorder                                               *)

LEMMA NewestCat ==
    ASSUME NEW d \in Seq(Message), NEW msgs \in Seq(Message), NEW msg, NEW seen, NEW keep,
           NewestIs(msgs, msg, keep), keep => NewestIs(d, msg, seen)
    PROVE  NewestIs(d \o msgs, msg, seen)
<1>1. CASE \E i \in DOMAIN msgs : /\ msgs[i] = msg
                                  /\ \A j \in DOMAIN msgs : j > i => msgs[j].type # msg.type
  <2>1. PICK i \in DOMAIN msgs : /\ msgs[i] = msg
                                 /\ \A j \in DOMAIN msgs : j > i => msgs[j].type # msg.type
    BY <1>1
  <2>2. /\ Len(d) + i \in DOMAIN (d \o msgs) /\ (d \o msgs)[Len(d) + i] = msg
        /\ Len(d) \in Nat /\ DOMAIN d = 1 .. Len(d) /\ DOMAIN msgs = 1 .. Len(msgs)
        /\ Len(msgs) \in Nat
    BY <2>1, Cat
  <2>3. ASSUME NEW j \in DOMAIN (d \o msgs), j > Len(d) + i
        PROVE  (d \o msgs)[j].type # msg.type
    <3>1. j \notin DOMAIN d
      BY <2>2, <2>3
    <3>2. PICK k \in DOMAIN msgs : j = Len(d) + k /\ (d \o msgs)[j] = msgs[k]
      BY <3>1, Cat
    <3>3. k > i
      BY <2>2, <2>3, <3>2
    <3> QED BY <2>1, <3>2, <3>3
  <2> QED BY <2>2, <2>3, NewestAt
<1>2. CASE keep /\ \A j \in DOMAIN msgs : msgs[j].type # msg.type
  <2>1. NewestIs(d, msg, seen)
    BY <1>2
  <2>2. CASE seen /\ \A j \in DOMAIN d : d[j].type # msg.type
    <3>1. ASSUME NEW j \in DOMAIN (d \o msgs) PROVE (d \o msgs)[j].type # msg.type
      BY <1>2, <2>2, Cat
    <3> QED BY <2>2, <3>1 DEF NewestIs
  <2>3. CASE \E i \in DOMAIN d : /\ d[i] = msg
                                 /\ \A j \in DOMAIN d : j > i => d[j].type # msg.type
    <3>1. PICK i \in DOMAIN d : /\ d[i] = msg
                                /\ \A j \in DOMAIN d : j > i => d[j].type # msg.type
      BY <2>3
    <3>2. i \in DOMAIN (d \o msgs) /\ (d \o msgs)[i] = msg
      BY <3>1, Cat
    <3>3. ASSUME NEW j \in DOMAIN (d \o msgs), j > i PROVE (d \o msgs)[j].type # msg.type
      <4>1. CASE j \in DOMAIN d
        BY <3>1, <3>3, <4>1, Cat
      <4>2. CASE j \notin DOMAIN d
        BY <1>2, <4>2, Cat
      <4> QED BY <4>1, <4>2
    <3> QED BY <3>2, <3>3, NewestAt
  <2> QED BY <2>1, <2>2, <2>3 DEF NewestIs
<1> QED BY <1>1, <1>2 DEF NewestIs

LEMMA NewestTail ==
    ASSUME NEW d \in Seq(Message), d # <<>>, NEW msg, NEW seen, NEW now,
           NewestIs(d, msg, seen),
           Head(d).type # msg.type /\ seen => now,
           Head(d) = msg => now
    PROVE  NewestIs(Tail(d), msg, now)
<1>1. /\ Head(d) = d[1] /\ Len(d) \in Nat \ {0}
      /\ DOMAIN d = 1 .. Len(d) /\ DOMAIN Tail(d) = 1 .. (Len(d) - 1)
      /\ \A i \in DOMAIN Tail(d) : Tail(d)[i] = d[i + 1] /\ i + 1 \in DOMAIN d
  BY TailOf
<1>2. CASE seen /\ \A j \in DOMAIN d : d[j].type # msg.type
  <2>1. now
    BY <1>1, <1>2
  <2> QED BY <1>1, <1>2, <2>1 DEF NewestIs
<1>3. ASSUME NEW i \in DOMAIN d, d[i] = msg,
             \A j \in DOMAIN d : j > i => d[j].type # msg.type
      PROVE  NewestIs(Tail(d), msg, now)
  <2>1. CASE i = 1
    <3>1. now
      BY <1>1, <1>3, <2>1
    <3>2. ASSUME NEW j \in DOMAIN Tail(d) PROVE Tail(d)[j].type # msg.type
      <4>1. j + 1 > i /\ j + 1 \in DOMAIN d
        BY <1>1, <2>1
      <4> QED BY <1>1, <1>3, <4>1
    <3> QED BY <3>1, <3>2 DEF NewestIs
  <2>2. CASE i # 1
    <3>1. i - 1 \in DOMAIN Tail(d) /\ (i - 1) + 1 = i
      BY <1>1, <2>2
    <3>2. Tail(d)[i - 1] = msg
      BY <1>1, <1>3, <3>1
    <3>3. ASSUME NEW j \in DOMAIN Tail(d), j > i - 1 PROVE Tail(d)[j].type # msg.type
      <4>1. j + 1 > i /\ j + 1 \in DOMAIN d /\ Tail(d)[j] = d[j + 1]
        BY <1>1, <3>1, <3>3
      <4> QED BY <1>3, <4>1
    <3> QED BY <3>1, <3>2, <3>3, NewestAt
  <2> QED BY <2>1, <2>2
<1> QED BY <1>2, <1>3 DEF NewestIs

\* A page step that leaves the server and its messages alone.
LEMMA SameView ==
    ASSUME ViewOK, TraceOK, UNCHANGED <<open, flush, world, shown, down, ui, untold>>
    PROVE  ViewOK' /\ TraceOK'
BY DEF ViewOK, TraceOK, WorldMessage, TraceTold, Told

LEMMA ViewStep ==
    ASSUME ServerOK, PageOK, CommandsOK, ViewOK, TraceOK, [Next]_vars
    PROVE  ViewOK' /\ TraceOK'
<1>1. CASE ServerNext /\ UNCHANGED pageVars
  <2>1. PICK msgs : Tells(msgs)
    BY <1>1, ServerTells
  <2>2. open' = open /\ ui' = ui
    BY <1>1, ServerFrame DEF pageVars
  <2>3. down \in Seq(Message) /\ msgs \in Seq(Message)
    BY <2>1 DEF PageOK, Tells
  <2>4. ViewOK'
    <3> SUFFICES ASSUME open', ~flush', ~world'.running, ~untold'.world
                 PROVE  NewestIs(down', WorldMessage(world', shown'),
                                 ui'.world = WorldMessage(world', shown'))
      BY DEF ViewOK
    <3> DEFINE msg == WorldMessage(world', shown')
               keep == Idle /\ world' = world /\ shown' = shown
               seen == ui.world = msg
    <3>1. NewestIs(msgs, msg, keep)
      BY <2>1 DEF Tells
    <3>2. keep => NewestIs(down, msg, seen)
      BY <2>2 DEF ViewOK, Idle
    <3>3. down' = down \o msgs
      BY <2>1, <2>2 DEF Tells
    <3> HIDE DEF msg, keep, seen
    <3>4. NewestIs(down', msg, seen)
      BY <2>3, <3>1, <3>2, <3>3, NewestCat
    <3> QED BY <2>2, <3>4 DEF msg, seen
  <2>5. TraceOK'
    <3> SUFFICES ASSUME open', Told' # <<>>
                 PROVE  NewestIs(down', TraceTold', ui'.trace = Told')
      BY DEF TraceOK
    <3> DEFINE msg == TraceTold'
               keep == Told' = Told
               seen == ui.trace = Told'
    <3>1. NewestIs(msgs, msg, keep)
      BY <2>1 DEF Tells
    <3>2. keep => NewestIs(down, msg, seen)
      <4>1. keep => TraceTold = msg
        BY DEF TraceTold
      <4> QED BY <2>2, <4>1 DEF TraceOK
    <3>3. down' = down \o msgs
      BY <2>1, <2>2 DEF Tells
    <3> HIDE DEF msg, keep, seen
    <3>4. NewestIs(down', msg, seen)
      BY <2>3, <3>1, <3>2, <3>3, NewestCat
    <3> QED BY <2>2, <3>4 DEF msg, seen
  <2> QED BY <2>4, <2>5
<1>2. CASE Connect
  <2>1. down' = Greeting /\ UNCHANGED <<world, shown, flush>> /\ untold'.trace = 0
    BY <1>2 DEF Connect, AllTold
  <2>2. WorldMessage(world', shown') = WorldMessage(world, shown) /\ TraceMessage(world') = TraceMessage(world)
    BY <2>1
  <2>7. TraceTold' = TraceMessage(world')
    <3>1. world'.trace \in Seq(Nat)
      BY <2>1, StateFields DEF Worlds
    <3> QED BY <2>1, <3>1, AllOfItNext
  <2>3. /\ 1 \in DOMAIN down' /\ down'[1] = WorldMessage(world', shown')
        /\ \A j \in DOMAIN down' : j > 1 => down'[j].type # "world"
        /\ 2 \in DOMAIN down' /\ down'[2] = TraceMessage(world')
        /\ \A j \in DOMAIN down' : j > 2 => down'[j].type # "trace"
    <3>1. /\ 1 \in DOMAIN down' /\ down'[1] = WorldMessage(world', shown')
          /\ 2 \in DOMAIN down' /\ down'[2] = TraceMessage(world')
      BY <2>1, <2>2, GreetingOf
    <3>2. \A j \in DOMAIN down' : j > 2 => down'[j].type = "spans"
      BY <2>1, GreetingOf
    <3>3. down'[2].type = "trace" /\ DOMAIN down' \subseteq Nat
      BY <2>1, GreetingOf
    <3>4. \A j \in DOMAIN down' : j > 1 => j = 2 \/ j > 2
      BY <3>3
    <3> QED BY <3>1, <3>2, <3>3, <3>4
  <2>4. WorldMessage(world', shown').type = "world" /\ TraceMessage(world').type = "trace"
    BY DEF WorldMessage, TraceMessage
  <2>5. NewestIs(down', WorldMessage(world', shown'), ui'.world = WorldMessage(world', shown'))
    BY <2>3, <2>4, NewestAt
  <2>6. NewestIs(down', TraceTold', ui'.trace = Told')
    BY <2>3, <2>4, <2>7, NewestAt
  <2> QED BY <2>5, <2>6 DEF ViewOK, TraceOK
<1>3. CASE Disconnect
  BY <1>3 DEF Disconnect, ViewOK, TraceOK
<1>4. CASE Request \/ (\E id \in pending : Timeout(id)) \/ UNCHANGED vars
  <2>1. UNCHANGED <<open, flush, world, shown, down, ui, untold>>
    BY <1>4 DEF Request, Timeout, vars, serverVars, pageVars, worldVars
  <2> QED BY <2>1, SameView
<1>5. CASE Receive
  <2> DEFINE msg == Head(down)
  <2>1. down # <<>> /\ down' = Tail(down) /\ UNCHANGED <<open, flush, world, shown, untold>>
    BY <1>5 DEF Receive, worldVars
  <2>2. down \in Seq(Message) /\ msg \in Message
    BY <2>1, TailOf DEF PageOK
  <2>3. /\ msg.type = "result" => ui' = ui
        /\ msg.type # "result" => ui' = Reduced(ui, msg)
    BY <1>5 DEF Receive
  <2>4. /\ ui'.world = IF msg.type = "world" THEN msg ELSE ui.world
        /\ ui'.trace = IF msg.type = "trace" THEN msg.steps ELSE ui.trace
    BY <2>2, <2>3, ReducedFields
  <2> DEFINE w == WorldMessage(world, shown)
             t == TraceTold
  <2>5. w.type = "world" /\ t.type = "trace" /\ t.steps = Told
        /\ WorldMessage(world', shown') = w /\ TraceTold' = t /\ Told' = Told
    BY <2>1, ToldSame DEF WorldMessage, TraceTold
  <2> HIDE DEF msg, w, t
  <2>6. /\ msg.type # w.type /\ ui.world = w => ui'.world = w
        /\ msg = w => ui'.world = w
        /\ msg.type # t.type /\ ui.trace = Told => ui'.trace = Told
        /\ msg = t => ui'.trace = Told
    BY <2>4, <2>5
  <2>7. NewestIs(down, w, ui.world = w) => NewestIs(down', w, ui'.world = w)
    BY <2>1, <2>2, <2>6, NewestTail DEF msg
  <2>8. NewestIs(down, t, ui.trace = Told) => NewestIs(down', t, ui'.trace = Told)
    BY <2>1, <2>2, <2>6, NewestTail DEF msg
  <2>9. ViewOK'
    BY <2>1, <2>5, <2>7 DEF ViewOK, w
  <2>10. TraceOK'
    BY <2>1, <2>5, <2>8 DEF TraceOK, t
  <2> QED BY <2>9, <2>10
<1> QED BY <1>1, <1>2, <1>3, <1>4, <1>5 DEF Next

-----------------------------------------------------------------------------
(* Commands and their results                                               *)

\* What handling a command, or landing a load, does to the commands.
LEMMA CommandsFrame ==
    ASSUME ServerNext
    PROVE  \/ HandleCommand \/ LoadStepLands
           \/ UNCHANGED <<up, loading, effects>>
BY DEF ServerNext, ProgramWrites, ProgramRuns, Step, EndRun, Flush, RefreshLands, Export

\* A command is handled: it has taken effect, it waits for the adapter, or it is gone.
LEMMA Handled ==
    ASSUME ServerOK, HandleCommand
    PROVE  LET cmd == Head(up) IN
           /\ up # <<>> /\ up' = Tail(up)
           /\ \/ effects' = effects /\ loading' = loading
              \/ effects' = effects /\ loading' = loading \cup {cmd} /\ cmd.type # "refresh"
              \/ effects' = Append(effects, cmd.id) /\ loading' = loading /\ cmd.type # "refresh"
BY DEF HandleCommand, Refresh, Mutate, Refuse, RunCommand, LoadStep, Effect

LEMMA EffectAppended ==
    ASSUME NEW n \in Nat, effects \in Seq(1 .. n), NEW id \in 1 .. n, id \notin Range(effects),
           \A i, j \in DOMAIN effects : effects[i] = effects[j] => i = j,
           NEW new, new = Append(effects, id)
    PROVE  /\ new \in Seq(1 .. n) /\ Range(new) = Range(effects) \cup {id}
           /\ \A i, j \in DOMAIN new : new[i] = new[j] => i = j
<1>1. /\ new \in Seq(1 .. n) /\ DOMAIN new = 1 .. (Len(effects) + 1)
      /\ Len(effects) \in Nat /\ DOMAIN effects = 1 .. Len(effects)
      /\ \A i \in 1 .. Len(effects) : new[i] = effects[i]
      /\ new[Len(effects) + 1] = id /\ Range(new) = Range(effects) \cup {id}
  BY AppendOf
<1>2. \A i \in 1 .. Len(effects) : effects[i] # id
  BY <1>1 DEF Range
<1> QED BY <1>1, <1>2

LEMMA CommandsStep ==
    ASSUME ServerOK, PageOK, CommandsOK, [Next]_vars
    PROVE  CommandsOK'
<1>1. nextId \in Nat /\ effects \in Seq(1 .. nextId) /\ up \in Seq(Commands)
  BY DEF PageOK, CommandsOK, ServerOK
<1>2. CASE HandleCommand /\ UNCHANGED pageVars
  <2> DEFINE cmd == Head(up)
  <2>1. /\ up # <<>> /\ up' = Tail(up) /\ nextId' = nextId
        /\ \/ effects' = effects /\ loading' = loading
           \/ effects' = effects /\ loading' = loading \cup {cmd} /\ cmd.type # "refresh"
           \/ effects' = Append(effects, cmd.id) /\ loading' = loading /\ cmd.type # "refresh"
    BY <1>2, Handled DEF pageVars
  <2>2. /\ cmd = up[1] /\ Len(up) \in Nat \ {0}
        /\ DOMAIN up = 1 .. Len(up) /\ DOMAIN up' = 1 .. (Len(up) - 1)
        /\ \A i \in DOMAIN up' : up'[i] = up[i + 1] /\ i + 1 \in DOMAIN up
    BY <1>1, <2>1, TailOf
  <2>3. cmd \in Commands /\ 1 \in DOMAIN up
    BY <1>1, <2>2
  <2> HIDE DEF cmd
  <2>4. cmd.type # "refresh" => cmd.id \in 1 .. nextId
    <3>1. cmd.id \in Nat
      BY <2>3 DEF Commands
    <3>2. cmd.id <= nextId /\ (cmd.id = 0 <=> cmd.type = "refresh")
      BY <2>2, <2>3 DEF CommandsOK
    <3> QED BY <1>1, <3>1, <3>2
  <2>5. cmd.id \notin Range(effects) /\ \A c \in loading : c.id # cmd.id
    BY <2>2, <2>3 DEF CommandsOK
  <2>6. \A i \in DOMAIN up' : up'[i].id # cmd.id \/ cmd.id = 0
    BY <2>2, <2>3 DEF CommandsOK
  <2>7. /\ \A i \in DOMAIN up' : /\ up'[i].id <= nextId
                                 /\ (up'[i].id = 0 <=> up'[i].type = "refresh")
                                 /\ up'[i].id \notin Range(effects)
        /\ \A i, j \in DOMAIN up' : up'[i].id = up'[j].id => i = j \/ up'[i].id = 0
    BY <2>2 DEF CommandsOK
  <2>8. \A c \in loading : \A i \in DOMAIN up' : up'[i].id # c.id
    BY <2>2 DEF CommandsOK
  <2>9. CASE effects' = effects /\ loading' = loading
    BY <2>1, <2>7, <2>8, <2>9 DEF CommandsOK
  <2>10. CASE effects' = effects /\ loading' = loading \cup {cmd} /\ cmd.type # "refresh"
    <3>1. cmd.id # 0 /\ cmd.id \in 1 .. nextId
      BY <1>1, <2>4, <2>10
    <3>2. \A c \in loading' : /\ c.id \in 1 .. nextId /\ c.id \notin Range(effects)
                              /\ \A i \in DOMAIN up' : up'[i].id # c.id
      BY <2>5, <2>6, <2>8, <2>10, <3>1 DEF CommandsOK
    <3>3. \A c, d \in loading' : c.id = d.id => c = d
      BY <2>5, <2>10 DEF CommandsOK
    <3> QED BY <2>1, <2>7, <2>10, <3>2, <3>3 DEF CommandsOK
  <2>11. CASE effects' = Append(effects, cmd.id) /\ loading' = loading /\ cmd.type # "refresh"
    <3>1. cmd.id # 0 /\ cmd.id \in 1 .. nextId
      BY <1>1, <2>4, <2>11
    <3>2. /\ effects' \in Seq(1 .. nextId) /\ Range(effects') = Range(effects) \cup {cmd.id}
          /\ \A i, j \in DOMAIN effects' : effects'[i] = effects'[j] => i = j
      BY <1>1, <2>5, <2>11, <3>1, EffectAppended DEF CommandsOK
    <3>3. \A i \in DOMAIN up' : up'[i].id \notin Range(effects')
      BY <2>6, <2>7, <3>1, <3>2
    <3>4. \A c \in loading : c.id \notin Range(effects')
      BY <2>5, <3>2 DEF CommandsOK
    <3> QED BY <2>1, <2>7, <2>8, <2>11, <3>2, <3>3, <3>4 DEF CommandsOK
  <2> QED BY <2>1, <2>9, <2>10, <2>11
<1>3. CASE LoadStepLands /\ UNCHANGED pageVars
  <2>1. PICK cmd \in loading :
          /\ loading' = loading \ {cmd}
          /\ effects' = effects \/ effects' = Append(effects, cmd.id)
    BY <1>3 DEF LoadStepLands, Effect
  <2>2. up' = up /\ nextId' = nextId
    BY <1>3 DEF LoadStepLands, pageVars
  <2>3. CASE effects' = effects
    BY <2>1, <2>2, <2>3 DEF CommandsOK
  <2>4. CASE effects' = Append(effects, cmd.id)
    <3>1. /\ effects' \in Seq(1 .. nextId) /\ Range(effects') = Range(effects) \cup {cmd.id}
          /\ \A i, j \in DOMAIN effects' : effects'[i] = effects'[j] => i = j
      BY <1>1, <2>1, <2>4, EffectAppended DEF CommandsOK
    <3>2. \A i \in DOMAIN up : up[i].id \notin Range(effects')
      BY <2>1, <3>1 DEF CommandsOK
    <3>3. \A c \in loading' : c.id \notin Range(effects')
      BY <2>1, <3>1 DEF CommandsOK
    <3> QED BY <2>1, <2>2, <3>1, <3>2, <3>3 DEF CommandsOK
  <2> QED BY <2>1, <2>3, <2>4
<1>4. CASE Connect
  <2> DEFINE cmd == Command(0, conn + 1, "refresh", 0)
  <2>1. up' = Append(up, cmd) /\ UNCHANGED <<loading, effects, nextId>>
    BY <1>4 DEF Connect
  <2>2. cmd.id = 0 /\ cmd.type = "refresh" /\ cmd \in Commands
    BY DEF Command, Commands, ServerOK
  <2> HIDE DEF cmd
  <2>3. /\ DOMAIN up' = 1 .. (Len(up) + 1) /\ Len(up) \in Nat /\ DOMAIN up = 1 .. Len(up)
        /\ \A i \in 1 .. Len(up) : up'[i] = up[i]
        /\ up'[Len(up) + 1] = cmd
    BY <1>1, <2>1, <2>2, AppendOf
  <2>4. 0 \notin Range(effects) /\ \A c \in loading : c.id # 0
    BY <1>1 DEF CommandsOK, Range
  <2>5. /\ \A i \in DOMAIN up' : /\ up'[i].id <= nextId
                                 /\ (up'[i].id = 0 <=> up'[i].type = "refresh")
                                 /\ up'[i].id \notin Range(effects)
                                 /\ \A c \in loading : up'[i].id # c.id
    <3>1. ASSUME NEW i \in DOMAIN up, up'[i] = up[i]
          PROVE  /\ up'[i].id <= nextId
                 /\ (up'[i].id = 0 <=> up'[i].type = "refresh")
                 /\ up'[i].id \notin Range(effects)
                 /\ \A c \in loading : up'[i].id # c.id
      BY <3>1 DEF CommandsOK
    <3>2. \A i \in DOMAIN up' : i = Len(up) + 1 \/ (i \in DOMAIN up /\ up'[i] = up[i])
      BY <2>3
    <3> QED BY <1>1, <2>2, <2>3, <2>4, <3>1, <3>2
  <2>6. \A i, j \in DOMAIN up' : up'[i].id = up'[j].id => i = j \/ up'[i].id = 0
    BY <2>2, <2>3 DEF CommandsOK
  <2> QED BY <2>1, <2>5, <2>6 DEF CommandsOK
<1>5. CASE Request
  <2>1. PICK type \in {"mutate", "run", "send", "load-step"}, step \in 1 .. 2 :
          up' = Append(up, Command(nextId', conn, type, step))
    BY <1>5 DEF Request
  <2>2. nextId' = nextId + 1 /\ UNCHANGED <<loading, effects>>
    BY <1>5 DEF Request
  <2> DEFINE cmd == Command(nextId', conn, type, step)
  <2>3. cmd.id = nextId + 1 /\ cmd.type # "refresh" /\ cmd \in Commands
    BY <1>1, <2>1, <2>2 DEF Command, Commands, ServerOK
  <2> HIDE DEF cmd
  <2>4. /\ DOMAIN up' = 1 .. (Len(up) + 1) /\ Len(up) \in Nat /\ DOMAIN up = 1 .. Len(up)
        /\ \A i \in 1 .. Len(up) : up'[i] = up[i]
        /\ up'[Len(up) + 1] = cmd
    BY <1>1, <2>1, <2>3, AppendOf DEF cmd
  <2>5. nextId + 1 \notin Range(effects) /\ \A c \in loading : c.id # nextId + 1
    BY <1>1 DEF CommandsOK, Range
  <2>6. \A i \in DOMAIN up : up[i].id # nextId + 1
    BY <1>1 DEF CommandsOK, Commands
  <2>7. \A i \in DOMAIN up' : i = Len(up) + 1 \/ (i \in DOMAIN up /\ up'[i] = up[i])
    BY <2>4
  <2>8. ASSUME NEW i \in DOMAIN up'
        PROVE  /\ up'[i].id <= nextId + 1
               /\ (up'[i].id = 0 <=> up'[i].type = "refresh")
               /\ up'[i].id \notin Range(effects)
               /\ \A c \in loading : up'[i].id # c.id
    <3>1. CASE i = Len(up) + 1
      BY <1>1, <2>3, <2>4, <2>5, <3>1
    <3>2. CASE i \in DOMAIN up /\ up'[i] = up[i]
      <4>1. up[i].id <= nextId /\ up[i].id \in Nat
        <5>1. up[i] \in Commands
          BY <1>1, <3>2
        <5>2. up[i].id \in Nat
          BY <5>1 DEF Commands
        <5> QED BY <3>2, <5>2 DEF CommandsOK
      <4> QED BY <1>1, <3>2, <4>1 DEF CommandsOK
    <3> QED BY <2>7, <3>1, <3>2
  <2>9. \A i, j \in DOMAIN up' : up'[i].id = up'[j].id => i = j \/ up'[i].id = 0
    BY <2>3, <2>4, <2>6, <2>7 DEF CommandsOK
  <2>10. effects \in Seq(1 .. (nextId + 1))
    BY <1>1
  <2>11. \A c \in loading : c.id \in 1 .. (nextId + 1)
    BY <1>1 DEF CommandsOK
  <2> QED BY <2>2, <2>8, <2>9, <2>10, <2>11 DEF CommandsOK
<1>6. CASE UNCHANGED <<up, loading, effects, nextId>>
  BY <1>6 DEF CommandsOK
<1> QED
  BY <1>2, <1>3, <1>4, <1>5, <1>6, CommandsFrame
     DEF Next, Disconnect, Receive, Timeout, vars, serverVars, pageVars

\* A true result of a command under way was sent when the command took effect.
TrueResults(d, done) ==
    \A i \in DOMAIN d : d[i].type = "result" /\ d[i].ok => d[i].id \in done \cup {0}

LEMMA ResultsStep ==
    ASSUME ServerOK, PageOK, CommandsOK, ResultsOK, [Next]_vars
    PROVE  ResultsOK'
<1>0. down \in Seq(Message) /\ nextId \in Nat /\ TrueResults(down, Range(effects))
      /\ effects \in Seq(1 .. nextId)
  BY DEF PageOK, ResultsOK, TrueResults, CommandsOK
<1>1. CASE ServerNext /\ UNCHANGED pageVars
  <2>1. PICK msgs : Tells(msgs)
    BY <1>1, ServerTells
  <2>2. UNCHANGED <<pending, outcome, nextId>> /\ open' = open
    BY <1>1, ServerFrame DEF pageVars
  <2>3. Range(effects) \subseteq Range(effects')
    <3>1. CASE effects' = effects
      BY <3>1
    <3>2. CASE HandleCommand
      <4>1. effects' = effects \/ (effects' = Append(effects, Head(up).id) /\ up # <<>>)
        BY <3>2, Handled
      <4>2. ASSUME up # <<>> PROVE Head(up).id \in Nat
        <5>1. Head(up) \in Commands
          BY <4>2, TailOf DEF ServerOK
        <5> QED BY <5>1 DEF Commands
      <4>3. effects \in Seq(Nat)
        BY <1>0
      <4>4. ASSUME effects' = Append(effects, Head(up).id), up # <<>>
            PROVE  Range(effects') = Range(effects) \cup {Head(up).id}
        BY <4>2, <4>3, <4>4, AppendOf
      <4> QED BY <4>1, <4>4
    <3>3. CASE LoadStepLands
      <4>1. PICK cmd \in loading : effects' = effects \/ effects' = Append(effects, cmd.id)
        BY <3>3 DEF LoadStepLands, Effect
      <4>2. cmd.id \in 1 .. nextId
        BY DEF CommandsOK
      <4>3. ASSUME effects' = Append(effects, cmd.id)
            PROVE  Range(effects') = Range(effects) \cup {cmd.id}
        BY <1>0, <4>2, <4>3, AppendOf
      <4> QED BY <4>1, <4>3
    <3> QED BY <1>1, <3>1, <3>2, <3>3, CommandsFrame
  <2>4. TrueResults(down', Range(effects'))
    <3>1. CASE down' = down
      BY <1>0, <2>3, <3>1 DEF TrueResults
    <3>2. CASE down' = down \o msgs
      <4>1. msgs \in Seq(Message) /\ TrueResults(msgs, Range(effects'))
        BY <2>1 DEF Tells, TrueResults
      <4>2. \A i \in DOMAIN down' :
               \/ i \in DOMAIN down /\ down'[i] = down[i]
               \/ \E k \in DOMAIN msgs : down'[i] = msgs[k]
        BY <1>0, <3>2, <4>1, Cat
      <4> QED BY <1>0, <2>3, <4>1, <4>2 DEF TrueResults
    <3> QED BY <2>1, <3>1, <3>2 DEF Tells
  <2> QED BY <2>2, <2>3, <2>4 DEF ResultsOK, TrueResults
<1>2. CASE Connect
  <2>1. down' = Greeting /\ open' = TRUE /\ UNCHANGED <<effects, pending, outcome>>
    BY <1>2 DEF Connect
  <2>2. \A i \in DOMAIN down' : down'[i].type # "result"
    <3>1. /\ DOMAIN down' \subseteq Nat \ {0}
          /\ down'[1].type = "world" /\ down'[2].type = "trace"
          /\ \A i \in DOMAIN down' : i > 2 => down'[i].type = "spans"
      BY <2>1, GreetingOf
    <3>2. \A i \in DOMAIN down' : i = 1 \/ i = 2 \/ i > 2
      BY <3>1
    <3> QED BY <3>1, <3>2
  <2> QED BY <2>1, <2>2 DEF ResultsOK
<1>3. CASE Disconnect
  <2>1. /\ down' = <<>> /\ pending' = {} /\ effects' = effects
        /\ outcome' = Settled(pending, "error")
    BY <1>3 DEF Disconnect
  <2> QED BY <2>1 DEF ResultsOK, Settled
<1>4. CASE Request
  <2>1. /\ outcome' = Append(outcome, "none") /\ open' = open /\ open
        /\ UNCHANGED <<down, effects>>
    BY <1>4 DEF Request, PageOK
  <2>2. outcome \in Seq({"none", "ok", "error"})
    <3>1. outcome \in [1 .. nextId -> {"none", "ok", "error"}]
      BY DEF PageOK
    <3> QED BY <1>0, <3>1
  <2>3. \A id \in DOMAIN outcome' : outcome'[id] = "none" \/ (id \in DOMAIN outcome /\ outcome'[id] = outcome[id])
    BY <2>1, <2>2, AppendOf
  <2> QED BY <2>1, <2>3 DEF ResultsOK
<1>5. CASE \E id \in pending : Timeout(id)
  BY <1>5 DEF Timeout, Settled, serverVars, ResultsOK
<1>6. CASE Receive
  <2> DEFINE msg == Head(down)
  <2>1. down # <<>> /\ down' = Tail(down) /\ UNCHANGED <<effects, open>>
    BY <1>6 DEF Receive
  <2>2. /\ msg = down[1] /\ msg \in Message /\ 1 \in DOMAIN down
        /\ \A i \in DOMAIN down' : down'[i] = down[i + 1] /\ i + 1 \in DOMAIN down
    BY <1>0, <2>1, TailOf
  <2>3. TrueResults(down', Range(effects'))
    BY <1>0, <2>1, <2>2 DEF TrueResults
  <2>4. CASE msg.type # "result"
    BY <1>6, <2>1, <2>3, <2>4 DEF Receive, ResultsOK, TrueResults
  <2>5. CASE msg.type = "result"
    <3>1. /\ pending' = pending \ {msg.id}
          /\ outcome' = Settled(pending \cap {msg.id}, IF msg.ok THEN "ok" ELSE "error")
      BY <1>6, <2>5 DEF Receive
    <3>2. msg.ok \in BOOLEAN /\ (msg.ok => msg.id \in Range(effects) \cup {0})
      BY <1>0, <2>2, <2>5, MessageFields DEF TrueResults
    <3>3. 0 \notin pending
      BY <1>0 DEF PageOK
    <3>4. ASSUME NEW id \in DOMAIN outcome', outcome'[id] = "ok" PROVE id \in Range(effects)
      <4>1. /\ id \in DOMAIN outcome
            /\ outcome'[id] = IF id \in pending \cap {msg.id}
                              THEN IF msg.ok THEN "ok" ELSE "error" ELSE outcome[id]
        BY <3>1 DEF Settled
      <4>2. CASE id \in pending \cap {msg.id}
        <5>1. id = msg.id /\ id # 0 /\ msg.ok
          BY <3>2, <3>3, <3>4, <4>1, <4>2
        <5> QED BY <3>2, <5>1
      <4>3. CASE id \notin pending \cap {msg.id}
        BY <3>4, <4>1, <4>3 DEF ResultsOK
      <4> QED BY <4>2, <4>3
    <3> HIDE DEF msg
    <3> QED BY <2>1, <2>3, <3>1, <3>4 DEF ResultsOK, TrueResults
  <2> QED BY <2>4, <2>5
<1>7. CASE UNCHANGED vars
  BY <1>7 DEF vars, serverVars, pageVars, ResultsOK
<1> QED BY <1>1, <1>2, <1>3, <1>4, <1>5, <1>6, <1>7 DEF Next

-----------------------------------------------------------------------------
(* Events                                                                   *)

LEMMA NextIsCat ==
    ASSUME NEW d \in Seq(Message), NEW msgs \in Seq(Message), NEW i \in Nat \ {0},
           NEW n \in Nat, NEW top \in Nat, NEW new,
           \/ new = top /\ \A k \in DOMAIN msgs : ~IsEvent(msgs[k])
           \/ /\ new = top + 1 /\ i <= Len(d) + 1
              /\ msgs # <<>> /\ IsEvent(msgs[1]) /\ msgs[1].n = top + 1,
           NextIs(d, i, n, top)
    PROVE  NextIs(d \o msgs, i, n, new)
<1>1. /\ DOMAIN d = 1 .. Len(d) /\ Len(d) \in Nat /\ DOMAIN msgs = 1 .. Len(msgs)
      /\ Len(msgs) \in Nat /\ DOMAIN (d \o msgs) = 1 .. (Len(d) + Len(msgs))
      /\ \A k \in DOMAIN d : (d \o msgs)[k] = d[k]
      /\ \A k \in DOMAIN msgs : (d \o msgs)[Len(d) + k] = msgs[k]
      /\ \A k \in DOMAIN (d \o msgs) :
            \/ k \in DOMAIN d
            \/ \E l \in DOMAIN msgs : k = Len(d) + l /\ (d \o msgs)[k] = msgs[l]
  BY Cat
<1>2. CASE \E k \in DOMAIN d : /\ i <= k /\ IsEvent(d[k]) /\ d[k].n = n
                               /\ \A j \in DOMAIN d : i <= j /\ j < k => ~IsEvent(d[j])
  <2>1. PICK k \in DOMAIN d : /\ i <= k /\ IsEvent(d[k]) /\ d[k].n = n
                              /\ \A j \in DOMAIN d : i <= j /\ j < k => ~IsEvent(d[j])
    BY <1>2
  <2>2. k \in DOMAIN (d \o msgs) /\ (d \o msgs)[k] = d[k]
    BY <1>1
  <2>3. ASSUME NEW j \in DOMAIN (d \o msgs), i <= j, j < k PROVE ~IsEvent((d \o msgs)[j])
    <3>1. j \in DOMAIN d
      BY <1>1, <2>3
    <3> QED BY <1>1, <2>1, <2>3, <3>1
  <2> QED BY <2>1, <2>2, <2>3 DEF NextIs
<1>3. CASE n = top + 1 /\ \A j \in DOMAIN d : i <= j => ~IsEvent(d[j])
  <2>1. CASE new = top /\ \A k \in DOMAIN msgs : ~IsEvent(msgs[k])
    <3>1. ASSUME NEW j \in DOMAIN (d \o msgs), i <= j PROVE ~IsEvent((d \o msgs)[j])
      BY <1>1, <1>3, <2>1, <3>1
    <3> QED BY <1>3, <2>1, <3>1 DEF NextIs
  <2>2. CASE /\ new = top + 1 /\ i <= Len(d) + 1
             /\ msgs # <<>> /\ IsEvent(msgs[1]) /\ msgs[1].n = top + 1
    <3>1. 1 \in DOMAIN msgs
      BY <2>2
    <3>2. /\ Len(d) + 1 \in DOMAIN (d \o msgs) /\ (d \o msgs)[Len(d) + 1] = msgs[1]
      BY <1>1, <3>1
    <3>3. ASSUME NEW j \in DOMAIN (d \o msgs), i <= j, j < Len(d) + 1
          PROVE  ~IsEvent((d \o msgs)[j])
      <4>1. j \in DOMAIN d
        BY <1>1, <3>3
      <4> QED BY <1>1, <1>3, <3>3, <4>1
    <3> QED BY <1>3, <2>2, <3>2, <3>3 DEF NextIs
  <2> QED BY <2>1, <2>2
<1> QED BY <1>2, <1>3 DEF NextIs

LEMMA NextIsTail ==
    ASSUME NEW d \in Seq(Message), d # <<>>, NEW i \in Nat \ {0}, NEW n \in Nat, NEW top \in Nat,
           NextIs(d, i + 1, n, top)
    PROVE  NextIs(Tail(d), i, n, top)
<1>1. /\ Len(d) \in Nat \ {0} /\ DOMAIN d = 1 .. Len(d) /\ DOMAIN Tail(d) = 1 .. (Len(d) - 1)
      /\ \A k \in DOMAIN Tail(d) : Tail(d)[k] = d[k + 1] /\ k + 1 \in DOMAIN d
  BY TailOf
<1>2. CASE \E k \in DOMAIN d : /\ i + 1 <= k /\ IsEvent(d[k]) /\ d[k].n = n
                               /\ \A j \in DOMAIN d : i + 1 <= j /\ j < k => ~IsEvent(d[j])
  <2>1. PICK k \in DOMAIN d : /\ i + 1 <= k /\ IsEvent(d[k]) /\ d[k].n = n
                              /\ \A j \in DOMAIN d : i + 1 <= j /\ j < k => ~IsEvent(d[j])
    BY <1>2
  <2>2. k - 1 \in DOMAIN Tail(d) /\ i <= k - 1 /\ (k - 1) + 1 = k
    BY <1>1, <2>1
  <2>3. IsEvent(Tail(d)[k - 1]) /\ Tail(d)[k - 1].n = n
    BY <1>1, <2>1, <2>2
  <2>4. ASSUME NEW j \in DOMAIN Tail(d), i <= j, j < k - 1 PROVE ~IsEvent(Tail(d)[j])
    <3>1. j + 1 \in DOMAIN d /\ i + 1 <= j + 1 /\ j + 1 < k /\ Tail(d)[j] = d[j + 1]
      BY <1>1, <2>4
    <3> QED BY <2>1, <3>1
  <2> QED BY <2>2, <2>3, <2>4 DEF NextIs
<1>3. CASE n = top + 1 /\ \A j \in DOMAIN d : i + 1 <= j => ~IsEvent(d[j])
  <2>1. ASSUME NEW j \in DOMAIN Tail(d), i <= j PROVE ~IsEvent(Tail(d)[j])
    <3>1. j + 1 \in DOMAIN d /\ i + 1 <= j + 1 /\ Tail(d)[j] = d[j + 1]
      BY <1>1, <2>1
    <3> QED BY <1>3, <3>1
  <2> QED BY <1>3, <2>1 DEF NextIs
<1> QED BY <1>2, <1>3 DEF NextIs

\* The first message is the next event, or no event.
LEMMA NextIsHead ==
    ASSUME NEW d \in Seq(Message), d # <<>>, NEW n \in Nat, NEW top \in Nat, NextIs(d, 1, n, top)
    PROVE  IF IsEvent(Head(d)) THEN Head(d).n = n ELSE NextIs(d, 2, n, top)
<1>1. Head(d) = d[1] /\ 1 \in DOMAIN d /\ DOMAIN d = 1 .. Len(d) /\ Len(d) \in Nat
  BY TailOf
<1>2. CASE IsEvent(d[1])
  <2>1. PICK k \in DOMAIN d : /\ 1 <= k /\ IsEvent(d[k]) /\ d[k].n = n
                              /\ \A j \in DOMAIN d : 1 <= j /\ j < k => ~IsEvent(d[j])
    BY <1>1, <1>2 DEF NextIs
  <2>2. k = 1
    BY <1>1, <1>2, <2>1
  <2> QED BY <1>1, <1>2, <2>1, <2>2
<1>3. CASE ~IsEvent(d[1])
  <2>1. CASE \E k \in DOMAIN d : /\ 1 <= k /\ IsEvent(d[k]) /\ d[k].n = n
                                 /\ \A j \in DOMAIN d : 1 <= j /\ j < k => ~IsEvent(d[j])
    <3>1. PICK k \in DOMAIN d : /\ 1 <= k /\ IsEvent(d[k]) /\ d[k].n = n
                                /\ \A j \in DOMAIN d : 1 <= j /\ j < k => ~IsEvent(d[j])
      BY <2>1
    <3>2. k # 1
      BY <1>3, <3>1
    <3>3. 2 <= k
      BY <1>1, <3>1, <3>2
    <3>4. \A j \in DOMAIN d : 2 <= j /\ j < k => ~IsEvent(d[j])
      BY <1>1, <3>1
    <3>5. NextIs(d, 2, n, top)
      BY <3>1, <3>3, <3>4 DEF NextIs
    <3> QED BY <1>1, <1>3, <3>5
  <2>2. CASE n = top + 1 /\ \A j \in DOMAIN d : 1 <= j => ~IsEvent(d[j])
    <3>1. \A j \in DOMAIN d : 2 <= j => ~IsEvent(d[j])
      BY <1>1, <2>2
    <3>2. NextIs(d, 2, n, top)
      BY <2>2, <3>1 DEF NextIs
    <3> QED BY <1>1, <1>3, <3>2
  <2> QED BY <2>1, <2>2 DEF NextIs
<1> QED BY <1>2, <1>3

LEMMA GapsFinite ==
    ASSUME NEW s \in Seq(Nat)
    PROVE  IsFiniteSet(Gaps(s)) /\ Cardinality(Gaps(s)) \in Nat
<1>1. Gaps(s) \in SUBSET (2 .. Len(s)) /\ Len(s) \in Int
  BY DEF Gaps
<1>2. IsFiniteSet(2 .. Len(s))
  BY <1>1, FS_Interval
<1> QED BY <1>1, <1>2, FS_Subset, FS_CardinalityType

LEMMA GapBeforeIs ==
    ASSUME NEW s \in Seq(Nat), NEW n \in Nat
    PROVE  /\ GapBefore(s, n) \in {0, 1}
           /\ s = <<>> \/ Last(s) + 1 = n => GapBefore(s, n) = 0
           /\ s # <<>> /\ Last(s) + 1 # n => GapBefore(s, n) = 1
BY DEF GapBefore

\* Showing n adds a gap only if n does not follow the last event shown; that the
\* oldest one goes adds none.
LEMMA GapsAppended ==
    ASSUME NEW s \in Seq(Nat), NEW n \in Nat
    PROVE  Cardinality(Gaps(Append(s, n))) <= Cardinality(Gaps(s)) + GapBefore(s, n)
<1> DEFINE a == Append(s, n)
<1>1. /\ a \in Seq(Nat) /\ Len(a) = Len(s) + 1 /\ Len(s) \in Nat
      /\ \A i \in 1 .. Len(s) : a[i] = s[i]
      /\ a[Len(s) + 1] = n
  BY AppendOf
<1> HIDE DEF a
<1>2. Gaps(a) \subseteq Gaps(s) \cup {Len(s) + 1}
  <2> SUFFICES ASSUME NEW i \in Gaps(a), i # Len(s) + 1 PROVE i \in Gaps(s)
    OBVIOUS
  <2>1. i \in 2 .. Len(s) /\ a[i] # a[i - 1] + 1
    BY <1>1 DEF Gaps
  <2>2. i \in 1 .. Len(s) /\ i - 1 \in 1 .. Len(s)
    BY <1>1, <2>1
  <2>3. a[i] = s[i] /\ a[i - 1] = s[i - 1]
    BY <1>1, <2>2
  <2> QED BY <2>1, <2>3 DEF Gaps
<1>3. /\ IsFiniteSet(Gaps(s)) /\ Cardinality(Gaps(s)) \in Nat
      /\ IsFiniteSet(Gaps(a)) /\ Cardinality(Gaps(a)) \in Nat
  BY <1>1, GapsFinite
<1>4. /\ IsFiniteSet(Gaps(s) \cup {Len(s) + 1})
      /\ Cardinality(Gaps(s) \cup {Len(s) + 1}) \in Nat
      /\ Cardinality(Gaps(s) \cup {Len(s) + 1}) <= Cardinality(Gaps(s)) + 1
  <2> DEFINE S == Gaps(s)
  <2> DEFINE x == Len(s) + 1
  <2> HIDE DEF S, x
  <2>1. IsFiniteSet(S) /\ Cardinality(S) \in Nat
    BY <1>3 DEF S
  <2>2. /\ IsFiniteSet(S \cup {x})
        /\ Cardinality(S \cup {x}) = IF x \in S THEN Cardinality(S) ELSE Cardinality(S) + 1
    BY <2>1, FS_AddElement
  <2>3. Cardinality(S \cup {x}) \in Nat /\ Cardinality(S \cup {x}) <= Cardinality(S) + 1
    BY <2>1, <2>2
  <2> QED BY <2>2, <2>3 DEF S, x
<1>5. Cardinality(Gaps(a)) <= Cardinality(Gaps(s)) + 1
  <2>1. Cardinality(Gaps(a)) <= Cardinality(Gaps(s) \cup {Len(s) + 1})
    BY <1>2, <1>4, FS_Subset
  <2> QED BY <1>3, <1>4, <2>1
<1>6. CASE s = <<>> \/ Last(s) + 1 = n
  <2>1. Len(s) + 1 \notin Gaps(a)
    <3>1. CASE s = <<>>
      BY <3>1 DEF Gaps
    <3>2. CASE s # <<>> /\ Last(s) + 1 = n
      <4>1. Last(s) = s[Len(s)] /\ Len(s) \in 1 .. Len(s)
        BY <3>2 DEF Last
      <4>2. a[Len(s) + 1] = a[(Len(s) + 1) - 1] + 1
        BY <1>1, <3>2, <4>1
      <4> QED BY <4>2 DEF Gaps
    <3> QED BY <1>6, <3>1, <3>2
  <2>2. Gaps(a) \in SUBSET Gaps(s)
    BY <1>2, <2>1
  <2>3. Cardinality(Gaps(a)) <= Cardinality(Gaps(s))
    BY <1>3, <2>2, FS_Subset
  <2>4. GapBefore(s, n) = 0
    BY <1>6, GapBeforeIs
  <2> QED BY <1>3, <2>3, <2>4 DEF a
<1>7. CASE s # <<>> /\ Last(s) + 1 # n
  <2>1. GapBefore(s, n) = 1
    BY <1>7, GapBeforeIs
  <2> QED BY <1>5, <2>1 DEF a
<1> QED BY <1>6, <1>7

LEMMA GapsShifted ==
    ASSUME NEW a \in Seq(Nat), NEW b \in Seq(Nat), Len(a) = Len(b) + 1,
           \A i \in 1 .. Len(b) : b[i] = a[i + 1]
    PROVE  Cardinality(Gaps(b)) <= Cardinality(Gaps(a))
<1> DEFINE f == [i \in Gaps(b) |-> i + 1]
<1>1. \A i \in Gaps(b) : i \in Nat /\ i + 1 \in Gaps(a)
  <2> SUFFICES ASSUME NEW i \in Gaps(b) PROVE i \in Nat /\ i + 1 \in Gaps(a)
    OBVIOUS
  <2>1. i \in 2 .. Len(b) /\ b[i] # b[i - 1] + 1 /\ Len(b) \in Nat
    BY DEF Gaps
  <2>2. i - 1 \in 1 .. Len(b) /\ i \in 1 .. Len(b) /\ (i - 1) + 1 = i /\ (i + 1) - 1 = i
    BY <2>1
  <2>3. b[i] = a[i + 1] /\ b[i - 1] = a[i]
    BY <2>2
  <2>4. a[i + 1] # a[(i + 1) - 1] + 1 /\ i + 1 \in 2 .. Len(a)
    BY <2>1, <2>2, <2>3
  <2> QED BY <2>1, <2>4 DEF Gaps
<1>2. f \in Injection(Gaps(b), Gaps(a))
  BY <1>1 DEF Injection, IsInjective
<1>3. IsFiniteSet(Gaps(a))
  BY GapsFinite
<1> QED BY <1>2, <1>3, FS_Injection

\* An event that comes after all those shown is shown in its place.
LEMMA EventShown ==
    ASSUME NEW s \in Seq(Nat), NEW n \in Nat, Len(s) <= EventCap,
           \A i, j \in DOMAIN s : i < j => s[i] < s[j],
           \A i \in DOMAIN s : s[i] < n,
           NEW new, new = Capped(Append(s, n), EventCap)
    PROVE  /\ new \in Seq(Nat)
           /\ \A i, j \in DOMAIN new : i < j => new[i] < new[j]
           /\ \A i \in DOMAIN new : new[i] <= n
           /\ Cardinality(Gaps(new)) + GapBefore(new, n + 1)
                 <= Cardinality(Gaps(s)) + GapBefore(s, n)
<1> DEFINE a == Append(s, n)
<1>1. /\ a \in Seq(Nat) /\ Len(a) = Len(s) + 1 /\ Len(s) \in Nat
      /\ DOMAIN a = 1 .. (Len(s) + 1) /\ DOMAIN s = 1 .. Len(s)
      /\ \A i \in 1 .. Len(s) : a[i] = s[i]
      /\ a[Len(s) + 1] = n
  BY AppendOf
<1>2. /\ new \in Seq(Nat)
      /\ new = a \/ (Len(new) = Len(s) /\ \A i \in 1 .. Len(s) : new[i] = a[i + 1])
  BY CappedNewest
<1> HIDE DEF a
<1>3. /\ \A i, j \in DOMAIN a : i < j => a[i] < a[j]
      /\ \A i \in DOMAIN a : a[i] <= n
  <2>1. \A i \in DOMAIN a : i = Len(s) + 1 \/ (i \in DOMAIN s /\ a[i] = s[i] /\ s[i] \in Nat)
    BY <1>1
  <2> QED BY <1>1, <2>1
<1>4. DOMAIN new = 1 .. Len(new) /\ Len(new) \in Nat
  BY <1>2
<1>5. CASE new = a
  <2>1. /\ \A i, j \in DOMAIN new : i < j => new[i] < new[j]
        /\ \A i \in DOMAIN new : new[i] <= n
    BY <1>3, <1>5
  <2>2. Cardinality(Gaps(new)) <= Cardinality(Gaps(s)) + GapBefore(s, n)
    BY <1>5, GapsAppended DEF a
  <2>3. new # <<>> /\ Last(new) = n
    BY <1>1, <1>5 DEF Last
  <2>4. GapBefore(new, n + 1) = 0
    BY <1>2, <2>3, GapBeforeIs
  <2>5. Cardinality(Gaps(new)) \in Nat
    BY <1>2, GapsFinite
  <2> QED BY <1>2, <2>1, <2>2, <2>4, <2>5
<1>6. CASE Len(new) = Len(s) /\ \A i \in 1 .. Len(s) : new[i] = a[i + 1]
  <2>1. \A i \in DOMAIN new : i + 1 \in DOMAIN a /\ new[i] = a[i + 1]
    BY <1>1, <1>4, <1>6
  <2>2. /\ \A i, j \in DOMAIN new : i < j => new[i] < new[j]
        /\ \A i \in DOMAIN new : new[i] <= n
    <3>1. \A i, j \in DOMAIN new : i < j => i + 1 < j + 1
      BY <1>4
    <3> QED BY <1>3, <2>1, <3>1
  <2>3. Cardinality(Gaps(new)) <= Cardinality(Gaps(a))
    BY <1>1, <1>2, <1>6, GapsShifted
  <2>4. Cardinality(Gaps(a)) <= Cardinality(Gaps(s)) + GapBefore(s, n)
    BY GapsAppended DEF a
  <2>5. GapBefore(new, n + 1) = 0
    <3>1. new = <<>> \/ Last(new) = n
      BY <1>1, <1>2, <1>6 DEF Last
    <3> QED BY <1>2, <3>1, GapBeforeIs
  <2>6. /\ Cardinality(Gaps(new)) \in Nat /\ Cardinality(Gaps(a)) \in Nat
        /\ Cardinality(Gaps(s)) \in Nat /\ GapBefore(s, n) \in Nat
    BY <1>1, <1>2, GapsFinite, GapBeforeIs
  <2> QED BY <1>2, <2>2, <2>3, <2>4, <2>5, <2>6
<1> QED BY <1>2, <1>5, <1>6

\* An event under way comes right before the next one, under way or to come.
Consecutive(d, top) ==
    \A i \in DOMAIN d : IsEvent(d[i]) => d[i].n <= top /\ NextIs(d, i + 1, d[i].n + 1, top)

LEMMA ConsecutiveCat ==
    ASSUME NEW d \in Seq(Message), NEW msgs \in Seq(Message), NEW top \in Nat, NEW new,
           \/ new = top /\ \A k \in DOMAIN msgs : ~IsEvent(msgs[k])
           \/ /\ new = top + 1
              /\ msgs # <<>> /\ IsEvent(msgs[1]) /\ msgs[1].n = top + 1
              /\ \A k \in DOMAIN msgs : k > 1 => ~IsEvent(msgs[k]),
           Consecutive(d, top)
    PROVE  Consecutive(d \o msgs, new)
<1> DEFINE all == d \o msgs
<1>1. /\ all \in Seq(Message)
      /\ DOMAIN d = 1 .. Len(d) /\ Len(d) \in Nat /\ DOMAIN msgs = 1 .. Len(msgs)
      /\ Len(msgs) \in Nat /\ DOMAIN all = 1 .. (Len(d) + Len(msgs))
      /\ \A k \in DOMAIN d : all[k] = d[k]
      /\ \A k \in DOMAIN msgs : all[Len(d) + k] = msgs[k]
      /\ \A k \in DOMAIN all :
            \/ k \in DOMAIN d
            \/ \E l \in DOMAIN msgs : k = Len(d) + l /\ all[k] = msgs[l]
  BY Cat
<1> HIDE DEF all
<1>2. ASSUME NEW i \in DOMAIN all, IsEvent(all[i])
      PROVE  all[i].n <= new /\ NextIs(all, i + 1, all[i].n + 1, new)
  <2>1. CASE i \in DOMAIN d
    <3>1. all[i] = d[i] /\ d[i].n <= top /\ NextIs(d, i + 1, d[i].n + 1, top)
      BY <1>1, <1>2, <2>1 DEF Consecutive
    <3>2. d[i].n \in Nat /\ i + 1 \in Nat \ {0} /\ i + 1 <= Len(d) + 1
      <4>1. d[i] \in Message
        BY <1>1, <2>1
      <4>2. d[i].n \in Nat
        BY <1>2, <3>1, <4>1, MessageFields DEF IsEvent
      <4> QED BY <1>1, <2>1, <4>2
    <3>3. NextIs(all, i + 1, d[i].n + 1, new)
      BY <3>1, <3>2, NextIsCat DEF all
    <3> QED BY <3>1, <3>2, <3>3
  <2>2. CASE \E l \in DOMAIN msgs : i = Len(d) + l /\ all[i] = msgs[l]
    <3>1. PICK l \in DOMAIN msgs : i = Len(d) + l /\ all[i] = msgs[l]
      BY <2>2
    <3>2. /\ l = 1 /\ new = top + 1 /\ msgs[1].n = top + 1
          /\ \A k \in DOMAIN msgs : k > 1 => ~IsEvent(msgs[k])
      BY <1>1, <1>2, <3>1
    <3>3. ASSUME NEW j \in DOMAIN all, i + 1 <= j PROVE ~IsEvent(all[j])
      <4>1. PICK k \in DOMAIN msgs : j = Len(d) + k /\ all[j] = msgs[k]
        BY <1>1, <3>1, <3>2, <3>3
      <4>2. k > 1
        BY <1>1, <3>1, <3>2, <3>3, <4>1
      <4> QED BY <3>2, <4>1, <4>2
    <3>4. all[i].n + 1 = new + 1 /\ all[i].n <= new
      BY <3>1, <3>2
    <3> QED BY <3>3, <3>4 DEF NextIs
  <2> QED BY <1>1, <2>1, <2>2
<1> QED BY <1>2 DEF Consecutive, all

LEMMA ConsecutiveTail ==
    ASSUME NEW d \in Seq(Message), d # <<>>, NEW top \in Nat, Consecutive(d, top)
    PROVE  Consecutive(Tail(d), top)
<1>1. /\ Len(d) \in Nat \ {0} /\ DOMAIN d = 1 .. Len(d)
      /\ \A k \in DOMAIN Tail(d) : Tail(d)[k] = d[k + 1] /\ k + 1 \in DOMAIN d
      /\ DOMAIN Tail(d) = 1 .. (Len(d) - 1)
  BY TailOf
<1>2. ASSUME NEW i \in DOMAIN Tail(d), IsEvent(Tail(d)[i])
      PROVE  /\ Tail(d)[i].n <= top
             /\ NextIs(Tail(d), i + 1, Tail(d)[i].n + 1, top)
  <2>1. Tail(d)[i] = d[i + 1] /\ i + 1 \in DOMAIN d /\ i + 1 \in Nat \ {0}
    BY <1>1
  <2>2. d[i + 1].n <= top /\ NextIs(d, (i + 1) + 1, d[i + 1].n + 1, top)
    BY <1>2, <2>1 DEF Consecutive
  <2>3. d[i + 1] \in Message
    BY <2>1
  <2>4. d[i + 1].n + 1 \in Nat
    BY <1>2, <2>1, <2>3, MessageFields DEF IsEvent
  <2> QED BY <2>1, <2>2, <2>4, NextIsTail
<1> QED BY <1>2 DEF Consecutive

LEMMA EventsOKParts ==
    EventsOK <=>
      /\ \A i, j \in DOMAIN ui.events : i < j => ui.events[i] < ui.events[j]
      /\ \A i \in DOMAIN ui.events : ui.events[i] <= emitted
      /\ conn = 0 => ui.events = <<>> /\ ~open
      /\ conn > 0 => Cardinality(Gaps(ui.events)) < conn
      /\ Consecutive(down, emitted)
      /\ open => \E n \in 1 .. emitted + 1 :
            /\ NextIs(down, 1, n, emitted)
            /\ \A i \in DOMAIN ui.events : ui.events[i] < n
            /\ Cardinality(Gaps(ui.events)) + GapBefore(ui.events, n) < conn
BY DEF EventsOK, Consecutive

LEMMA RangeGrows ==
    ASSUME NEW a \in Nat, NEW b \in Nat, a <= b, NEW n \in 1 .. a + 1
    PROVE  n \in Nat /\ n \in 1 .. b + 1
OBVIOUS

LEMMA EventsServerStep ==
    ASSUME ServerOK, PageOK, CommandsOK, EventsOK, ServerNext, UNCHANGED pageVars
    PROVE  EventsOK'
<1>0. /\ down \in Seq(Message) /\ emitted \in Nat /\ open \in BOOLEAN
      /\ ui.events \in Seq(Nat) /\ (~open => down = <<>>)
  BY StateFields DEF PageOK
<1>1. PICK msgs : Tells(msgs)
  BY ServerTells
<1>2. conn' = conn /\ open' = open /\ ui' = ui
  BY ServerFrame DEF pageVars
<1>3. /\ \/ emitted' = emitted /\ \A k \in DOMAIN msgs : ~IsEvent(msgs[k])
         \/ /\ emitted' = emitted + 1
            /\ msgs # <<>> /\ IsEvent(msgs[1]) /\ msgs[1].n = emitted + 1
            /\ \A k \in DOMAIN msgs : k > 1 => ~IsEvent(msgs[k])
      /\ msgs \in Seq(Message)
      /\ down' = IF open THEN down \o msgs ELSE down
  BY <1>1 DEF Tells
<1>4. emitted' \in Nat /\ emitted <= emitted'
  BY <1>0, <1>3
<1>5. \A i \in DOMAIN ui.events : ui.events[i] <= emitted'
  <2> SUFFICES ASSUME NEW i \in DOMAIN ui.events PROVE ui.events[i] <= emitted'
    OBVIOUS
  <2>1. ui.events[i] \in Nat /\ ui.events[i] <= emitted
    BY <1>0 DEF EventsOK
  <2> QED BY <1>0, <1>4, <2>1
<1>6. Consecutive(down', emitted')
  <2>1. CASE open
    BY <1>0, <1>3, <2>1, ConsecutiveCat, EventsOKParts
  <2>2. CASE ~open
    <3>1. down' = <<>>
      BY <1>0, <1>3, <2>2
    <3> QED BY <3>1 DEF Consecutive
  <2> QED BY <2>1, <2>2
<1>7. ASSUME open
      PROVE  \E n \in 1 .. emitted' + 1 :
                /\ NextIs(down', 1, n, emitted')
                /\ \A i \in DOMAIN ui.events : ui.events[i] < n
                /\ Cardinality(Gaps(ui.events)) + GapBefore(ui.events, n) < conn
  <2>1. PICK n \in 1 .. emitted + 1 :
                /\ NextIs(down, 1, n, emitted)
                /\ \A i \in DOMAIN ui.events : ui.events[i] < n
                /\ Cardinality(Gaps(ui.events)) + GapBefore(ui.events, n) < conn
    BY <1>7 DEF EventsOK
  <2>2. n \in Nat /\ n \in 1 .. emitted' + 1 /\ 1 <= Len(down) + 1
    <3>1. Len(down) \in Nat
      BY <1>0
    <3>2. emitted \in Nat
      BY <1>0
    <3>3. n \in Nat /\ n \in 1 .. emitted' + 1
      BY <1>4, <3>2, RangeGrows
    <3> QED BY <3>1, <3>3
  <2>3. NextIs(down', 1, n, emitted')
    BY <1>0, <1>3, <1>7, <2>1, <2>2, NextIsCat
  <2> QED BY <2>1, <2>2, <2>3
<1>8. /\ \A i, j \in DOMAIN ui.events : i < j => ui.events[i] < ui.events[j]
      /\ conn = 0 => ui.events = <<>> /\ ~open
      /\ conn > 0 => Cardinality(Gaps(ui.events)) < conn
  BY DEF EventsOK
<1> QED BY <1>2, <1>5, <1>6, <1>7, <1>8 DEF EventsOK, Consecutive

LEMMA EventsConnect ==
    ASSUME ServerOK, PageOK, EventsOK, Connect
    PROVE  EventsOK'
<1>0. emitted \in Nat /\ conn \in Nat /\ ui.events \in Seq(Nat)
  BY StateFields DEF PageOK, ServerOK
<1>1. /\ conn' = conn + 1 /\ down' = Greeting /\ open' = TRUE
      /\ UNCHANGED <<ui, emitted>>
  BY DEF Connect
<1>2. \A i \in DOMAIN down' : ~IsEvent(down'[i])
  <2>1. /\ DOMAIN down' \subseteq Nat \ {0}
        /\ down'[1].type = "world" /\ down'[2].type = "trace"
        /\ \A i \in DOMAIN down' : i > 2 => down'[i].type = "spans"
    BY <1>1, GreetingOf
  <2>2. \A i \in DOMAIN down' : i = 1 \/ i = 2 \/ i > 2
    BY <2>1
  <2> QED BY <2>1, <2>2 DEF IsEvent
<1>3. Consecutive(down', emitted)
  BY <1>2 DEF Consecutive
<1>4. Cardinality(Gaps(ui.events)) \in Nat /\ GapBefore(ui.events, emitted + 1) \in {0, 1}
  BY <1>0, GapsFinite, GapBeforeIs
<1>5. /\ Cardinality(Gaps(ui.events)) + GapBefore(ui.events, emitted + 1) < conn + 1
      /\ Cardinality(Gaps(ui.events)) < conn + 1
  <2>1. CASE conn = 0
    <3>1. ui.events = <<>>
      BY <2>1 DEF EventsOK
    <3>2. Gaps(ui.events) = {}
      BY <3>1 DEF Gaps
    <3>3. Cardinality(Gaps(ui.events)) = 0
      BY <3>2, FS_EmptySet
    <3>4. GapBefore(ui.events, emitted + 1) = 0
      BY <3>1 DEF GapBefore
    <3> QED BY <2>1, <3>3, <3>4
  <2>2. CASE conn > 0
    <3>1. Cardinality(Gaps(ui.events)) < conn
      BY <2>2 DEF EventsOK
    <3> QED BY <1>0, <1>4, <3>1
  <2> QED BY <1>0, <2>1, <2>2
<1>6. NextIs(down', 1, emitted + 1, emitted)
  BY <1>2 DEF NextIs
<1>7. \A i \in DOMAIN ui.events : ui.events[i] < emitted + 1
  <2> SUFFICES ASSUME NEW i \in DOMAIN ui.events PROVE ui.events[i] < emitted + 1
    OBVIOUS
  <2>1. ui.events[i] \in Nat /\ ui.events[i] <= emitted
    BY <1>0 DEF EventsOK
  <2> QED BY <1>0, <2>1
<1>8. /\ \A i, j \in DOMAIN ui.events : i < j => ui.events[i] < ui.events[j]
      /\ \A i \in DOMAIN ui.events : ui.events[i] <= emitted
  BY DEF EventsOK
<1>9. conn + 1 # 0 /\ emitted + 1 \in 1 .. emitted + 1
  BY <1>0
<1> QED BY <1>1, <1>3, <1>5, <1>6, <1>7, <1>8, <1>9 DEF EventsOK, Consecutive

LEMMA EventsReceive ==
    ASSUME ServerOK, PageOK, EventsOK, Receive
    PROVE  EventsOK'
<1> DEFINE msg == Head(down)
<1>0. /\ down \in Seq(Message) /\ emitted \in Nat /\ conn \in Nat /\ ui.events \in Seq(Nat)
      /\ Len(ui.events) <= EventCap
      /\ (~open => down = <<>>)
  BY StateFields DEF PageOK, ServerOK
<1>1. /\ down # <<>> /\ down' = Tail(down)
      /\ UNCHANGED <<emitted, conn, open>>
      /\ msg.type # "result" => ui' = Reduced(ui, msg)
      /\ msg.type = "result" => ui' = ui
  BY DEF Receive, worldVars
<1>2. msg \in Message /\ msg = down[1] /\ 1 \in DOMAIN down /\ open
  BY <1>0, <1>1, TailOf
<1>3. Consecutive(down, emitted)
  BY EventsOKParts
<1>4. Consecutive(down', emitted')
  BY <1>0, <1>1, <1>3, ConsecutiveTail
<1>5. PICK n \in 1 .. emitted + 1 :
          /\ NextIs(down, 1, n, emitted)
          /\ \A i \in DOMAIN ui.events : ui.events[i] < n
          /\ Cardinality(Gaps(ui.events)) + GapBefore(ui.events, n) < conn
  BY <1>2 DEF EventsOK
<1>6. n \in Nat /\ (conn > 0 <=> conn # 0)
  BY <1>0, <1>5
<1>7. /\ \A i, j \in DOMAIN ui.events : i < j => ui.events[i] < ui.events[j]
      /\ \A i \in DOMAIN ui.events : ui.events[i] <= emitted
      /\ conn # 0
      /\ Cardinality(Gaps(ui.events)) < conn
  BY <1>2, <1>6 DEF EventsOK
<1> HIDE DEF msg
<1>8. CASE ~IsEvent(msg)
  <2>1. ui'.events = ui.events
    BY <1>1, <1>2, <1>8, ReducedFields DEF IsEvent
  <2>2. NextIs(down, 2, n, emitted)
    BY <1>0, <1>1, <1>5, <1>6, <1>8, NextIsHead DEF msg
  <2>3. NextIs(down', 1, n, emitted')
    BY <1>0, <1>1, <1>6, <2>2, NextIsTail
  <2> QED BY <1>1, <1>4, <1>5, <1>7, <2>1, <2>3 DEF EventsOK, Consecutive
<1>9. CASE IsEvent(msg)
  <2>1. msg.n = n
    BY <1>0, <1>1, <1>5, <1>6, <1>9, NextIsHead DEF msg
  <2>2. n <= emitted /\ NextIs(down, 2, n + 1, emitted)
    <3>1. msg.n <= emitted /\ NextIs(down, 1 + 1, msg.n + 1, emitted)
      BY <1>2, <1>3, <1>9 DEF Consecutive
    <3> QED BY <2>1, <3>1
  <2>3. NextIs(down', 1, n + 1, emitted')
    BY <1>0, <1>1, <1>6, <2>2, NextIsTail
  <2>4. ui'.events = Capped(Append(ui.events, n), EventCap)
    BY <1>1, <1>2, <1>9, <2>1, ReducedFields DEF IsEvent
  <2>5. /\ ui'.events \in Seq(Nat)
        /\ \A i, j \in DOMAIN ui'.events : i < j => ui'.events[i] < ui'.events[j]
        /\ \A i \in DOMAIN ui'.events : ui'.events[i] <= n
        /\ Cardinality(Gaps(ui'.events)) + GapBefore(ui'.events, n + 1)
              <= Cardinality(Gaps(ui.events)) + GapBefore(ui.events, n)
    BY <1>0, <1>5, <1>6, <1>7, <2>4, EventShown
  <2>6. /\ Cardinality(Gaps(ui'.events)) \in Nat /\ GapBefore(ui'.events, n + 1) \in Nat
        /\ Cardinality(Gaps(ui.events)) \in Nat /\ GapBefore(ui.events, n) \in Nat
    <3>1. Cardinality(Gaps(ui.events)) \in Nat /\ Cardinality(Gaps(ui'.events)) \in Nat
      BY <1>0, <2>5, GapsFinite
    <3>2. n + 1 \in Nat
      BY <1>6
    <3>3. GapBefore(ui.events, n) \in {0, 1} /\ GapBefore(ui'.events, n + 1) \in {0, 1}
      BY <1>0, <1>6, <2>5, <3>2, GapBeforeIs
    <3> QED BY <3>1, <3>3
  <2>7. /\ Cardinality(Gaps(ui'.events)) + GapBefore(ui'.events, n + 1) < conn
        /\ Cardinality(Gaps(ui'.events)) < conn
    BY <1>0, <1>5, <2>5, <2>6
  <2>8. \A i \in DOMAIN ui'.events : ui'.events[i] <= emitted /\ ui'.events[i] < n + 1
    <3> SUFFICES ASSUME NEW i \in DOMAIN ui'.events
                 PROVE  ui'.events[i] <= emitted /\ ui'.events[i] < n + 1
      OBVIOUS
    <3>1. ui'.events[i] \in Nat /\ ui'.events[i] <= n
      BY <2>5
    <3> QED BY <1>0, <1>6, <2>2, <3>1
  <2>9. n + 1 \in 1 .. emitted + 1
    BY <1>0, <1>6, <2>2
  <2> QED BY <1>1, <1>4, <1>7, <2>3, <2>5, <2>7, <2>8, <2>9 DEF EventsOK, Consecutive
<1> QED BY <1>8, <1>9

LEMMA EventsStep ==
    ASSUME ServerOK, PageOK, CommandsOK, EventsOK, [Next]_vars
    PROVE  EventsOK'
<1>1. CASE Disconnect
  <2>1. down' = <<>> /\ open' = FALSE /\ UNCHANGED <<ui, emitted, conn>>
    BY <1>1 DEF Disconnect, worldVars
  <2> QED BY <2>1 DEF EventsOK
<1>2. CASE UNCHANGED <<down, open, ui, emitted, conn>>
  BY <1>2 DEF EventsOK
<1>3. CASE Request \/ (\E id \in pending : Timeout(id)) \/ UNCHANGED vars
  <2>1. UNCHANGED <<down, open, ui, emitted, conn>>
    BY <1>3 DEF Request, Timeout, vars, serverVars, pageVars, worldVars
  <2> QED BY <1>2, <2>1
<1> QED BY <1>1, <1>3, EventsServerStep, EventsConnect, EventsReceive DEF Next

-----------------------------------------------------------------------------
(* Spans                                                                    *)

LEMMA Least ==
    ASSUME NEW B \in SUBSET Nat, B # {}
    PROVE  \E m \in B : m = 0 \/ (m - 1 \in Nat /\ m - 1 \notin B)
<1>1. PICK m \in B : \A y \in B : ~ (<<y, m>> \in OpToRel(<, Nat))
  BY WFMin, NatLessThanWellFounded
<1>2. \A y \in B : ~ (y < m)
  BY <1>1 DEF OpToRel
<1> QED BY <1>2

LEMMA PutKeeps ==
    ASSUME NEW S, NEW a \in Seq(S), NEW s \in S, IsInjective(a)
    PROVE  /\ Put(a, s) \in Seq(S) /\ IsInjective(Put(a, s))
           /\ Range(Put(a, s)) = Range(a) \cup {s}
           /\ Len(Put(a, s)) \in Nat /\ Len(Put(a, s)) >= Len(a)
<1>1. CASE s \in Range(a)
  <2>1. Put(a, s) = a /\ Len(a) \in Nat
    BY <1>1 DEF Put
  <2> QED BY <1>1, <2>1
<1>2. CASE s \notin Range(a)
  <2>1. Put(a, s) = Append(a, s)
    BY <1>2 DEF Put
  <2> DEFINE b == Append(a, s)
  <2>2. /\ b \in Seq(S) /\ Len(b) = Len(a) + 1 /\ Len(a) \in Nat /\ DOMAIN a = 1 .. Len(a)
        /\ DOMAIN b = 1 .. (Len(a) + 1)
        /\ \A i \in 1 .. Len(a) : b[i] = a[i]
        /\ b[Len(a) + 1] = s
        /\ Range(b) = Range(a) \cup {s}
    BY AppendOf
  <2> HIDE DEF b
  <2>3. \A i \in DOMAIN a : a[i] # s
    BY <1>2 DEF Range
  <2>4. \A i \in DOMAIN b : i = Len(a) + 1 \/ (i \in DOMAIN a /\ b[i] = a[i])
    BY <2>2
  <2>5. IsInjective(b)
    BY <2>2, <2>3, <2>4 DEF IsInjective
  <2> QED BY <2>1, <2>2, <2>5 DEF b
<1> QED BY <1>1, <1>2

\* The merge step by step: f[n] is what is shown after the first n of the new spans.
Merges(f, spans, new, n) ==
    /\ f[0] = spans
    /\ \A k \in 1 .. n : f[k] = Put(f[k - 1], new[k])

LEMMA MergeExists ==
    ASSUME NEW S, NEW spans \in Seq(S), NEW new \in Seq(S), IsInjective(spans)
    PROVE  \E f \in [0 .. Len(new) -> Seq(S)] : Merges(f, spans, new, Len(new))
<1> DEFINE Good(m) == \E f \in [0 .. m -> Seq(S)] :
                         Merges(f, spans, new, m) /\ \A k \in 0 .. m : IsInjective(f[k])
           Bad == {m \in 0 .. Len(new) : ~ Good(m)}
<1>1. Len(new) \in Nat /\ DOMAIN new = 1 .. Len(new)
  OBVIOUS
<1>2. Bad = {}
  <2> SUFFICES ASSUME Bad # {} PROVE FALSE
    OBVIOUS
  <2>1. PICK m \in Bad : m = 0 \/ (m - 1 \in Nat /\ m - 1 \notin Bad)
    <3>1. Bad \in SUBSET Nat
      BY <1>1
    <3> HIDE DEF Bad
    <3> QED BY <3>1, Least
  <2>2. CASE m = 0
    <3> DEFINE f == [k \in 0 .. 0 |-> spans]
    <3>1. f \in [0 .. 0 -> Seq(S)] /\ Merges(f, spans, new, 0)
      BY DEF Merges
    <3>2. \A k \in 0 .. 0 : f[k] = spans
      OBVIOUS
    <3>3. \A k \in 0 .. 0 : IsInjective(f[k])
      BY <3>2
    <3> HIDE DEF f
    <3>4. Good(0)
      BY <3>1, <3>3
    <3> QED BY <2>2, <3>4
  <2>3. CASE m - 1 \in Nat /\ m - 1 \notin Bad
    <3>1. m \in 1 .. Len(new) /\ m - 1 \in 0 .. Len(new) /\ m \in Nat
      BY <1>1, <2>3
    <3>2. Good(m - 1)
      BY <2>3, <3>1
    <3>3. PICK f \in [0 .. m - 1 -> Seq(S)] :
             Merges(f, spans, new, m - 1) /\ \A k \in 0 .. m - 1 : IsInjective(f[k])
      BY <3>2
    <3> HIDE DEF Bad
    <3> DEFINE x == Put(f[m - 1], new[m])
    <3>4. m - 1 \in 0 .. m - 1 /\ new[m] \in S
      BY <1>1, <3>1
    <3>5. x \in Seq(S) /\ IsInjective(x)
      BY <3>3, <3>4, PutKeeps
    <3> DEFINE g == [k \in 0 .. m |-> IF k = m THEN x ELSE f[k]]
    <3>6. \A k \in 0 .. m : k = m \/ (k \in 0 .. m - 1 /\ k # m)
      BY <3>1
    <3>7. g \in [0 .. m -> Seq(S)]
      BY <3>1, <3>3, <3>5, <3>6
    <3>8. g[m] = x /\ \A k \in 0 .. m - 1 : g[k] = f[k]
      BY <3>1
    <3>9. Merges(g, spans, new, m)
      <4>1. g[0] = spans
        BY <3>1, <3>3, <3>8 DEF Merges
      <4>2. ASSUME NEW k \in 1 .. m PROVE g[k] = Put(g[k - 1], new[k])
        <5>1. CASE k = m
          BY <3>4, <3>8, <5>1
        <5>2. CASE k # m
          <6>1. k \in 1 .. m - 1 /\ k \in 0 .. m - 1 /\ k - 1 \in 0 .. m - 1
            BY <3>1, <5>2
          <6>2. f[k] = Put(f[k - 1], new[k])
            BY <3>3, <6>1 DEF Merges
          <6> QED BY <3>8, <6>1, <6>2
        <5> QED BY <5>1, <5>2
      <4> QED BY <4>1, <4>2 DEF Merges
    <3>10. \A k \in 0 .. m : IsInjective(g[k])
      BY <3>3, <3>5, <3>6, <3>8
    <3> HIDE DEF g
    <3>11. Good(m)
      BY <3>7, <3>9, <3>10
    <3> QED BY <3>11 DEF Bad
  <2> QED BY <2>1, <2>2, <2>3
<1>3. Len(new) \in 0 .. Len(new)
  BY <1>1
<1>4. Good(Len(new))
  BY <1>2, <1>3
<1> QED BY <1>4

\* Every way of merging shows what was shown and what is new, and nothing twice.
LEMMA MergeKeeps ==
    ASSUME NEW S, NEW spans \in Seq(S), NEW new \in Seq(S), IsInjective(spans), NEW f,
           Merges(f, spans, new, Len(new))
    PROVE  /\ f[Len(new)] \in Seq(S) /\ IsInjective(f[Len(new)])
           /\ Range(f[Len(new)]) = Range(spans) \cup Range(new)
           /\ Len(f[Len(new)]) >= Len(spans)
<1> DEFINE Good(m) == /\ f[m] \in Seq(S) /\ IsInjective(f[m])
                      /\ Range(f[m]) = Range(spans) \cup {new[i] : i \in 1 .. m}
                      /\ Len(f[m]) >= Len(spans)
           Bad == {m \in 0 .. Len(new) : ~ Good(m)}
<1>1. Len(new) \in Nat /\ DOMAIN new = 1 .. Len(new) /\ Len(spans) \in Nat
  OBVIOUS
<1>2. Bad = {}
  <2> SUFFICES ASSUME Bad # {} PROVE FALSE
    OBVIOUS
  <2>1. PICK m \in Bad : m = 0 \/ (m - 1 \in Nat /\ m - 1 \notin Bad)
    <3>1. Bad \in SUBSET Nat
      BY <1>1
    <3> HIDE DEF Bad
    <3> QED BY <3>1, Least
  <2>2. CASE m = 0
    <3>1. f[0] = spans
      BY DEF Merges
    <3>2. {new[i] : i \in 1 .. 0} = {}
      OBVIOUS
    <3>3. Good(0)
      BY <1>1, <3>1, <3>2
    <3> QED BY <2>2, <3>3
  <2>3. CASE m - 1 \in Nat /\ m - 1 \notin Bad
    <3>1. m \in 1 .. Len(new) /\ m - 1 \in 0 .. Len(new) /\ m \in Nat
      BY <1>1, <2>3
    <3>2. Good(m - 1)
      BY <2>3, <3>1
    <3>3. f[m] = Put(f[m - 1], new[m]) /\ new[m] \in S
      BY <1>1, <3>1 DEF Merges
    <3>4. /\ f[m] \in Seq(S) /\ IsInjective(f[m])
          /\ Range(f[m]) = Range(f[m - 1]) \cup {new[m]}
          /\ Len(f[m]) \in Nat /\ Len(f[m]) >= Len(f[m - 1])
      <4> DEFINE a == f[m - 1]
                 b == f[m]
                 s == new[m]
      <4>1. a \in Seq(S) /\ IsInjective(a) /\ s \in S /\ b = Put(a, s)
        BY <3>2, <3>3
      <4> HIDE DEF a, b, s
      <4>2. /\ b \in Seq(S) /\ IsInjective(b) /\ Range(b) = Range(a) \cup {s}
            /\ Len(b) \in Nat /\ Len(b) >= Len(a)
        BY <4>1, PutKeeps
      <4> QED BY <4>2 DEF a, b, s
    <3>5. {new[i] : i \in 1 .. m} = {new[i] : i \in 1 .. m - 1} \cup {new[m]}
      <4>1. 1 .. m = (1 .. m - 1) \cup {m}
        BY <3>1
      <4> QED BY <4>1
    <3>6. Range(f[m]) = Range(spans) \cup {new[i] : i \in 1 .. m}
      BY <3>2, <3>4, <3>5
    <3>7. Len(f[m]) >= Len(spans)
      <4>1. Len(f[m - 1]) \in Nat /\ Len(f[m - 1]) >= Len(spans)
        BY <3>2
      <4> QED BY <1>1, <3>4, <4>1
    <3>8. Good(m)
      BY <3>4, <3>6, <3>7
    <3> QED BY <3>8
  <2> QED BY <2>1, <2>2, <2>3
<1>3. Len(new) \in 0 .. Len(new)
  BY <1>1
<1>4. Good(Len(new))
  BY <1>2, <1>3
<1>5. {new[i] : i \in 1 .. Len(new)} = Range(new)
  BY <1>1 DEF Range
<1> QED BY <1>4, <1>5

LEMMA MergedIs ==
    ASSUME NEW S, NEW spans \in Seq(S), NEW new \in Seq(S), IsInjective(spans)
    PROVE  /\ Merged(spans, new) \in Seq(S) /\ IsInjective(Merged(spans, new))
           /\ Range(Merged(spans, new)) = Range(spans) \cup Range(new)
           /\ Len(Merged(spans, new)) >= Len(spans)
<1> DEFINE n == Len(new)
           Body(f) == [k \in 0 .. n |-> IF k = 0 THEN spans ELSE Put(f[k - 1], new[k])]
           after == CHOOSE f : f = Body(f)
<1>1. n \in Nat
  OBVIOUS
<1>2. Merged(spans, new) = after[n]
  BY DEF Merged
<1>3. \E f : f = Body(f)
  <2>1. PICK f \in [0 .. n -> Seq(S)] : Merges(f, spans, new, n)
    BY MergeExists
  <2>2. ASSUME NEW k \in 0 .. n
        PROVE  f[k] = IF k = 0 THEN spans ELSE Put(f[k - 1], new[k])
    <3>1. CASE k = 0
      BY <2>1, <3>1 DEF Merges
    <3>2. CASE k # 0
      <4>1. k \in 1 .. n
        BY <1>1, <3>2
      <4> QED BY <2>1, <3>2, <4>1 DEF Merges
    <3> QED BY <3>1, <3>2
  <2>3. f = [k \in 0 .. n |-> f[k]]
    OBVIOUS
  <2>4. f = Body(f)
    BY <2>2, <2>3
  <2> QED BY <2>4
<1>4. after = Body(after)
  BY <1>3
<1> HIDE DEF after, n
<1>5. Merges(after, spans, new, n)
  <2>1. \A k \in 0 .. n : Body(after)[k] = IF k = 0 THEN spans ELSE Put(after[k - 1], new[k])
    OBVIOUS
  <2>2. \A k \in 0 .. n : after[k] = IF k = 0 THEN spans ELSE Put(after[k - 1], new[k])
    BY <1>4, <2>1
  <2>3. 0 \in 0 .. n /\ \A k \in 1 .. n : k \in 0 .. n /\ k # 0
    BY <1>1
  <2> QED BY <2>2, <2>3 DEF Merges
<1> QED BY <1>2, <1>5, MergeKeeps DEF n

LEMMA CappedSpans ==
    ASSUME NEW S, NEW a \in Seq(S), NEW cap \in Nat, IsInjective(a)
    PROVE  LET new == Capped(a, cap) IN
           /\ new \in Seq(S) /\ IsInjective(new) /\ Len(new) \in Nat /\ Len(new) <= cap
           /\ Len(new) < cap => new = a
<1>1. Len(a) \in Nat /\ DOMAIN a = 1 .. Len(a)
  OBVIOUS
<1>2. CASE Len(a) <= cap
  <2>1. Capped(a, cap) = a
    BY <1>1, <1>2 DEF Capped
  <2> QED BY <1>1, <1>2, <2>1
<1>3. CASE Len(a) > cap
  <2> DEFINE b == SubSeq(a, Len(a) - cap + 1, Len(a))
  <2>1. Capped(a, cap) = b
    BY <1>3 DEF Capped
  <2>2. /\ b \in Seq(S) /\ Len(b) = cap /\ DOMAIN b = 1 .. cap
        /\ \A i \in 1 .. cap : b[i] = a[Len(a) - cap + i] /\ Len(a) - cap + i \in 1 .. Len(a)
    BY <1>1, <1>3
  <2> HIDE DEF b
  <2>3. IsInjective(b)
    <3> SUFFICES ASSUME NEW i \in DOMAIN b, NEW j \in DOMAIN b, b[i] = b[j] PROVE i = j
      BY DEF IsInjective
    <3>1. Len(a) - cap + i = Len(a) - cap + j
      BY <1>1, <2>2 DEF IsInjective
    <3> QED BY <1>1, <2>2, <3>1
  <2> QED BY <2>1, <2>2, <2>3
<1> QED BY <1>1, <1>2, <1>3

\* The page shows no span twice, and as long as it has dropped none, what the
\* server's buffer holds is shown or under way.
UnderWay(d, s) == \E i \in DOMAIN d : d[i].type = "spans" /\ s \in Range(d[i].spans)

SpansOK ==
    /\ ui.spans \in Seq(Span) /\ IsInjective(ui.spans) /\ Len(ui.spans) <= SpanCap
    /\ open /\ Len(ui.spans) < SpanCap =>
          \A s \in Range(spanBuffer) : s \in Range(ui.spans) \/ UnderWay(down, s)

LEMMA UnderWayCat ==
    ASSUME NEW d \in Seq(Message), NEW msgs \in Seq(Message), NEW s,
           UnderWay(d, s) \/ UnderWay(msgs, s)
    PROVE  UnderWay(d \o msgs, s)
<1>1. /\ DOMAIN d = 1 .. Len(d) /\ Len(d) \in Nat /\ DOMAIN msgs = 1 .. Len(msgs)
      /\ Len(msgs) \in Nat /\ DOMAIN (d \o msgs) = 1 .. (Len(d) + Len(msgs))
      /\ \A k \in DOMAIN d : (d \o msgs)[k] = d[k]
      /\ \A k \in DOMAIN msgs : (d \o msgs)[Len(d) + k] = msgs[k]
  BY Cat
<1>2. /\ \A k \in DOMAIN d : k \in DOMAIN (d \o msgs)
      /\ \A k \in DOMAIN msgs : Len(d) + k \in DOMAIN (d \o msgs)
  BY <1>1
<1> QED BY <1>1, <1>2 DEF UnderWay

LEMMA TrimmedIn ==
    ASSUME NEW s \in Span, spanBuffer \in Seq(Span)
    PROVE  Range(Trimmed(Append(spanBuffer, s))) \subseteq Range(spanBuffer) \cup {s}
<1> DEFINE a == Append(spanBuffer, s)
<1>1. a \in Seq(Span) /\ Range(a) = Range(spanBuffer) \cup {s} /\ Len(a) \in Nat /\ DOMAIN a = 1 .. Len(a)
  BY AppendOf
<1> HIDE DEF a
<1>2. SpanBuffer \in Nat
  BY BoundsAreNumbers
<1>3. CASE Len(a) > SpanBuffer
  <2> DEFINE b == SubSeq(a, Len(a) - SpanBuffer + 1, Len(a))
  <2>1. Trimmed(a) = b
    BY <1>3 DEF Trimmed
  <2>2. /\ DOMAIN b = 1 .. SpanBuffer
        /\ \A i \in 1 .. SpanBuffer : /\ b[i] = a[Len(a) - SpanBuffer + i]
                                      /\ Len(a) - SpanBuffer + i \in 1 .. Len(a)
    BY <1>1, <1>2, <1>3
  <2> HIDE DEF b
  <2>3. Range(b) \subseteq Range(a)
    BY <1>1, <2>2 DEF Range
  <2> QED BY <1>1, <2>1, <2>3 DEF a
<1>4. CASE ~(Len(a) > SpanBuffer)
  <2>1. Trimmed(a) = a
    BY <1>4 DEF Trimmed
  <2> QED BY <1>1, <2>1 DEF a
<1> QED BY <1>3, <1>4

LEMMA SpansServerStep ==
    ASSUME ServerOK, PageOK, CommandsOK, SpansOK, ServerNext, UNCHANGED pageVars
    PROVE  SpansOK'
<1>1. PICK msgs : Tells(msgs)
  BY ServerTells
<1>2. open' = open /\ ui' = ui
  BY ServerFrame DEF pageVars
<1>3. msgs \in Seq(Message) /\ down \in Seq(Message) /\ down' = IF open THEN down \o msgs ELSE down
  BY <1>1 DEF Tells, PageOK
<1>4. CASE spanBuffer' = spanBuffer
  <2>1. ASSUME open, NEW s, UnderWay(down, s) PROVE UnderWay(down', s)
    BY <1>3, <2>1, UnderWayCat
  <2> QED BY <1>2, <1>4, <2>1 DEF SpansOK
<1>5. CASE Export
  <2>1. PICK s \in Span : /\ spanBuffer' = Trimmed(Append(spanBuffer, s))
                          /\ Broadcast(<<Spans(<<s>>)>>)
    BY <1>5 DEF Export
  <2> DEFINE new == <<Spans(<<s>>)>>
  <2>2. Range(spanBuffer') \subseteq Range(spanBuffer) \cup {s}
    BY <2>1, TrimmedIn DEF ServerOK
  <2>3. <<s>> \in Seq(Span) /\ s \in Range(<<s>>)
    <3>1. DOMAIN <<s>> = {1} /\ <<s>>[1] = s /\ <<s>> \in Seq(Span)
      BY Tuples
    <3> QED BY <3>1 DEF Range
  <2>4. Spans(<<s>>) \in Message /\ Spans(<<s>>).type = "spans" /\ Spans(<<s>>).spans = <<s>>
    BY <2>3, SpansIsMessage DEF Spans
  <2>5. new \in Seq(Message) /\ 1 \in DOMAIN new /\ new[1] = Spans(<<s>>)
    BY <2>4, Tuples
  <2>6. UnderWay(new, s)
    BY <2>3, <2>4, <2>5 DEF UnderWay
  <2>7. open => down' = down \o new
    BY <2>1 DEF Broadcast
  <2> HIDE DEF new
  <2>8. ASSUME open, NEW t, UnderWay(down, t) \/ t = s PROVE UnderWay(down', t)
    BY <1>3, <2>5, <2>6, <2>7, <2>8, UnderWayCat
  <2> QED BY <1>2, <2>2, <2>8 DEF SpansOK
<1>6. spanBuffer' = spanBuffer \/ Export
  BY DEF ServerNext, ProgramWrites, ProgramRuns, Step, EndRun, Flush, RefreshLands, HandleCommand,
         LoadStepLands, spanVars
<1> QED BY <1>4, <1>5, <1>6

LEMMA SpansConnect ==
    ASSUME ServerOK, SpansOK, Connect
    PROVE  SpansOK'
<1>1. down' = Greeting /\ UNCHANGED <<ui, spanBuffer>>
  BY DEF Connect, spanVars
<1>2. CASE spanBuffer = <<>>
  <2>1. Range(spanBuffer) = {}
    BY <1>2 DEF Range
  <2> QED BY <1>1, <2>1 DEF SpansOK
<1>3. CASE spanBuffer # <<>>
  <2> DEFINE head == <<WorldMessage(world, shown), TraceMessage(world)>>
             tail == <<Spans(spanBuffer)>>
  <2>1. Greeting = head \o tail
    BY <1>3 DEF Greeting
  <2>2. Spans(spanBuffer) \in Message /\ Spans(spanBuffer).type = "spans"
        /\ Spans(spanBuffer).spans = spanBuffer
    BY SpansIsMessage DEF ServerOK, Spans
  <2>3. WorldMessage(world, shown) \in Message /\ TraceMessage(world) \in Message
    BY WorldIsMessage, TraceIsMessage, StateFields
  <2>4. head \in Seq(Message) /\ tail \in Seq(Message) /\ 1 \in DOMAIN tail /\ tail[1] = Spans(spanBuffer)
    BY <2>2, <2>3, Tuples
  <2> HIDE DEF head, tail
  <2>5. ASSUME NEW s \in Range(spanBuffer) PROVE UnderWay(down', s)
    <3>1. UnderWay(tail, s)
      BY <2>2, <2>4 DEF UnderWay
    <3> QED BY <1>1, <2>1, <2>4, <3>1, UnderWayCat
  <2> QED BY <1>1, <2>5 DEF SpansOK
<1> QED BY <1>2, <1>3

LEMMA SpansReceive ==
    ASSUME ServerOK, PageOK, SpansOK, Receive
    PROVE  SpansOK'
<1> DEFINE msg == Head(down)
<1>1. /\ down # <<>> /\ down' = Tail(down) /\ down \in Seq(Message)
      /\ UNCHANGED <<open, spanBuffer>>
      /\ msg.type # "result" => ui' = Reduced(ui, msg)
      /\ msg.type = "result" => ui' = ui
  BY DEF Receive, spanVars, PageOK
<1>2. /\ msg \in Message /\ msg = down[1]
      /\ \A i \in DOMAIN down' : down'[i] = down[i + 1] /\ i + 1 \in DOMAIN down
      /\ \A i \in DOMAIN down : i = 1 \/ (i - 1 \in DOMAIN down' /\ down'[i - 1] = down[i])
  <2>1. /\ Head(down) = down[1] /\ Head(down) \in Message
        /\ Len(down) \in Nat \ {0} /\ DOMAIN down = 1 .. Len(down)
        /\ DOMAIN down' = 1 .. (Len(down) - 1)
        /\ \A i \in DOMAIN down' : down'[i] = down[i + 1] /\ i + 1 \in DOMAIN down
    BY <1>1, TailOf
  <2>2. ASSUME NEW i \in DOMAIN down, i # 1
        PROVE  i - 1 \in DOMAIN down' /\ down'[i - 1] = down[i]
    <3>1. i - 1 \in DOMAIN down' /\ (i - 1) + 1 = i
      BY <2>1, <2>2
    <3> QED BY <2>1, <3>1
  <2> QED BY <2>1, <2>2
<1>3. \A s : UnderWay(down, s) =>
          UnderWay(down', s) \/ (msg.type = "spans" /\ s \in Range(msg.spans))
  BY <1>2 DEF UnderWay
<1> HIDE DEF msg
<1>4. CASE msg.type # "spans"
  <2>1. ui'.spans = ui.spans
    BY <1>1, <1>2, <1>4, ReducedFields
  <2> QED BY <1>1, <1>3, <1>4, <2>1 DEF SpansOK
<1>5. CASE msg.type = "spans"
  <2> DEFINE m == Merged(ui.spans, msg.spans)
  <2>1. ui'.spans = Capped(m, SpanCap)
    BY <1>1, <1>2, <1>5, ReducedFields
  <2>2. ui.spans \in Seq(Span) /\ IsInjective(ui.spans) /\ msg.spans \in Seq(Span) /\ SpanCap \in Nat
    BY <1>2, <1>5, MessageFields, BoundsAreNumbers DEF SpansOK
  <2>3. /\ m \in Seq(Span) /\ IsInjective(m)
        /\ Range(m) = Range(ui.spans) \cup Range(msg.spans)
        /\ Len(m) >= Len(ui.spans)
    BY <2>2, MergedIs
  <2> HIDE DEF m
  <2>4. /\ ui'.spans \in Seq(Span) /\ IsInjective(ui'.spans) /\ Len(ui'.spans) <= SpanCap
        /\ Len(ui'.spans) < SpanCap => ui'.spans = m
    BY <2>1, <2>2, <2>3, CappedSpans
  <2>5. ASSUME open, Len(ui'.spans) < SpanCap, NEW s \in Range(spanBuffer)
        PROVE  s \in Range(ui'.spans) \/ UnderWay(down', s)
    <3>1. ui'.spans = m
      BY <2>4, <2>5
    <3>2. Len(ui.spans) < SpanCap
      <4>1. Len(ui.spans) \in Nat /\ Len(m) \in Nat
        BY <2>2, <2>3
      <4> QED BY <2>2, <2>3, <2>5, <3>1, <4>1
    <3>3. s \in Range(ui.spans) \/ UnderWay(down, s)
      BY <2>5, <3>2 DEF SpansOK
    <3> QED BY <1>3, <2>3, <3>1, <3>3
  <2> QED BY <1>1, <2>4, <2>5 DEF SpansOK
<1> QED BY <1>4, <1>5

LEMMA SpansStep ==
    ASSUME ServerOK, PageOK, CommandsOK, SpansOK, [Next]_vars
    PROVE  SpansOK'
<1>1. CASE Disconnect
  <2>1. open' = FALSE /\ ui' = ui
    BY <1>1 DEF Disconnect
  <2> QED BY <2>1 DEF SpansOK
<1>2. CASE Request \/ (\E id \in pending : Timeout(id)) \/ UNCHANGED vars
  <2>1. UNCHANGED <<down, open, ui, spanBuffer>>
    BY <1>2 DEF Request, Timeout, vars, serverVars, pageVars, spanVars
  <2> QED BY <2>1 DEF SpansOK, UnderWay
<1> QED BY <1>1, <1>2, SpansServerStep, SpansConnect, SpansReceive DEF Next

-----------------------------------------------------------------------------
(* The inductive invariant and what follows from it                         *)

IInv ==
    ServerOK /\ PageOK /\ ViewOK /\ TraceOK /\ EventsOK /\ SpansOK /\ CommandsOK /\ ResultsOK

LEMMA InitIInv == Init => IInv
<1> SUFFICES ASSUME Init PROVE IInv
  OBVIOUS
<1>1. /\ MaxContent \in Nat /\ MaxRuns \in Nat /\ MaxExports \in Nat /\ SpanBuffer \in Nat
      /\ EventCap \in Nat /\ SpanCap \in Nat
  BY BoundsAreNumbers
<1>2. /\ world = [content |-> 0, step |-> 0, running |-> FALSE, trace |-> <<>>]
      /\ runs = 0 /\ saved = <<>> /\ conn = 0 /\ open = FALSE /\ down = <<>> /\ up = <<>>
      /\ flush = FALSE /\ shown = {} /\ refreshes = {} /\ loading = {}
      /\ spanBuffer = <<>> /\ exports = 0 /\ emitted = 0 /\ effects = <<>>
      /\ untold = [world |-> FALSE, trace |-> 0]
      /\ status = "closed" /\ pending = {} /\ nextId = 0 /\ outcome = <<>>
      /\ ui = [world |-> NoWorld, trace |-> <<>>, events |-> <<>>, spans |-> <<>>]
  BY DEF Init, ServerInit, AllTold
<1>3. ServerOK
  <2>1. <<>> \in BoundedSeq(1 .. MaxContent, MaxContent)
    <3>1. <<>> \in Seq(1 .. MaxContent) /\ Len(<<>>) = 0
      OBVIOUS
    <3>2. Len(<<>>) <= MaxContent
      BY <1>1, <3>1
    <3> QED BY <1>1, <3>1, <3>2, Bounded
  <2>2. WorldOK
    <3>1. world.content = 0 /\ world.step = 0 /\ world.trace = <<>> /\ Len(world.trace) = 0
      BY <1>2
    <3>2. world \in [content : 0 .. MaxContent, step : 0 .. MaxContent, running : BOOLEAN,
                     trace : BoundedSeq(1 .. MaxContent, MaxContent)]
      BY <1>1, <1>2, <2>1
    <3>3. runs \in 0 .. MaxRuns /\ flush \in BOOLEAN /\ emitted \in Nat
      <4>1. runs = 0 /\ emitted = 0
        BY <1>2
      <4>2. runs \in 0 .. MaxRuns /\ emitted \in Nat
        BY <1>1, <4>1
      <4>3. flush \in BOOLEAN
        BY <1>2, Zenon
      <4> QED BY <4>2, <4>3
    <3>4. world.step <= world.content /\ Len(world.trace) <= world.content
      BY <3>1
    <3>5. untold \in [world : BOOLEAN, trace : 0 .. Len(world.trace)]
      <4>1. 0 \in 0 .. Len(world.trace)
        BY <3>1
      <4> QED BY <1>2, <4>1
    <3> QED BY <3>2, <3>3, <3>4, <3>5 DEF WorldOK
  <2>3. HistoryOK
    BY <1>2 DEF HistoryOK, Range
  <2>4. RestOK
    <3>1. DOMAIN spanBuffer = {} /\ Len(spanBuffer) = 0 /\ spanBuffer \in Seq(Span)
          /\ up \in Seq(Commands)
      BY <1>2
    <3>2. Range(spanBuffer) \subseteq Span /\ Len(spanBuffer) <= SpanBuffer
      BY <1>1, <3>1 DEF Range
    <3>3. exports \in 0 .. MaxExports /\ open \in BOOLEAN /\ conn \in Nat /\ loading \subseteq Commands
      <4>1. exports = 0 /\ conn = 0 /\ loading = {}
        BY <1>2
      <4>2. exports \in 0 .. MaxExports /\ conn \in Nat /\ loading \subseteq Commands
        BY <1>1, <4>1
      <4>3. open \in BOOLEAN
        BY <1>2, Zenon
      <4> QED BY <4>2, <4>3
    <3> QED BY <3>1, <3>2, <3>3 DEF RestOK
  <2> QED BY <2>2, <2>3, <2>4, ServerParts
<1>4. PageOK
  <2>1. /\ ui = [world |-> ui.world, trace |-> ui.trace, events |-> ui.events, spans |-> ui.spans]
        /\ ui.events = <<>>
    BY <1>2
  <2>2. ui.events \in Seq(Nat) /\ Len(ui.events) <= EventCap
    BY <1>1, <2>1
  <2>3. outcome \in [1 .. nextId -> {"none", "ok", "error"}] /\ pending \subseteq 1 .. nextId
    BY <1>2
  <2>4. /\ status \in {"open", "closed"} /\ open = (status = "open")
        /\ down \in Seq(Message) /\ (~open => down = <<>>) /\ nextId \in Nat
    <3>1. status = "closed" /\ ~open /\ down = <<>> /\ nextId = 0
      BY <1>2
    <3>2. open = (status = "open")
      BY <1>2, Zenon
    <3>3. down \in Seq(Message) /\ nextId \in Nat
      BY <3>1
    <3> QED BY <3>1, <3>2, <3>3
  <2> QED BY <2>1, <2>2, <2>3, <2>4 DEF PageOK
<1>5. ViewOK /\ TraceOK
  BY <1>2 DEF ViewOK, TraceOK
<1>6. EventsOK
  BY <1>2 DEF EventsOK
<1>7. CommandsOK /\ ResultsOK
  BY <1>2 DEF CommandsOK, ResultsOK
<1>8. SpansOK
  <2>1. ui.spans = <<>> /\ ~open
    BY <1>2
  <2>2. /\ ui.spans \in Seq(Span) /\ DOMAIN ui.spans = {} /\ Len(ui.spans) = 0
    BY <2>1
  <2> QED BY <1>1, <2>1, <2>2 DEF SpansOK, IsInjective
<1> QED BY <1>3, <1>4, <1>5, <1>6, <1>7, <1>8 DEF IInv

LEMMA NextIInv == IInv /\ [Next]_vars => IInv'
BY ServerOKStep, PageOKStep, ViewStep, EventsStep, SpansStep, CommandsStep, ResultsStep DEF IInv

LEMMA Inductive == Spec => []IInv
BY InitIInv, NextIInv, PTL DEF Spec

\* The server's and the page's variables keep their types, for every size of the
\* caps: the lists of the page never outgrow theirs, and a request the page waits
\* for is one it made.
THEOREM PageTyped == Spec => []TypeOK
<1>1. IInv => TypeOK
  BY DEF IInv, ServerOK, PageOK, TypeOK
<1> QED BY <1>1, Inductive, PTL

LEMMA ViewOfIInv == IInv => ViewIsCurrent
<1> SUFFICES ASSUME IInv, Quiet, ~untold.world PROVE ui.world = WorldMessage(world, shown)
  BY DEF ViewIsCurrent
<1>1. NewestIs(down, WorldMessage(world, shown), ui.world = WorldMessage(world, shown))
  BY DEF IInv, PageOK, ViewOK, Quiet
<1> QED BY <1>1 DEF NewestIs, Quiet

\* Once everything sent has arrived the page shows the committed world, whatever
\* the mutations, runs, loads, history reads and reconnects before: an update that
\* is sent before a change is always followed by one sent after it.  Only what a load
\* or a spawn changed before it threw half-way waits for the next time the server
\* tells a world, for any reason.
THEOREM ViewStaysCurrent == Spec => []ViewIsCurrent
BY ViewOfIInv, Inductive, PTL

LEMMA TraceOfIInv == IInv => TraceIsCurrentOrEmptied
<1> SUFFICES ASSUME IInv, Quiet PROVE ui.trace = Told \/ Told = <<>>
  BY DEF TraceIsCurrentOrEmptied
<1>1. open /\ down = <<>>
  BY DEF IInv, PageOK, Quiet
<1> QED BY <1>1 DEF IInv, TraceOK, NewestIs

\* The recorder the page shows is the world's, but for the entries of runs that ended
\* with every candidate vetoed, which wait for the next step or connection, and for a
\* recorder that a load has emptied.
THEOREM TraceStaysCurrent == Spec => []TraceIsCurrentOrEmptied
BY TraceOfIInv, Inductive, PTL

LEMMA EventsOfIInv == IInv => EventsInOrder
<1> SUFFICES ASSUME IInv PROVE EventsInOrder
  OBVIOUS
<1>0. emitted \in Nat /\ conn \in Nat /\ ui.events \in Seq(Nat)
  BY DEF IInv, ServerOK, PageOK
<1>1. Cardinality(Gaps(ui.events)) < conn \/ conn = 0
  <2>1. conn > 0 \/ conn = 0
    BY <1>0
  <2> QED BY <2>1 DEF IInv, EventsOK
<1>2. ASSUME Quiet, conn = 1, ui.events # <<>>
      PROVE  Last(ui.events) = emitted
  <2>1. open /\ down = <<>>
    BY <1>2 DEF IInv, PageOK, Quiet
  <2>2. PICK n \in 1 .. emitted + 1 :
          /\ NextIs(down, 1, n, emitted)
          /\ Cardinality(Gaps(ui.events)) + GapBefore(ui.events, n) < conn
    BY <2>1 DEF IInv, EventsOK
  <2>3. n = emitted + 1
    BY <2>1, <2>2 DEF NextIs
  <2>4. Cardinality(Gaps(ui.events)) \in Nat
    BY <1>0, GapsFinite
  <2>5. GapBefore(ui.events, n) # 1
    BY <1>2, <2>2, <2>4
  <2>6. Last(ui.events) + 1 = emitted + 1
    BY <1>2, <2>3, <2>5 DEF GapBefore
  <2>7. Last(ui.events) \in Nat
    BY <1>0, <1>2 DEF Last
  <2> QED BY <1>0, <2>6, <2>7
<1>3. \A i, j \in DOMAIN ui.events : i < j => ui.events[i] < ui.events[j]
  BY DEF IInv, EventsOK
<1> QED BY <1>1, <1>2, <1>3 DEF EventsInOrder, Gaps

\* Run events are shown in the order they were emitted and never twice, past any
\* cap; there are fewer gaps than sockets, and a page on its first socket ends
\* with the newest event.
THEOREM EventsStayInOrder == Spec => []EventsInOrder
BY EventsOfIInv, Inductive, PTL

\* No span is shown twice although buffers are replayed and exports retried, for
\* every size of buffer and cap, and as long as the page has dropped none, what the
\* server's buffer holds is shown once it has arrived.
THEOREM SpansAreShownOnce == Spec => []SpansShownOnce
<1>1. ASSUME IInv PROVE SpansShownOnce
  <2>1. ASSUME status = "open", down = <<>>, Len(ui.spans) < SpanCap
        PROVE  Range(spanBuffer) \subseteq Range(ui.spans)
    <3>1. open
      BY <1>1, <2>1 DEF IInv, PageOK
    <3>2. \A s : ~ UnderWay(down, s)
      BY <2>1 DEF UnderWay
    <3> QED BY <1>1, <2>1, <3>1, <3>2 DEF IInv, SpansOK
  <2> QED BY <1>1, <2>1 DEF IInv, SpansOK, SpansShownOnce
<1> QED BY <1>1, Inductive, PTL

\* What the page shows is what the server told, and but for those exceptions what
\* there is: world, recorder and events.
THEOREM PageIsSafe == Spec => []PageSafety
<1>1. IInv => TypeOK
  BY DEF IInv, ServerOK, PageOK, TypeOK
<1>2. IInv => PageSafety
  BY <1>1, ViewOfIInv, TraceOfIInv, EventsOfIInv DEF PageSafety
<1> QED BY <1>2, Inductive, PTL

\* A command takes effect at most once, a request reported as done did take
\* effect, and nobody waits on a closed socket: however timeouts, late results and
\* reconnects interleave.
THEOREM RequestsAreSettled == Spec => []RequestsSettle
<1>1. IInv => RequestsSettle
  BY DEF IInv, RequestsSettle, AcksAreTrue, NoRequestStranded, CommandsOK, ResultsOK, PageOK
<1> QED BY <1>1, Inductive, PTL

===================================================================================
