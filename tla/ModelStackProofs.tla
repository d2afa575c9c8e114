--------------------------- MODULE ModelStackProofs ---------------------------
(***************************************************************************)
(* Proofs about ModelStack and the Recording it ends in, for every set of  *)
(* callers and prompts, retry and cache limit, script and window.          *)
(***************************************************************************)
EXTENDS ModelStack, FiniteSetTheorems, TLAPS

(***************************************************************************)
(* Least elements.                                                         *)
(***************************************************************************)
LEMMA LeastOf ==
    ASSUME NEW B \in SUBSET Nat, B # {}
    PROVE  \E m \in B : \A y \in B : m <= y
<1>1. PICK m \in B : \A y \in B : ~(<<y, m>> \in OpToRel(<, Nat))
  BY WFMin, NatLessThanWellFounded
<1>2. \A y \in B : ~(y < m)
  BY <1>1 DEF OpToRel
<1> QED
  BY <1>2

LEMMA MinOf ==
    ASSUME NEW B \in SUBSET Nat, B # {}
    PROVE  Min(B) \in B
BY LeastOf DEF Min

LEMMA MaxOf ==
    ASSUME NEW B \in SUBSET Nat, NEW k \in B, \A y \in B : y <= k
    PROVE  Max(B) = k
<1>1. \A y \in B : k >= y
  OBVIOUS
<1>2. Max(B) \in B /\ \A y \in B : Max(B) >= y
  BY <1>1 DEF Max
<1>3. Max(B) \in Nat /\ k \in Nat /\ Max(B) <= k /\ k <= Max(B)
  BY <1>2
<1> QED
  BY <1>3

\* The earliest of some entries is one of them, and no other is as early.
LEMMA EarliestOf ==
    ASSUME NEW E, E # {}, \A e \in E : e.at \in Nat
    PROVE  Earliest(E) \in E /\ \A e \in E : Earliest(E).at <= e.at
<1> DEFINE B == {e.at : e \in E}
<1>1. B \in SUBSET Nat /\ B # {}
  OBVIOUS
<1>2. \E m \in B : \A y \in B : m <= y
  <2> HIDE DEF B
  <2> QED
    BY <1>1, LeastOf
<1>3. \E e \in E : \A g \in E : e.at <= g.at
  BY <1>2
<1> QED
  BY <1>3 DEF Earliest

(***************************************************************************)
(* A call's frames.  Each line is what a later layer takes for granted of  *)
(* the layers below it: how many models may have been asked, that chunks   *)
(* are of the last of them, that a cancellation is the caller's, that the  *)
(* deadline's controller follows it, and that the fallback was tried.      *)
(***************************************************************************)
Below(f) == f.pc \in {"asleep", "backoff"}
            \/ (f.pc = "up" /\ f.layer \in {"fallback", "retry", "timeout"})

FrameInv(c) ==
    /\ call[c].pc = "idle" => call[c] = Idle
    /\ call[c].pc = "idle" <=> index[c] = 0
    /\ call[c].pc \in {"asleep", "backoff", "up"} => call[c].asked <= 2 * call[c].tries + call[c].at
    /\ call[c].pc = "backoff" => call[c].tries < MaxRetry /\ call[c].seen = {}
    /\ call[c].seen \subseteq {call[c].asked}
    /\ call[c].emitted => c \in Streams /\ call[c].seen # {}
    /\ call[c].seen # {} =>
         call[c].emitted \/ call[c].pc = "done" \/ (call[c].pc = "up" /\ call[c].layer = "cost")
    /\ call[c].derived = "cancel" => c \in cancelled
    /\ call[c].pc \in {"up", "done"} /\ call[c].res = "cancel" => c \in cancelled
    /\ call[c].pc = "up" /\ call[c].layer = "cost" /\ call[c].res \notin Answer => c \in cancelled
    /\ deadline = "chain" /\ Below(call[c]) => call[c].armed
    /\ call[c].armed /\ c \in cancelled => call[c].derived # None
    /\ deadline = "each" /\ c \notin cancelled /\ call[c].seen = {} /\ call[c].res \notin Answer
         /\ (call[c].pc = "done" \/ (call[c].pc = "up" /\ call[c].layer \in {"retry", "cache"}))
         => call[c].at = 2
    /\ slot[c] # 0 => call[c].pc = "asleep" /\ call[c].at = 2

\* The indices given out are 1, 2, ... in the order the calls began.
Called == {c \in Caller : index[c] # 0}
IndexInv ==
    /\ \A c \in Caller : index[c] <= Cardinality(Called)
    /\ \A k \in 1 .. Cardinality(Called) : \E c \in Caller : index[c] = k
    /\ \A c, d \in Caller : index[c] = index[d] /\ index[c] # 0 => c = d

\* What an ask leaves of a frame.
LEMMA AskKeeps ==
    ASSUME NEW c \in Caller, NEW f \in CallType, TypeOK, Ask(c, f),
           UNCHANGED <<cancelled, deadline>>, index'[c] # 0, slot[c] = 0,
           f.seen = {}, f.asked + 1 <= 2 * f.tries + f.at,
           f.derived = "cancel" => c \in cancelled,
           f.armed /\ c \in cancelled => f.derived # None,
           IF deadline = "chain" THEN f.armed ELSE c \notin cancelled
    PROVE  /\ call' = [call EXCEPT ![c] = call'[c]]
           /\ call'[c] \in CallType
           /\ FrameInv(c)'
           /\ call'[c].asked = f.asked + 1
<1> USE StackAssumption
<1> DEFINE g == [f EXCEPT !.pc = "asleep", !.asked = @ + 1, !.emitted = FALSE]
<1>0. /\ f.at \in 1 .. 2 /\ f.tries \in 0 .. MaxRetry /\ f.asked \in Nat
      /\ call \in [Caller -> CallType] /\ slot \in [Caller -> 0 .. Turns]
      /\ deadline \in {"chain", "each"}
  BY DEF CallType, TypeOK
<1>a. f.asked + 1 \in 0 .. 2 * (MaxRetry + 1)
  BY <1>0
<1>1. /\ g \in CallType /\ g.pc = "asleep" /\ g.asked = f.asked + 1 /\ g.emitted = FALSE
      /\ g.at = f.at /\ g.tries = f.tries /\ g.seen = {} /\ g.derived = f.derived
      /\ g.armed = f.armed
  BY <1>0, <1>a DEF CallType
<1> HIDE DEF g
<1>2. CASE f.at = 1
  <2> DEFINE h == IF deadline = "each" THEN Arm(g) ELSE g
  <2>1. call' = [call EXCEPT ![c] = h] /\ slot' = slot
    BY <1>1, <1>2 DEF Ask, scriptVars, g
  <2>2. /\ h \in CallType /\ h.pc = "asleep" /\ h.asked = f.asked + 1 /\ h.emitted = FALSE
        /\ h.at = 1 /\ h.tries = f.tries /\ h.seen = {}
        /\ h.derived = IF deadline = "each" THEN None ELSE f.derived
        /\ h.armed = IF deadline = "each" THEN TRUE ELSE f.armed
    <3>1. Arm(g) = [g EXCEPT !.armed = TRUE, !.derived = None]
      BY DEF Arm
    <3> QED
      BY <1>1, <1>2, <3>1 DEF CallType, Signal
  <2> HIDE DEF h
  <2>3. call'[c] = h
    BY <1>0, <2>1
  <2>4. /\ h.derived = "cancel" => c \in cancelled
        /\ h.armed /\ c \in cancelled => h.derived # None
        /\ deadline = "chain" => h.armed
    <3>1. CASE deadline = "each"
      BY <2>2, <3>1 DEF None
    <3>2. CASE deadline = "chain"
      BY <2>2, <3>2
    <3> QED
      BY <1>0, <3>1, <3>2
  <2>5. FrameInv(c)'
    <3>1. /\ call'[c].pc = "asleep" /\ index'[c] # 0 /\ slot'[c] = 0 /\ call'[c].seen = {}
          /\ call'[c].emitted = FALSE /\ call'[c].asked <= 2 * call'[c].tries + call'[c].at
      BY <1>2, <2>1, <2>2, <2>3
    <3>2. /\ call'[c].derived = "cancel" => c \in cancelled'
          /\ call'[c].armed /\ c \in cancelled' => call'[c].derived # None
          /\ deadline' = "chain" => call'[c].armed
      BY <2>3, <2>4
    <3> QED
      BY <3>1, <3>2 DEF FrameInv, Below
  <2> QED
    BY <2>1, <2>2, <2>3, <2>5
<1>3. CASE f.at = 2 /\ FreeSlot > Turns
  <2> DEFINE h == Up(g, "fallback", "fail")
  <2>1. call' = [call EXCEPT ![c] = h] /\ slot' = slot
    BY <1>1, <1>3 DEF Ask, scriptVars, g
  <2>2. /\ h \in CallType /\ h.pc = "up" /\ h.asked = f.asked + 1 /\ h.emitted = FALSE
        /\ h.at = 2 /\ h.tries = f.tries /\ h.seen = {} /\ h.layer = "fallback" /\ h.res = "fail"
        /\ h.derived = f.derived /\ h.armed = f.armed
    BY <1>1, <1>3 DEF Up, CallType, Layer
  <2> HIDE DEF h
  <2>3. call'[c] = h
    BY <1>0, <2>1
  <2> QED
    BY <1>0, <2>1, <2>2, <2>3 DEF FrameInv, Below, None, Answer
<1>4. CASE f.at = 2 /\ ~(FreeSlot > Turns)
  <2>1. call' = [call EXCEPT ![c] = g]
    BY <1>1, <1>4 DEF Ask, g
  <2>2. call'[c] = g
    BY <1>0, <2>1
  <2> QED
    BY <1>0, <1>1, <1>4, <2>1, <2>2 DEF FrameInv, Below, None
<1> QED
  BY <1>0, <1>2, <1>3, <1>4

(***************************************************************************)
(* The script.                                                             *)
(***************************************************************************)
ScriptType ==
    /\ slot \in [Caller -> 0 .. Turns]
    /\ cursor \in 0 .. Turns
    /\ released \subseteq 1 .. Turns /\ spent \subseteq 1 .. Turns

Held == {slot[c] : c \in Caller} \ {0}
ScriptInv ==
    /\ ScriptType
    /\ \A c, d \in Caller : slot[c] = slot[d] /\ slot[c] # 0 => c = d
    /\ Held \cup released \cup spent = 1 .. cursor
    /\ Held \cap released = {} /\ Held \cap spent = {} /\ released \cap spent = {}

\* A call without a slot that claims one.
LEMMA ClaimKeeps ==
    ASSUME ScriptInv, NEW c \in Caller, slot[c] = 0, ~(FreeSlot > Turns), Claim(c)
    PROVE  ScriptInv' /\ \A d \in Caller : d # c => slot'[d] = slot[d]
<1> USE StackAssumption
<1>0. /\ slot \in [Caller -> 0 .. Turns] /\ cursor \in 0 .. Turns
      /\ released \in SUBSET (1 .. Turns) /\ spent \in SUBSET (1 .. Turns)
      /\ slot' = [slot EXCEPT ![c] = FreeSlot] /\ released' = released \ {FreeSlot}
      /\ cursor' = Max({cursor, FreeSlot}) /\ spent' = spent
  BY DEF ScriptInv, ScriptType, Claim
<1>1. /\ FreeSlot \in 1 .. Turns /\ FreeSlot \notin Held /\ FreeSlot \notin spent
      /\ IF released # {} THEN FreeSlot \in released /\ FreeSlot <= cursor
                          ELSE FreeSlot = cursor + 1
  <2>1. CASE released # {}
    <3>1. FreeSlot \in released
      BY <1>0, <2>1, MinOf DEF FreeSlot
    <3> QED
      BY <1>0, <2>1, <3>1 DEF ScriptInv
  <2>2. CASE released = {}
    <3>1. FreeSlot = cursor + 1
      BY <2>2 DEF FreeSlot
    <3> QED
      BY <1>0, <2>2, <3>1 DEF ScriptInv
  <2> QED
    BY <2>1, <2>2
<1>2. cursor' = IF released # {} THEN cursor ELSE FreeSlot
  <2> DEFINE B == {cursor, FreeSlot}
  <2>1. B \in SUBSET Nat /\ cursor \in B /\ FreeSlot \in B /\ \A y \in B : y = cursor \/ y = FreeSlot
    BY <1>0, <1>1
  <2> HIDE DEF B
  <2>2. CASE released # {}
    <3>1. \A y \in B : y <= cursor
      BY <1>0, <1>1, <2>1, <2>2
    <3>2. Max(B) = cursor
      BY <2>1, <3>1, MaxOf
    <3> QED
      BY <1>0, <2>2, <3>2 DEF B
  <2>3. CASE released = {}
    <3>1. \A y \in B : y <= FreeSlot
      BY <1>0, <1>1, <2>1, <2>3
    <3>2. Max(B) = FreeSlot
      BY <2>1, <3>1, MaxOf
    <3> QED
      BY <1>0, <2>3, <3>2 DEF B
  <2> QED
    BY <2>2, <2>3
<1> HIDE DEF FreeSlot
<1>3. Held' = Held \cup {FreeSlot}
  <2>1. \A d \in Caller : slot'[d] = IF d = c THEN FreeSlot ELSE slot[d]
    BY <1>0
  <2>2. FreeSlot # 0 /\ slot[c] = 0
    BY <1>1
  <2>3. Held' = {slot'[d] : d \in Caller} \ {0}
    BY DEF Held
  <2> QED
    BY <2>1, <2>2, <2>3 DEF Held
<1>4. ScriptType'
  BY <1>0, <1>1, <1>2 DEF ScriptType
<1>5. \A d, e \in Caller : slot'[d] = slot'[e] /\ slot'[d] # 0 => d = e
  BY <1>0, <1>1 DEF ScriptInv, Held
<1>6. Held' \cup released' \cup spent' = 1 .. cursor'
  <2>0. Held \cup released \cup spent = 1 .. cursor
    BY DEF ScriptInv
  <2>1. CASE released # {}
    BY <1>0, <1>1, <1>2, <1>3, <2>0, <2>1
  <2>2. CASE released = {}
    <3>1. 1 .. cursor' = (1 .. cursor) \cup {cursor + 1}
      BY <1>0, <1>1, <1>2, <2>2
    <3> QED
      BY <1>0, <1>1, <1>3, <2>0, <2>2, <3>1
  <2> QED
    BY <2>1, <2>2
<1>7. Held' \cap released' = {} /\ Held' \cap spent' = {} /\ released' \cap spent' = {}
  BY <1>0, <1>1, <1>3 DEF ScriptInv
<1> QED
  BY <1>0, <1>4, <1>5, <1>6, <1>7 DEF ScriptInv

\* A call that settles, with or without a slot.
LEMMA SettleKeeps ==
    ASSUME ScriptInv, NEW c \in Caller, NEW delivered \in BOOLEAN, Settle(c, delivered)
    PROVE  ScriptInv' /\ slot'[c] = 0 /\ \A d \in Caller : d # c => slot'[d] = slot[d]
<1> USE StackAssumption
<1>0. /\ slot \in [Caller -> 0 .. Turns] /\ cursor \in 0 .. Turns
      /\ released \in SUBSET (1 .. Turns) /\ spent \in SUBSET (1 .. Turns)
      /\ slot' = [slot EXCEPT ![c] = 0] /\ cursor' = cursor
      /\ spent' = IF delivered THEN spent \cup ({slot[c]} \ {0}) ELSE spent
      /\ released' = IF delivered THEN released ELSE released \cup ({slot[c]} \ {0})
  BY DEF ScriptInv, ScriptType, Settle
<1>1. Held' = Held \ {slot[c]}
  <2>1. \A d \in Caller : slot'[d] = IF d = c THEN 0 ELSE slot[d]
    BY <1>0
  <2>2. \A d \in Caller : slot[d] = slot[c] /\ slot[d] # 0 => d = c
    BY DEF ScriptInv
  <2>3. Held' = {slot'[d] : d \in Caller} \ {0}
    BY DEF Held
  <2> QED
    BY <2>1, <2>2, <2>3 DEF Held
<1>2. slot[c] = 0 \/ slot[c] \in Held
  BY DEF Held
<1>3. ScriptType'
  <2>1. ({slot[c]} \ {0}) \in SUBSET (1 .. Turns)
    BY <1>0
  <2>2. spent' \in SUBSET (1 .. Turns) /\ released' \in SUBSET (1 .. Turns)
    BY <1>0, <2>1
  <2>3. slot' \in [Caller -> 0 .. Turns] /\ cursor' \in 0 .. Turns
    BY <1>0
  <2> QED
    BY <2>2, <2>3 DEF ScriptType
<1>4. \A d, e \in Caller : slot'[d] = slot'[e] /\ slot'[d] # 0 => d = e
  BY <1>0 DEF ScriptInv
<1>5. Held' \cup released' \cup spent' = 1 .. cursor'
  <2>0. Held \cup released \cup spent = 1 .. cursor
    BY DEF ScriptInv
  <2>1. 0 \notin Held
    BY DEF Held
  <2> QED
    BY <1>0, <1>1, <1>2, <2>0, <2>1
<1>6. Held' \cap released' = {} /\ Held' \cap spent' = {} /\ released' \cap spent' = {}
  BY <1>0, <1>1, <1>2 DEF ScriptInv
<1> QED
  BY <1>0, <1>3, <1>4, <1>5, <1>6 DEF ScriptInv

LEMMA ScriptUnchanged ==
    ASSUME ScriptInv, UNCHANGED scriptVars
    PROVE  ScriptInv' /\ slot' = slot
BY DEF ScriptInv, ScriptType, Held, scriptVars

LEMMA AskScript ==
    ASSUME ScriptInv, NEW c \in Caller, NEW f, slot[c] = 0, Ask(c, f)
    PROVE  ScriptInv' /\ \A d \in Caller : d # c => slot'[d] = slot[d]
<1>1. CASE UNCHANGED scriptVars
  BY <1>1, ScriptUnchanged
<1>2. CASE ~(FreeSlot > Turns) /\ Claim(c)
  BY <1>2, ClaimKeeps
<1> QED
  BY <1>1, <1>2 DEF Ask

(***************************************************************************)
(* Each action keeps its own call's frames in order.                       *)
(***************************************************************************)
OwnFrame(c) ==
    /\ call' = [call EXCEPT ![c] = call'[c]]
    /\ call'[c] \in CallType
    /\ FrameInv(c)'

LEMMA FrameType ==
    ASSUME TypeOK, NEW c \in Caller
    PROVE  /\ call \in [Caller -> CallType] /\ call[c] \in CallType
           /\ call[c].pc \in {"idle", "asleep", "backoff", "up", "done"}
           /\ call[c].layer \in Layer /\ call[c].at \in 1 .. 2 /\ call[c].tries \in 0 .. MaxRetry
           /\ call[c].armed \in BOOLEAN /\ call[c].derived \in Signal
           /\ call[c].res \in Answer \cup Signal \cup {"fail"}
           /\ call[c].asked \in 0 .. 2 * (MaxRetry + 1) /\ call[c].emitted \in BOOLEAN
           /\ call[c].seen \in SUBSET (0 .. 2 * (MaxRetry + 1))
           /\ deadline \in {"chain", "each"}
<1>1. call \in [Caller -> CallType] /\ deadline \in {"chain", "each"}
  BY DEF TypeOK
<1>2. call[c] \in CallType
  BY <1>1
<1> QED
  BY <1>1, <1>2 DEF CallType

LEMMA UpFrame ==
    ASSUME NEW f \in CallType, NEW layer \in Layer, NEW res \in Answer \cup Signal \cup {"fail"}
    PROVE  /\ Up(f, layer, res) \in CallType
           /\ Up(f, layer, res).pc = "up" /\ Up(f, layer, res).layer = layer
           /\ Up(f, layer, res).res = res
           /\ Up(f, layer, res).at = f.at /\ Up(f, layer, res).tries = f.tries
           /\ Up(f, layer, res).armed = f.armed /\ Up(f, layer, res).derived = f.derived
           /\ Up(f, layer, res).asked = f.asked /\ Up(f, layer, res).emitted = f.emitted
           /\ Up(f, layer, res).seen = f.seen
BY DEF Up, CallType

LEMMA ArmFrame ==
    ASSUME NEW f \in CallType
    PROVE  /\ Arm(f) \in CallType
           /\ Arm(f).armed = TRUE /\ Arm(f).derived = None
           /\ Arm(f).pc = f.pc /\ Arm(f).layer = f.layer /\ Arm(f).res = f.res
           /\ Arm(f).at = f.at /\ Arm(f).tries = f.tries
           /\ Arm(f).asked = f.asked /\ Arm(f).emitted = f.emitted /\ Arm(f).seen = f.seen
BY DEF Arm, CallType, Signal

LEMMA StartFrame ==
    ASSUME TypeOK, NEW c \in Caller, FrameInv(c), Start(c), index'[c] # 0
    PROVE  OwnFrame(c)
<1> USE StackAssumption
<1>0. /\ call[c] = Idle /\ slot[c] = 0 /\ call \in [Caller -> CallType] /\ call[c] \in CallType
      /\ UNCHANGED <<cancelled, deadline>> /\ deadline \in {"chain", "each"}
  BY FrameType DEF Start, FrameInv
<1>i. /\ call[c].seen = {} /\ call[c].asked = 0 /\ call[c].tries = 0 /\ call[c].at = 1
      /\ call[c].emitted = FALSE /\ call[c].armed = FALSE /\ call[c].derived = None
  BY <1>0 DEF Idle
<1>1. CASE c \in cancelled
  <2> DEFINE g == Up(call[c], "cost", "cancel")
  <2>1. call' = [call EXCEPT ![c] = g] /\ slot' = slot
    BY <1>1 DEF Start, Return, scriptVars
  <2>2. /\ g \in CallType /\ g.pc = "up" /\ g.layer = "cost" /\ g.res = "cancel" /\ g.seen = {}
        /\ g.emitted = FALSE /\ g.armed = FALSE /\ g.derived = None /\ g.asked = 0 /\ g.tries = 0
        /\ g.at = 1
    BY <1>0, <1>i, UpFrame DEF Layer, Signal
  <2> HIDE DEF g
  <2>3. call'[c] = g
    BY <1>0, <2>1
  <2>4. FrameInv(c)'
    BY <1>0, <1>1, <2>1, <2>2, <2>3 DEF FrameInv, Below, None
  <2> QED
    BY <2>1, <2>2, <2>3, <2>4 DEF OwnFrame
<1>2. CASE c \notin cancelled /\ Hits(prompt[c]) # {}
  <2>1. PICK a \in Hits(prompt[c]) :
           call' = [call EXCEPT ![c] = [Up(@, "cost", a) EXCEPT !.seen = IF c \in Streams THEN {0} ELSE {}]]
    BY <1>2 DEF Start
  <2>2. a \in Answer
    <3>1. PICK i \in DOMAIN store : a = store[i].ans
      BY DEF Hits
    <3>2. store[i] \in Cached
      BY <3>1 DEF TypeOK
    <3> QED
      BY <3>1, <3>2 DEF Cached
  <2> DEFINE u == Up(call[c], "cost", a)
             g == [u EXCEPT !.seen = IF c \in Streams THEN {0} ELSE {}]
  <2>3. call' = [call EXCEPT ![c] = g]
    BY <2>1
  <2>4. slot' = slot
    BY <1>2 DEF Start, scriptVars
  <2>5. /\ u \in CallType /\ u.pc = "up" /\ u.layer = "cost" /\ u.res = a
        /\ u.emitted = FALSE /\ u.armed = FALSE /\ u.derived = None /\ u.asked = 0 /\ u.tries = 0
        /\ u.at = 1
    <3>1. "cost" \in Layer /\ a \in Answer \cup Signal \cup {"fail"}
      BY <2>2 DEF Layer
    <3> QED
      BY <1>0, <1>i, <3>1, UpFrame
  <2> HIDE DEF u
  <2>6. /\ g \in CallType /\ g.pc = "up" /\ g.layer = "cost" /\ g.res = a
        /\ g.emitted = FALSE /\ g.armed = FALSE /\ g.derived = None /\ g.asked = 0 /\ g.tries = 0
        /\ g.at = 1 /\ g.seen \subseteq {0}
    <3>1. {0} \in SUBSET (0 .. 2 * (MaxRetry + 1))
      OBVIOUS
    <3> QED
      BY <2>5, <3>1 DEF CallType
  <2> HIDE DEF g
  <2>7. call'[c] = g
    BY <1>0, <2>3
  <2>8. FrameInv(c)'
    <3>1. /\ call'[c].pc = "up" /\ index'[c] # 0 /\ slot'[c] = 0 /\ call'[c].seen \subseteq {0}
          /\ call'[c].emitted = FALSE /\ call'[c].asked = 0 /\ call'[c].tries = 0 /\ call'[c].at = 1
          /\ call'[c].layer = "cost" /\ call'[c].res \in Answer
      BY <1>0, <2>2, <2>4, <2>6, <2>7
    <3>2. call'[c].armed = FALSE /\ call'[c].derived = None
      BY <2>6, <2>7
    <3> QED
      BY <3>1, <3>2 DEF FrameInv, Below, None, Answer
  <2> QED
    BY <2>3, <2>6, <2>7, <2>8 DEF OwnFrame
<1>3. CASE c \notin cancelled /\ Hits(prompt[c]) = {}
  <2> DEFINE f == IF deadline = "chain" THEN Arm(call[c]) ELSE call[c]
  <2>1. Ask(c, f)
    BY <1>3 DEF Start
  <2>2. /\ f \in CallType /\ f.seen = {} /\ f.asked = 0 /\ f.tries = 0 /\ f.at = 1 /\ f.derived = None
        /\ deadline = "chain" => f.armed
    BY <1>0, <1>i, ArmFrame
  <2> HIDE DEF f
  <2>3. f.derived = "cancel" => c \in cancelled
    BY <2>2 DEF None
  <2>4. /\ f.asked + 1 <= 2 * f.tries + f.at
        /\ f.armed /\ c \in cancelled => f.derived # None
        /\ IF deadline = "chain" THEN f.armed ELSE c \notin cancelled
    BY <1>3, <2>2
  <2> QED
    BY <1>0, <2>1, <2>2, <2>3, <2>4, AskKeeps DEF OwnFrame
<1> QED
  BY <1>1, <1>2, <1>3

LEMMA ChunkFrame ==
    ASSUME TypeOK, NEW c \in Caller, FrameInv(c), Chunk(c)
    PROVE  OwnFrame(c)
<1> DEFINE g == [call[c] EXCEPT !.emitted = TRUE, !.seen = @ \cup {call[c].asked}]
<1>1. /\ call' = [call EXCEPT ![c] = g]
      /\ UNCHANGED <<index, cancelled, deadline, slot>>
      /\ call[c].pc = "asleep" /\ c \in Streams
  BY FrameType DEF Chunk, recordVars, scriptVars
<1>2. /\ g \in CallType /\ g.pc = "asleep" /\ g.emitted = TRUE
      /\ g.seen = call[c].seen \cup {call[c].asked} /\ g.asked = call[c].asked
      /\ g.at = call[c].at /\ g.tries = call[c].tries /\ g.armed = call[c].armed
      /\ g.derived = call[c].derived
  <2>1. call[c].seen \cup {call[c].asked} \in SUBSET (0 .. 2 * (MaxRetry + 1))
    BY FrameType
  <2> QED
    BY <1>1, <2>1, FrameType DEF CallType
<1> HIDE DEF g
<1>3. call'[c] = g
  BY <1>1, FrameType
<1>4. FrameInv(c)'
  BY <1>1, <1>2, <1>3 DEF FrameInv, Below
<1> QED
  BY <1>1, <1>2, <1>3, <1>4 DEF OwnFrame

\* A model that ends, with an answer or an error.
LEMMA SettledFrame ==
    ASSUME TypeOK, NEW c \in Caller, FrameInv(c), call[c].pc = "asleep",
           NEW f \in CallType, NEW res \in Answer \cup Signal \cup {"fail"},
           call' = [call EXCEPT ![c] = Up(f, AboveModel(f), res)],
           UNCHANGED <<index, cancelled, deadline>>, slot'[c] = 0,
           f = call[c] \/ (f = [call[c] EXCEPT !.emitted = TRUE, !.seen = @ \cup {call[c].asked}]
                           /\ c \in Streams),
           res = "cancel" => c \in cancelled
    PROVE  OwnFrame(c)
<1> DEFINE g == Up(f, AboveModel(f), res)
<1>0. /\ f.at = call[c].at /\ f.tries = call[c].tries /\ f.asked = call[c].asked
      /\ f.armed = call[c].armed /\ f.derived = call[c].derived
      /\ \/ f.emitted = call[c].emitted /\ f.seen = call[c].seen
         \/ f.emitted = TRUE /\ f.seen = call[c].seen \cup {call[c].asked} /\ c \in Streams
  <2>1. CASE f = call[c]
    BY <2>1
  <2>2. CASE f = [call[c] EXCEPT !.emitted = TRUE, !.seen = @ \cup {call[c].asked}] /\ c \in Streams
    BY <2>2, FrameType DEF CallType
  <2> QED
    BY <2>1, <2>2
<1>1. AboveModel(f) \in {"timeout", "fallback"} /\ AboveModel(f) \in Layer
  BY DEF AboveModel, Layer
<1> HIDE DEF AboveModel
<1>2. /\ g \in CallType /\ g.pc = "up" /\ g.layer \in {"timeout", "fallback"} /\ g.res = res
      /\ g.at = f.at /\ g.tries = f.tries /\ g.asked = f.asked /\ g.emitted = f.emitted
      /\ g.seen = f.seen /\ g.armed = f.armed /\ g.derived = f.derived
  BY <1>1, UpFrame
<1> HIDE DEF g
<1>3. call' = [call EXCEPT ![c] = g] /\ call'[c] = g
  BY FrameType DEF g
<1>4. FrameInv(c)'
  <2>1. /\ call'[c].pc = "up" /\ call'[c].layer \in {"timeout", "fallback"} /\ index'[c] # 0
        /\ call'[c].asked <= 2 * call'[c].tries + call'[c].at
        /\ call'[c].seen \subseteq {call'[c].asked}
        /\ call'[c].emitted => c \in Streams /\ call'[c].seen # {}
        /\ call'[c].seen # {} => call'[c].emitted
    BY <1>0, <1>2, <1>3 DEF FrameInv
  <2>2. /\ call'[c].derived = "cancel" => c \in cancelled'
        /\ call'[c].res = "cancel" => c \in cancelled'
        /\ deadline' = "chain" => call'[c].armed
        /\ call'[c].armed /\ c \in cancelled' => call'[c].derived # None
    BY <1>0, <1>2, <1>3 DEF FrameInv, Below
  <2> QED
    BY <2>1, <2>2 DEF FrameInv
<1> QED
  BY <1>2, <1>3, <1>4 DEF OwnFrame

LEMMA ReplyFrame ==
    ASSUME TypeOK, ScriptInv, NEW c \in Caller, FrameInv(c), Reply(c)
    PROVE  OwnFrame(c)
<1> DEFINE f == IF call[c].at = 2 /\ c \in Streams
                THEN [call[c] EXCEPT !.emitted = TRUE, !.seen = @ \cup {call[c].asked}]
                ELSE call[c]
           res == IF f.at = 1 THEN "big" ELSE "small"
<1>1. /\ call[c].pc = "asleep" /\ UNCHANGED <<index, cancelled, deadline>>
      /\ call' = [call EXCEPT ![c] = Up(f, AboveModel(f), res)]
  BY DEF Reply, recordVars
<1>2. slot'[c] = 0
  BY SettleKeeps DEF Reply
<1>3. f \in CallType
  <2>1. call[c].seen \cup {call[c].asked} \in SUBSET (0 .. 2 * (MaxRetry + 1))
    BY FrameType
  <2>2. [call[c] EXCEPT !.emitted = TRUE, !.seen = @ \cup {call[c].asked}] \in CallType
    BY <2>1, FrameType DEF CallType
  <2> QED
    BY <2>2, FrameType
<1>4. f = call[c] \/ (f = [call[c] EXCEPT !.emitted = TRUE, !.seen = @ \cup {call[c].asked}]
                      /\ c \in Streams)
  OBVIOUS
<1> HIDE DEF f
<1>5. res \in Answer /\ res # "cancel"
  BY DEF Answer
<1> HIDE DEF res
<1> QED
  BY <1>1, <1>2, <1>3, <1>4, <1>5, SettledFrame

LEMMA FailFrame ==
    ASSUME TypeOK, ScriptInv, NEW c \in Caller, FrameInv(c), Fail(c)
    PROVE  OwnFrame(c)
<1>1. /\ call[c].pc = "asleep" /\ UNCHANGED <<index, cancelled, deadline>>
      /\ call' = [call EXCEPT ![c] = Up(call[c], AboveModel(call[c]), "fail")]
  BY DEF Fail, recordVars
<1>2. slot'[c] = 0
  BY SettleKeeps DEF Fail
<1>3. /\ call[c] \in CallType /\ "fail" \in Answer \cup Signal \cup {"fail"}
      /\ "fail" = "cancel" => c \in cancelled
  BY FrameType
<1> QED
  BY <1>1, <1>2, <1>3, SettledFrame

LEMMA AbandonFrame ==
    ASSUME TypeOK, ScriptInv, NEW c \in Caller, FrameInv(c), Abandon(c)
    PROVE  OwnFrame(c)
<1> DEFINE res == ModelSig(c)
<1>1. /\ call[c].pc = "asleep" /\ UNCHANGED <<index, cancelled, deadline>>
      /\ call' = [call EXCEPT ![c] = Up(call[c], AboveModel(call[c]), res)]
  BY DEF Abandon, recordVars
<1>2. slot'[c] = 0
  BY SettleKeeps DEF Abandon
<1>3. res \in Signal /\ (res = "cancel" => c \in cancelled)
  BY FrameType DEF ModelSig, Outer, Signal, None, FrameInv
<1> HIDE DEF res
<1> QED
  BY <1>1, <1>2, <1>3, FrameType, SettledFrame

\* A signal seen by the layers is the caller's or the deadline's.
LEMMA SigOf ==
    ASSUME TypeOK, NEW c \in Caller, FrameInv(c)
    PROVE  /\ Sig(c) \in Signal
           /\ Sig(c) = "cancel" => c \in cancelled
           /\ deadline = "each" => (Sig(c) = None <=> c \notin cancelled)
           /\ deadline = "each" /\ Sig(c) # None => Sig(c) = "cancel"
           /\ deadline = "chain" => Sig(c) = call[c].derived
BY FrameType DEF Sig, Outer, Signal, None, FrameInv

\* A call whose answer or error goes up one layer.
LEMMA PassFrame ==
    ASSUME TypeOK, NEW c \in Caller, FrameInv(c), call[c].pc = "up", NEW layer \in Layer,
           call' = [call EXCEPT ![c].layer = layer], layer # "cost",
           UNCHANGED <<index, cancelled, deadline, slot>>,
           deadline = "chain" /\ layer \in {"fallback", "retry", "timeout"} => call[c].armed,
           deadline = "each" /\ c \notin cancelled /\ call[c].seen = {} /\ call[c].res \notin Answer
             /\ layer \in {"retry", "cache"} => call[c].at = 2,
           call[c].layer # "cost"
    PROVE  OwnFrame(c)
<1> DEFINE g == [call[c] EXCEPT !.layer = layer]
<1>1. /\ g \in CallType /\ g.pc = "up" /\ g.layer = layer /\ g.res = call[c].res
      /\ g.at = call[c].at /\ g.tries = call[c].tries /\ g.asked = call[c].asked
      /\ g.emitted = call[c].emitted /\ g.seen = call[c].seen /\ g.armed = call[c].armed
      /\ g.derived = call[c].derived
  BY FrameType DEF CallType
<1>2. call' = [call EXCEPT ![c] = g]
  BY FrameType
<1> HIDE DEF g
<1>3. call'[c] = g
  BY <1>2, FrameType
<1>4. FrameInv(c)'
  <2>1. /\ call'[c].pc = "up" /\ call'[c].layer = layer /\ index'[c] # 0
        /\ call'[c].asked <= 2 * call'[c].tries + call'[c].at
        /\ call'[c].seen \subseteq {call'[c].asked}
        /\ call'[c].emitted => c \in Streams /\ call'[c].seen # {}
        /\ call'[c].seen # {} => call'[c].emitted
        /\ slot'[c] = 0
    BY <1>1, <1>3 DEF FrameInv
  <2>2. /\ call'[c].derived = "cancel" => c \in cancelled'
        /\ call'[c].res = "cancel" => c \in cancelled'
        /\ call'[c].armed /\ c \in cancelled' => call'[c].derived # None
    BY <1>1, <1>3 DEF FrameInv
  <2>3. /\ deadline' = "chain" /\ layer \in {"fallback", "retry", "timeout"} => call'[c].armed
        /\ deadline' = "each" /\ c \notin cancelled' /\ call'[c].seen = {} /\ call'[c].res \notin Answer
             /\ layer \in {"retry", "cache"} => call'[c].at = 2
    BY <1>1, <1>3
  <2> QED
    BY <2>1, <2>2, <2>3 DEF FrameInv, Below
<1> QED
  BY <1>1, <1>2, <1>3, <1>4 DEF OwnFrame

\* A call that goes up without asking: the layer and the error change, no more.
LEMMA ReturnFrame ==
    ASSUME TypeOK, NEW c \in Caller, FrameInv(c), call[c].pc \in {"up", "backoff"},
           NEW layer \in {"retry", "timeout", "cache"}, NEW res \in Signal, Return(c, layer, res),
           UNCHANGED <<index, cancelled, deadline>>,
           call[c].pc = "up" => call[c].layer # "cost",
           res = "cancel" => c \in cancelled,
           deadline = "chain" => call[c].armed /\ layer # "cache",
           deadline = "each" => c \in cancelled
    PROVE  OwnFrame(c)
<1> DEFINE g == Up(call[c], layer, res)
<1>1. call' = [call EXCEPT ![c] = g] /\ slot' = slot
  BY DEF Return, scriptVars
<1>2. /\ g \in CallType /\ g.pc = "up" /\ g.layer = layer /\ g.res = res
      /\ g.at = call[c].at /\ g.tries = call[c].tries /\ g.asked = call[c].asked
      /\ g.emitted = call[c].emitted /\ g.seen = call[c].seen /\ g.armed = call[c].armed
      /\ g.derived = call[c].derived
  <2>1. call[c] \in CallType /\ layer \in Layer /\ res \in Answer \cup Signal \cup {"fail"}
    BY FrameType DEF Layer
  <2> QED
    BY <2>1, UpFrame
<1> HIDE DEF g
<1>3. call'[c] = g
  BY <1>1, FrameType
<1>4. FrameInv(c)'
  <2>1. /\ call'[c].pc = "up" /\ call'[c].layer = layer /\ index'[c] # 0
        /\ call'[c].asked <= 2 * call'[c].tries + call'[c].at
        /\ call'[c].seen \subseteq {call'[c].asked}
        /\ call'[c].emitted => c \in Streams /\ call'[c].seen # {}
        /\ call'[c].seen # {} => call'[c].emitted
        /\ slot'[c] = 0
    BY <1>1, <1>2, <1>3 DEF FrameInv
  <2>2. /\ call'[c].derived = "cancel" => c \in cancelled'
        /\ call'[c].res = "cancel" => c \in cancelled'
        /\ call'[c].armed /\ c \in cancelled' => call'[c].derived # None
    BY <1>2, <1>3 DEF FrameInv
  <2>3. /\ deadline' = "chain" => call'[c].armed
        /\ deadline' = "each" => c \in cancelled'
    BY <1>2, <1>3
  <2> QED
    BY <2>1, <2>2, <2>3 DEF FrameInv, Below
<1> QED
  BY <1>1, <1>2, <1>3, <1>4 DEF OwnFrame

LEMMA FallbackUpFrame ==
    ASSUME TypeOK, NEW c \in Caller, FrameInv(c), FallbackUp(c)
    PROVE  OwnFrame(c)
<1> DEFINE f == call[c]
           stops == \/ f.res \in Answer \/ f.at = 2
                    \/ IsCancellation(f.res, Sig(c))
                    \/ c \in Streams /\ f.emitted
<1>0. /\ f.pc = "up" /\ f.layer = "fallback" /\ UNCHANGED <<index, cancelled, deadline>>
      /\ index[c] # 0 /\ slot[c] = 0
      /\ deadline = "chain" => f.armed
  BY DEF FallbackUp, recordVars, FrameInv, Below
<1>1. CASE stops
  <2>1. call' = [call EXCEPT ![c].layer = "retry"] /\ slot' = slot
    BY <1>1 DEF FallbackUp, Pass, Above, scriptVars
  <2>2. deadline = "each" /\ c \notin cancelled /\ f.seen = {} /\ f.res \notin Answer => f.at = 2
    <3> SUFFICES ASSUME deadline = "each", c \notin cancelled, f.seen = {}, f.res \notin Answer
                 PROVE  f.at = 2
      OBVIOUS
    <3>1. Sig(c) = None
      BY SigOf
    <3>2. f.res # "cancel" /\ ~f.emitted
      BY <1>0 DEF FrameInv
    <3>3. ~IsCancellation(f.res, Sig(c))
      BY <3>1, <3>2 DEF IsCancellation
    <3> QED
      BY <1>1, <3>2, <3>3
  <2>3. "retry" \in Layer /\ "retry" # "cost"
    BY DEF Layer
  <2> QED
    BY <1>0, <2>1, <2>2, <2>3, PassFrame
<1>2. CASE ~stops /\ Sig(c) # None
  <2>1. Return(c, "retry", Sig(c))
    BY <1>2 DEF FallbackUp, TryModel
  <2>2. Sig(c) \in Signal /\ (Sig(c) = "cancel" => c \in cancelled) /\ (deadline = "each" => c \in cancelled)
    BY <1>2, SigOf
  <2> QED
    BY <1>0, <2>1, <2>2, ReturnFrame
<1>3. CASE ~stops /\ Sig(c) = None
  <2> DEFINE g == [call[c] EXCEPT !.at = 2]
  <2>1. Ask(c, g)
    BY <1>3 DEF FallbackUp, TryModel
  <2>2. /\ g \in CallType /\ g.seen = f.seen /\ g.asked = f.asked /\ g.tries = f.tries /\ g.at = 2
        /\ g.armed = f.armed /\ g.derived = f.derived
    BY FrameType DEF CallType
  <2> HIDE DEF g
  <2>3. f.at = 1 /\ f.seen = {} /\ f.asked <= 2 * f.tries + f.at
    <3>1. f.at = 1
      BY <1>3, FrameType
    <3>2. f.seen # {} => f.emitted
      BY <1>0 DEF FrameInv
    <3>3. f.emitted => c \in Streams
      BY DEF FrameInv
    <3> QED
      BY <1>0, <1>3, <3>1, <3>2, <3>3 DEF FrameInv
  <2>4. g.asked + 1 <= 2 * g.tries + g.at
    BY <2>2, <2>3, FrameType, StackAssumption
  <2>5. /\ g.derived = "cancel" => c \in cancelled
        /\ g.armed /\ c \in cancelled => g.derived # None
    BY <2>2 DEF FrameInv
  <2>6. IF deadline = "chain" THEN g.armed ELSE c \notin cancelled
    BY <1>0, <1>3, <2>2, SigOf, FrameType
  <2> QED
    BY <1>0, <2>1, <2>2, <2>3, <2>4, <2>5, <2>6, AskKeeps DEF OwnFrame
<1> QED
  BY <1>1, <1>2, <1>3

LEMMA RetryUpFrame ==
    ASSUME TypeOK, NEW c \in Caller, FrameInv(c), RetryUp(c)
    PROVE  OwnFrame(c)
<1> DEFINE f == call[c]
<1>0. /\ f.pc = "up" /\ f.layer = "retry" /\ UNCHANGED <<index, cancelled, deadline, slot>>
      /\ index[c] # 0 /\ slot[c] = 0
      /\ deadline = "chain" => f.armed
  BY DEF RetryUp, recordVars, FrameInv, Below, scriptVars
<1>a. /\ Above("retry") = IF deadline = "chain" THEN "timeout" ELSE "cache"
      /\ Above("retry") \in Layer /\ Above("retry") # "cost" /\ Above("retry") \in {"timeout", "cache"}
  BY DEF Above, Layer
<1> HIDE DEF Above
<1>1. CASE Pass(c)
  <2>1. call' = [call EXCEPT ![c].layer = Above("retry")]
    BY <1>0, <1>1 DEF Pass
  <2>2. deadline = "each" /\ c \notin cancelled /\ f.seen = {} /\ f.res \notin Answer => f.at = 2
    BY <1>0 DEF FrameInv
  <2> QED
    BY <1>0, <1>a, <2>1, <2>2, PassFrame
<1>2. CASE /\ Sig(c) # None
           /\ call' = [call EXCEPT ![c] = Up(f, Above("retry"), Sig(c))]
           /\ UNCHANGED scriptVars
  <2>1. Return(c, Above("retry"), Sig(c))
    BY <1>2 DEF Return
  <2>2. Sig(c) \in Signal /\ (Sig(c) = "cancel" => c \in cancelled) /\ (deadline = "each" => c \in cancelled)
    BY <1>2, SigOf
  <2> QED
    BY <1>0, <1>a, <2>1, <2>2, ReturnFrame
<1>3. CASE /\ f.tries < MaxRetry /\ (c \in Streams => f.seen = {})
           /\ call' = [call EXCEPT ![c] = [f EXCEPT !.pc = "backoff"]]
  <2> DEFINE g == [f EXCEPT !.pc = "backoff"]
  <2>1. /\ g \in CallType /\ g.pc = "backoff" /\ g.seen = f.seen /\ g.asked = f.asked
        /\ g.tries = f.tries /\ g.at = f.at /\ g.armed = f.armed /\ g.derived = f.derived
        /\ g.emitted = f.emitted
    BY FrameType DEF CallType
  <2> HIDE DEF g
  <2>2. call' = [call EXCEPT ![c] = g]
    BY <1>3 DEF g
  <2>3. call'[c] = g
    BY <2>2, FrameType
  <2>4. f.seen = {}
    BY <1>0, <1>3 DEF FrameInv
  <2>5. FrameInv(c)'
    <3>1. /\ call'[c].pc = "backoff" /\ index'[c] # 0 /\ slot'[c] = 0
          /\ call'[c].asked <= 2 * call'[c].tries + call'[c].at
          /\ call'[c].tries < MaxRetry /\ call'[c].seen = {} /\ ~call'[c].emitted
      BY <1>0, <1>3, <2>1, <2>3, <2>4 DEF FrameInv
    <3>2. /\ call'[c].derived = "cancel" => c \in cancelled'
          /\ call'[c].armed /\ c \in cancelled' => call'[c].derived # None
          /\ deadline' = "chain" => call'[c].armed
      BY <1>0, <2>1, <2>3 DEF FrameInv
    <3> QED
      BY <3>1, <3>2 DEF FrameInv
  <2> QED
    BY <2>1, <2>2, <2>3, <2>5 DEF OwnFrame
<1> QED
  BY <1>1, <1>2, <1>3 DEF RetryUp

LEMMA BackoffFrame ==
    ASSUME TypeOK, NEW c \in Caller, FrameInv(c), Backoff(c)
    PROVE  OwnFrame(c)
<1> DEFINE f == call[c]
<1>0. /\ f.pc = "backoff" /\ UNCHANGED <<index, cancelled, deadline>>
      /\ index[c] # 0 /\ slot[c] = 0 /\ f.seen = {} /\ f.tries < MaxRetry
      /\ f.asked <= 2 * f.tries + f.at
      /\ deadline = "chain" => f.armed
  BY DEF Backoff, recordVars, FrameInv, Below
<1>1. CASE Sig(c) # None
  <2>1. Return(c, Above("retry"), Sig(c))
    BY <1>1 DEF Backoff
  <2>2. Above("retry") \in {"timeout", "cache"} /\ (deadline = "chain" => Above("retry") # "cache")
    BY DEF Above
  <2>3. Sig(c) \in Signal /\ (Sig(c) = "cancel" => c \in cancelled) /\ (deadline = "each" => c \in cancelled)
    BY <1>1, SigOf
  <2> HIDE DEF Above
  <2> QED
    BY <1>0, <2>1, <2>2, <2>3, ReturnFrame
<1>2. CASE Sig(c) = None
  <2> DEFINE g == [call[c] EXCEPT !.tries = @ + 1, !.at = 1]
  <2>1. Ask(c, g)
    BY <1>2 DEF Backoff, TryModel
  <2>2. /\ g \in CallType /\ g.seen = f.seen /\ g.asked = f.asked /\ g.tries = f.tries + 1 /\ g.at = 1
        /\ g.armed = f.armed /\ g.derived = f.derived
    <3>1. f.tries + 1 \in 0 .. MaxRetry /\ 1 \in 1 .. 2
      BY <1>0, FrameType, StackAssumption
    <3>2. f \in CallType
      BY FrameType
    <3> HIDE DEF f
    <3>3. g = [f EXCEPT !.tries = f.tries + 1, !.at = 1]
      BY DEF f
    <3> QED
      BY <3>1, <3>2, <3>3 DEF CallType
  <2> HIDE DEF g
  <2>4. g.asked + 1 <= 2 * g.tries + g.at
    BY <1>0, <2>2, FrameType, StackAssumption
  <2>5. /\ g.derived = "cancel" => c \in cancelled
        /\ g.armed /\ c \in cancelled => g.derived # None
    BY <2>2 DEF FrameInv
  <2>6. IF deadline = "chain" THEN g.armed ELSE c \notin cancelled
    BY <1>0, <1>2, <2>2, SigOf, FrameType
  <2> QED
    BY <1>0, <2>1, <2>2, <2>4, <2>5, <2>6, AskKeeps DEF OwnFrame
<1> QED
  BY <1>1, <1>2

LEMMA TimeoutUpFrame ==
    ASSUME TypeOK, NEW c \in Caller, FrameInv(c), TimeoutUp(c)
    PROVE  OwnFrame(c)
<1> DEFINE f == call[c]
           layer == Above("timeout")
           g == [f EXCEPT !.layer = layer, !.armed = FALSE, !.derived = None]
<1>0. /\ f.pc = "up" /\ f.layer = "timeout" /\ UNCHANGED <<index, cancelled, deadline, slot>>
      /\ index[c] # 0 /\ slot[c] = 0
      /\ call' = [call EXCEPT ![c] = g]
  BY FrameType DEF TimeoutUp, recordVars, FrameInv, scriptVars
<1>1. layer \in Layer /\ layer = IF deadline = "chain" THEN "cache" ELSE "fallback"
  BY DEF Above, Layer
<1> HIDE DEF layer
<1>2. /\ g \in CallType /\ g.pc = "up" /\ g.layer = layer /\ g.res = f.res /\ g.at = f.at
      /\ g.tries = f.tries /\ g.asked = f.asked /\ g.emitted = f.emitted /\ g.seen = f.seen
      /\ g.armed = FALSE /\ g.derived = None
  <2>1. f \in CallType /\ None \in Signal
    BY FrameType DEF Signal
  <2> HIDE DEF f
  <2>2. g \in CallType /\ g.layer = layer /\ g.armed = FALSE /\ g.derived = None
    BY <1>1, <2>1 DEF CallType
  <2>3. /\ g.pc = f.pc /\ g.res = f.res /\ g.at = f.at
        /\ g.tries = f.tries /\ g.asked = f.asked /\ g.emitted = f.emitted /\ g.seen = f.seen
    BY <2>1 DEF CallType
  <2> QED
    BY <1>0, <2>2, <2>3 DEF f
<1> HIDE DEF g
<1>3. call'[c] = g
  BY <1>0, FrameType
<1>4. FrameInv(c)'
  <2>1. /\ call'[c].pc = "up" /\ index'[c] # 0 /\ slot'[c] = 0
        /\ call'[c].asked <= 2 * call'[c].tries + call'[c].at
        /\ call'[c].seen \subseteq {call'[c].asked}
        /\ call'[c].emitted => c \in Streams /\ call'[c].seen # {}
        /\ call'[c].seen # {} => call'[c].emitted
        /\ call'[c].res = "cancel" => c \in cancelled'
    BY <1>0, <1>2, <1>3 DEF FrameInv
  <2>2. /\ call'[c].derived # "cancel" /\ call'[c].armed = FALSE
        /\ deadline' = "chain" => call'[c].layer = "cache"
        /\ deadline' = "each" => call'[c].layer = "fallback"
        /\ deadline' \in {"chain", "each"}
    BY <1>0, <1>1, <1>2, <1>3, FrameType DEF None
  <2> QED
    BY <2>1, <2>2 DEF FrameInv, Below
<1> QED
  BY <1>0, <1>2, <1>3, <1>4 DEF OwnFrame

LEMMA DeliverFrame ==
    ASSUME TypeOK, NEW c \in Caller, FrameInv(c), Deliver(c)
    PROVE  OwnFrame(c)
<1> DEFINE f == call[c]
           g == [f EXCEPT !.pc = "done", !.layer = "cost", !.tries = 0, !.emitted = FALSE]
<1>0. /\ f.pc = "up" /\ f.layer \in {"cache", "cost"} /\ UNCHANGED <<index, cancelled, deadline, slot>>
      /\ index[c] # 0 /\ slot[c] = 0
      /\ call' = [call EXCEPT ![c] = g]
  BY FrameType DEF Deliver, FrameInv, scriptVars
<1>1. /\ g \in CallType /\ g.pc = "done" /\ g.res = f.res /\ g.at = f.at
      /\ g.asked = f.asked /\ g.emitted = FALSE /\ g.seen = f.seen
      /\ g.armed = f.armed /\ g.derived = f.derived
  <2>1. 0 \in 0 .. MaxRetry
    BY StackAssumption
  <2> QED
    BY <2>1, FrameType DEF CallType, Layer
<1> HIDE DEF g
<1>2. call'[c] = g
  BY <1>0, FrameType
<1>3. FrameInv(c)'
  <2>1. /\ call'[c].pc = "done" /\ index'[c] # 0 /\ slot'[c] = 0
        /\ call'[c].seen \subseteq {call'[c].asked} /\ ~call'[c].emitted
        /\ call'[c].derived = "cancel" => c \in cancelled'
        /\ call'[c].res = "cancel" => c \in cancelled'
        /\ call'[c].armed /\ c \in cancelled' => call'[c].derived # None
    BY <1>0, <1>1, <1>2 DEF FrameInv
  <2>2. deadline' = "each" /\ c \notin cancelled' /\ call'[c].seen = {} /\ call'[c].res \notin Answer
          => call'[c].at = 2
    BY <1>0, <1>1, <1>2 DEF FrameInv
  <2> QED
    BY <2>1, <2>2 DEF FrameInv, Below
<1> QED
  BY <1>0, <1>1, <1>2, <1>3 DEF OwnFrame

\* The caller's abort and the deadline's timer: the controller's reason.
LEMMA SignalFrame ==
    ASSUME TypeOK, NEW c \in Caller, FrameInv(c), NEW sig \in Signal,
           call' = [call EXCEPT ![c].derived = sig],
           UNCHANGED <<index, deadline, slot>>,
           cancelled \subseteq cancelled',
           call[c].armed \/ sig = call[c].derived,
           sig = "cancel" => c \in cancelled',
           call[c].armed /\ c \in cancelled' => sig # None
    PROVE  OwnFrame(c)
<1> DEFINE g == [call[c] EXCEPT !.derived = sig]
<1>1. /\ g \in CallType /\ g.pc = call[c].pc /\ g.layer = call[c].layer /\ g.res = call[c].res
      /\ g.at = call[c].at /\ g.tries = call[c].tries /\ g.asked = call[c].asked
      /\ g.emitted = call[c].emitted /\ g.seen = call[c].seen /\ g.armed = call[c].armed
      /\ g.derived = sig
  BY FrameType DEF CallType
<1>2. call' = [call EXCEPT ![c] = g]
  BY FrameType
<1>3. sig = call[c].derived => g = call[c]
  BY FrameType DEF CallType
<1>4. g.pc = "idle" => g = Idle
  <2> SUFFICES ASSUME g.pc = "idle" PROVE g = Idle
    OBVIOUS
  <2>1. call[c] = Idle
    BY <1>1 DEF FrameInv
  <2>2. ~call[c].armed
    BY <2>1 DEF Idle
  <2> HIDE DEF g
  <2> QED
    BY <1>3, <2>1, <2>2
<1> HIDE DEF g
<1>5. call'[c] = g
  BY <1>2, FrameType
<1>6. FrameInv(c)'
  <2>1. /\ call'[c].pc = "idle" => call'[c] = Idle
        /\ call'[c].pc = "idle" <=> index'[c] = 0
        /\ call'[c].pc \in {"asleep", "backoff", "up"} => call'[c].asked <= 2 * call'[c].tries + call'[c].at
        /\ call'[c].pc = "backoff" => call'[c].tries < MaxRetry /\ call'[c].seen = {}
        /\ call'[c].seen \subseteq {call'[c].asked}
        /\ call'[c].emitted => c \in Streams /\ call'[c].seen # {}
        /\ call'[c].seen # {} => call'[c].emitted \/ call'[c].pc = "done"
                                 \/ (call'[c].pc = "up" /\ call'[c].layer = "cost")
    BY <1>1, <1>4, <1>5 DEF FrameInv
  <2>2. /\ call'[c].pc \in {"up", "done"} /\ call'[c].res = "cancel" => c \in cancelled'
        /\ call'[c].pc = "up" /\ call'[c].layer = "cost" /\ call'[c].res \notin Answer => c \in cancelled'
        /\ deadline' = "chain" /\ Below(call'[c]) => call'[c].armed
        /\ slot'[c] # 0 => call'[c].pc = "asleep" /\ call'[c].at = 2
    BY <1>1, <1>5 DEF FrameInv, Below
  <2>3. /\ call'[c].derived = "cancel" => c \in cancelled'
        /\ call'[c].armed /\ c \in cancelled' => call'[c].derived # None
    BY <1>1, <1>5
  <2>4. deadline' = "each" /\ c \notin cancelled' /\ call'[c].seen = {} /\ call'[c].res \notin Answer
          /\ (call'[c].pc = "done" \/ (call'[c].pc = "up" /\ call'[c].layer \in {"retry", "cache"}))
          => call'[c].at = 2
    BY <1>1, <1>5 DEF FrameInv
  <2> QED
    BY <2>1, <2>2, <2>3, <2>4 DEF FrameInv
<1> QED
  BY <1>1, <1>2, <1>5, <1>6 DEF OwnFrame

LEMMA CancelFrame ==
    ASSUME TypeOK, NEW c \in Caller, FrameInv(c), Cancel(c)
    PROVE  OwnFrame(c)
<1> DEFINE sig == IF call[c].armed /\ call[c].derived = None THEN "cancel" ELSE call[c].derived
<1>1. /\ call' = [call EXCEPT ![c].derived = sig] /\ UNCHANGED <<index, deadline, slot>>
      /\ cancelled' = cancelled \cup {c}
  BY FrameType DEF Cancel, recordVars, scriptVars
<1>2. /\ sig \in Signal /\ (call[c].armed \/ sig = call[c].derived)
      /\ (call[c].armed => sig # None)
  BY FrameType DEF Signal, None
<1> HIDE DEF sig
<1> QED
  BY <1>1, <1>2, SignalFrame

LEMMA DeadlineFrame ==
    ASSUME TypeOK, NEW c \in Caller, FrameInv(c), Deadline(c)
    PROVE  OwnFrame(c)
<1>1. /\ call' = [call EXCEPT ![c].derived = "timeout"] /\ UNCHANGED <<index, deadline, slot, cancelled>>
      /\ call[c].armed
  BY DEF Deadline, recordVars, scriptVars
<1>2. "timeout" \in Signal /\ "timeout" # None /\ "timeout" # "cancel"
  BY DEF Signal, None
<1> QED
  BY <1>1, <1>2, SignalFrame

(***************************************************************************)
(* The step of one call as a whole: its own frame, the others', the script *)
(* and the indices.                                                        *)
(***************************************************************************)
CallStep(c) ==
    \/ Start(c) \/ Chunk(c) \/ Reply(c) \/ Fail(c) \/ Abandon(c)
    \/ FallbackUp(c) \/ RetryUp(c) \/ Backoff(c) \/ TimeoutUp(c)
    \/ Deliver(c) \/ Cancel(c) \/ Deadline(c)

LEMMA OtherFrame ==
    ASSUME TypeOK, NEW c \in Caller, NEW d \in Caller, d # c, FrameInv(d),
           call' = [call EXCEPT ![c] = call'[c]], slot'[d] = slot[d], index'[d] = index[d],
           d \in cancelled' <=> d \in cancelled, deadline' = deadline
    PROVE  FrameInv(d)'
<1>1. call'[d] = call[d]
  BY DEF TypeOK
<1> QED
  BY <1>1 DEF FrameInv, Below

\* Beginning a call gives it the next index.
LEMMA PrepareKeeps ==
    ASSUME index \in [Caller -> Nat], IndexInv, NEW c \in Caller, index[c] = 0, Prepare(c)
    PROVE  /\ IndexInv' /\ index' \in [Caller -> 0 .. Cardinality(Caller)]
           /\ index'[c] # 0 /\ \A d \in Caller : d # c => index'[d] = index[d]
<1> DEFINE B == {index[d] : d \in Caller}
           n == Cardinality(Called)
<1>0. IsFiniteSet(Caller)
  BY RecordAssumption
<1>1. /\ Called \in SUBSET Caller /\ c \notin Called
      /\ IsFiniteSet(Called) /\ n \in Nat
  <2>1. Called \in SUBSET Caller /\ c \notin Called
    BY DEF Called
  <2>2. IsFiniteSet(Called)
    BY <1>0, <2>1, FS_Subset
  <2> QED
    BY <2>1, <2>2, FS_CardinalityType
<1>2. Max(B) = n
  <2>1. B \in SUBSET Nat /\ \A y \in B : y <= n
    BY DEF IndexInv
  <2>2. n \in B
    <3>1. CASE n = 0
      BY <3>1
    <3>2. CASE n # 0
      <4>1. PICK d \in Caller : index[d] = n
        BY <1>1, <3>2 DEF IndexInv
      <4> QED
        BY <4>1
    <3> QED
      BY <3>1, <3>2
  <2> HIDE DEF B, n
  <2> QED
    BY <2>1, <2>2, MaxOf
<1>3. index' = [index EXCEPT ![c] = n + 1]
  BY <1>2 DEF Prepare
<1>4. /\ index'[c] = n + 1 /\ \A d \in Caller : d # c => index'[d] = index[d]
  BY <1>3
<1>5. Called' = Called \cup {c}
  <2>1. Called' = {d \in Caller : index'[d] # 0}
    BY DEF Called
  <2> QED
    BY <1>1, <1>4, <2>1 DEF Called
<1>6. Cardinality(Called') = n + 1
  BY <1>1, <1>5, FS_AddElement
<1>7. n + 1 <= Cardinality(Caller) /\ Cardinality(Caller) \in Nat
  <2>1. Called \cup {c} \in SUBSET Caller
    BY <1>1
  <2> QED
    BY <1>0, <1>5, <1>6, <2>1, FS_Subset, FS_CardinalityType
<1>8. IndexInv'
  <2> HIDE DEF n
  <2>1. \A d \in Caller : index'[d] <= Cardinality(Called')
    BY <1>1, <1>4, <1>6 DEF IndexInv, n
  <2>2. ASSUME NEW k \in 1 .. Cardinality(Called') PROVE \E d \in Caller : index'[d] = k
    <3>1. CASE k = n + 1
      BY <1>4, <3>1
    <3>2. CASE k # n + 1
      <4>1. k \in 1 .. n
        BY <1>1, <1>6, <3>2
      <4>2. PICK d \in Caller : index[d] = k
        BY <4>1 DEF IndexInv, n
      <4>3. d # c
        BY <4>1, <4>2
      <4> QED
        BY <1>4, <4>2, <4>3
    <3> QED
      BY <3>1, <3>2
  <2>3. \A d, e \in Caller : index'[d] = index'[e] /\ index'[d] # 0 => d = e
    <3>1. \A d \in Caller : index[d] # n + 1
      BY <1>1 DEF IndexInv, n
    <3> QED
      BY <1>4, <3>1 DEF IndexInv
  <2> QED
    BY <2>1, <2>2, <2>3 DEF IndexInv
<1>9. index' \in [Caller -> 0 .. Cardinality(Caller)]
  <2>1. \A d \in Caller : index[d] <= n
    BY DEF IndexInv
  <2> HIDE DEF n
  <2> QED
    BY <1>1, <1>3, <1>7, <2>1
<1> QED
  BY <1>1, <1>4, <1>8, <1>9

(***************************************************************************)
(* The cache is a Map: a key at most once, and never more than maxEntries. *)
(***************************************************************************)
Keys == UNION {{p[c] : c \in Caller} : p \in Prompts}
Unique(s) == \A i, j \in DOMAIN s : s[i].key = s[j].key => i = j
StoreOK(s) == s \in Seq(Cached) /\ Len(s) <= MaxEntries /\ Unique(s)

LEMMA ReadKeeps ==
    ASSUME StoreOK(store), NEW key
    PROVE  StoreOK(AfterRead(key))
<1>1. CASE AfterRead(key) = store
  BY <1>1
<1>2. ASSUME NEW i \in DOMAIN store, AfterRead(key) = Deleted(i)
      PROVE  StoreOK(AfterRead(key))
  <2> DEFINE n == Len(store)
             t == Deleted(i)
  <2>1. /\ n \in Nat /\ DOMAIN store = 1 .. n /\ n <= MaxEntries /\ i \in 1 .. n
        /\ \A j \in 1 .. n : store[j] \in Cached
    BY <1>2 DEF StoreOK
  <2>2. /\ t = [j \in 1 .. n - 1 |-> store[IF j < i THEN j ELSE j + 1]]
    BY DEF Deleted
  <2> HIDE DEF t, n
  <2>3. n - 1 \in Nat /\ \A j \in 1 .. n - 1 : (IF j < i THEN j ELSE j + 1) \in 1 .. n
    BY <2>1
  <2>4. DOMAIN t = 1 .. n - 1 /\ \A j \in 1 .. n - 1 : t[j] = store[IF j < i THEN j ELSE j + 1]
    BY <2>2
  <2>5. t \in [1 .. n - 1 -> Cached]
    BY <2>1, <2>2, <2>3
  <2>6. t \in Seq(Cached) /\ Len(t) = n - 1
    BY <2>3, <2>5
  <2>7. Unique(t)
    <3> SUFFICES ASSUME NEW j \in 1 .. n - 1, NEW k \in 1 .. n - 1, t[j].key = t[k].key
                 PROVE  j = k
      BY <2>4 DEF Unique
    <3> DEFINE x == IF j < i THEN j ELSE j + 1
               y == IF k < i THEN k ELSE k + 1
    <3>1. x \in 1 .. n /\ y \in 1 .. n /\ t[j] = store[x] /\ t[k] = store[y]
      BY <2>3, <2>4
    <3>2. x = y
      <4> HIDE DEF x, y
      <4> QED
        BY <2>1, <3>1 DEF StoreOK, Unique
    <3> QED
      BY <2>1, <3>2
  <2>8. Len(t) <= MaxEntries
    BY <2>1, <2>3, <2>6, StackAssumption
  <2> QED
    BY <1>2, <2>6, <2>7, <2>8 DEF StoreOK, t
<1>3. AfterRead(key) = store \/ \E i \in DOMAIN store : AfterRead(key) = Deleted(i)
  <2>1. CASE Hits(key) = {} /\ \E i \in DOMAIN store : store[i].key = key
    <3> DEFINE i == CHOOSE i \in DOMAIN store : store[i].key = key
    <3>1. i \in DOMAIN store
      BY <2>1
    <3>2. AfterRead(key) = Deleted(i)
      BY <2>1 DEF AfterRead
    <3> QED
      BY <3>1, <3>2
  <2>2. CASE ~(Hits(key) = {} /\ \E i \in DOMAIN store : store[i].key = key)
    BY <2>2 DEF AfterRead
  <2> QED
    BY <2>1, <2>2
<1> QED
  BY <1>1, <1>2, <1>3

LEMMA WriteKeeps ==
    ASSUME StoreOK(store), NEW key \in Keys, NEW ans \in Answer, clock \in 0 .. MaxTime
    PROVE  StoreOK(AfterWrite(key, ans))
<1> USE StackAssumption
<1> DEFINE new == [key |-> key, ans |-> ans, time |-> clock]
           n == Len(store)
           t == Put(key, ans)
<1>1. new \in Cached /\ new.key = key
  BY DEF Cached, Keys
<1> HIDE DEF new
<1>2. /\ n \in Nat /\ DOMAIN store = 1 .. n /\ n <= MaxEntries /\ store \in Seq(Cached)
      /\ \A j \in 1 .. n : store[j] \in Cached
  BY DEF StoreOK
<1> HIDE DEF n
<1>3. t \in Seq(Cached) /\ Len(t) <= MaxEntries + 1 /\ Unique(t)
  <2>1. CASE \E i \in DOMAIN store : store[i].key = key
    <3>1. t = [i \in 1 .. n |-> IF store[i].key = key THEN new ELSE store[i]]
      BY <1>2, <2>1 DEF Put, new
    <3> HIDE DEF t
    <3>2. t \in [1 .. n -> Cached] /\ DOMAIN t = 1 .. n
      BY <1>1, <1>2, <3>1
    <3>3. t \in Seq(Cached) /\ Len(t) = n
      BY <1>2, <3>2
    <3>4. \A i \in 1 .. n : t[i].key = store[i].key
      BY <1>1, <3>1
    <3>5. Unique(t)
      BY <1>2, <3>2, <3>4 DEF Unique, StoreOK
    <3> QED
      BY <1>2, <3>3, <3>5
  <2>2. CASE ~\E i \in DOMAIN store : store[i].key = key
    <3>1. t = Append(store, new)
      BY <2>2 DEF Put, new
    <3> HIDE DEF t
    <3>2. /\ t \in Seq(Cached) /\ Len(t) = n + 1 /\ DOMAIN t = 1 .. n + 1
          /\ t[n + 1] = new /\ \A i \in 1 .. n : t[i] = store[i]
      BY <1>1, <1>2, <3>1 DEF n
    <3>3. Unique(t)
      <4> SUFFICES ASSUME NEW i \in 1 .. n + 1, NEW j \in 1 .. n + 1, t[i].key = t[j].key
                   PROVE  i = j
        BY <3>2 DEF Unique
      <4>1. \A k \in 1 .. n : t[k].key # key
        BY <1>2, <2>2, <3>2
      <4>2. CASE i = n + 1 \/ j = n + 1
        BY <1>1, <1>2, <3>2, <4>1, <4>2
      <4>3. CASE i # n + 1 /\ j # n + 1
        <5>1. i \in 1 .. n /\ j \in 1 .. n
          BY <1>2, <4>3
        <5> QED
          BY <1>2, <3>2, <5>1 DEF Unique, StoreOK
      <4> QED
        BY <4>2, <4>3
    <3> QED
      BY <1>2, <3>2, <3>3
  <2> QED
    BY <2>1, <2>2
<1>4. CASE Len(t) > MaxEntries
  <2>1. AfterWrite(key, ans) = Tail(t)
    BY <1>4 DEF AfterWrite
  <2> HIDE DEF t
  <2>2. t # <<>>
    BY <1>3, <1>4
  <2>3. /\ Tail(t) \in Seq(Cached) /\ Len(Tail(t)) = Len(t) - 1 /\ Len(t) \in Nat
        /\ \A i \in 1 .. Len(t) - 1 : Tail(t)[i] = t[i + 1]
    BY <1>3, <2>2
  <2>4. Unique(Tail(t))
    <3>1. DOMAIN Tail(t) = 1 .. Len(t) - 1 /\ DOMAIN t = 1 .. Len(t)
      BY <1>3, <2>3
    <3>2. \A i \in 1 .. Len(t) - 1 : i + 1 \in 1 .. Len(t)
      BY <2>3
    <3> QED
      BY <1>3, <2>3, <3>1, <3>2 DEF Unique
  <2>5. Len(Tail(t)) <= MaxEntries
    BY <1>3, <2>3
  <2> QED
    BY <2>1, <2>3, <2>4, <2>5 DEF StoreOK
<1>5. CASE ~(Len(t) > MaxEntries)
  <2>1. AfterWrite(key, ans) = t
    BY <1>5 DEF AfterWrite
  <2> HIDE DEF t
  <2>2. Len(t) <= MaxEntries
    BY <1>3, <1>5
  <2> QED
    BY <1>3, <2>1, <2>2 DEF StoreOK
<1> QED
  BY <1>4, <1>5

(***************************************************************************)
(* What the outer layers keep: reports and recorded entries are of calls   *)
(* that succeeded, under the index and the prompt they began with.         *)
(***************************************************************************)
BooksInv ==
    /\ StoreOK(store)
    /\ \A c \in costs : call[c].pc = "done" /\ call[c].res \in Answer
    /\ \A e \in entries : e.caller \in costs /\ e.at = index[e.caller] /\ e.hash = prompt[e.caller]
    /\ IsFiniteSet(entries)

StackInv ==
    /\ TypeOK
    /\ \A c \in Caller : FrameInv(c)
    /\ IndexInv /\ ScriptInv /\ BooksInv

LEMMA FrameStep ==
    ASSUME StackInv, NEW c \in Caller, CallStep(c), index'[c] # 0 \/ ~Start(c)
    PROVE  /\ OwnFrame(c) /\ deadline' = deadline /\ cancelled' \subseteq Caller
           /\ \A d \in Caller : d # c => (d \in cancelled' <=> d \in cancelled)
<1>0. TypeOK /\ FrameInv(c) /\ ScriptInv /\ cancelled \subseteq Caller
  BY DEF StackInv, TypeOK
<1>1. OwnFrame(c)
  BY <1>0, StartFrame, ChunkFrame, ReplyFrame, FailFrame, AbandonFrame, FallbackUpFrame,
     RetryUpFrame, BackoffFrame, TimeoutUpFrame, DeliverFrame, CancelFrame, DeadlineFrame
     DEF CallStep
<1>2. deadline' = deadline /\ (cancelled' = cancelled \/ cancelled' = cancelled \cup {c})
  BY DEF CallStep, Start, Chunk, Reply, Fail, Abandon, FallbackUp, RetryUp, Backoff, TimeoutUp,
         Deliver, Cancel, Deadline
<1> QED
  BY <1>0, <1>1, <1>2

LEMMA ScriptStep ==
    ASSUME StackInv, NEW c \in Caller, CallStep(c)
    PROVE  ScriptInv' /\ \A d \in Caller : d # c => slot'[d] = slot[d]
<1>0. ScriptInv /\ FrameInv(c)
  BY DEF StackInv
<1>1. CASE UNCHANGED scriptVars
  BY <1>0, <1>1, ScriptUnchanged
<1>2. ASSUME NEW delivered \in BOOLEAN, Settle(c, delivered)
      PROVE  ScriptInv' /\ \A d \in Caller : d # c => slot'[d] = slot[d]
  BY <1>0, <1>2, SettleKeeps
<1>3. ASSUME NEW f, Ask(c, f), call[c].pc # "asleep"
      PROVE  ScriptInv' /\ \A d \in Caller : d # c => slot'[d] = slot[d]
  <2>1. slot[c] = 0
    BY <1>0, <1>3 DEF FrameInv
  <2> QED
    BY <1>0, <1>3, <2>1, AskScript
<1>t. ASSUME NEW f, NEW sig, TryModel(c, f, sig), call[c].pc # "asleep"
      PROVE  ScriptInv' /\ \A d \in Caller : d # c => slot'[d] = slot[d]
  BY <1>1, <1>3, <1>t DEF TryModel, Return
<1>4. CASE Start(c)
  <2>1. \/ UNCHANGED scriptVars
        \/ Ask(c, IF deadline = "chain" THEN Arm(call[c]) ELSE call[c]) /\ call[c].pc # "asleep"
    BY <1>4 DEF Start, Return
  <2> QED
    BY <1>1, <1>3, <2>1
<1>5. CASE Reply(c)
  BY <1>2, <1>5 DEF Reply
<1>6. CASE Fail(c)
  BY <1>2, <1>6 DEF Fail
<1>7. CASE Abandon(c)
  BY <1>2, <1>7 DEF Abandon
<1>8. CASE FallbackUp(c)
  <2>1. \/ UNCHANGED scriptVars
        \/ TryModel(c, [call[c] EXCEPT !.at = 2], Sig(c)) /\ call[c].pc # "asleep"
    BY <1>8 DEF FallbackUp
  <2> QED
    BY <1>1, <1>t, <2>1
<1>9. CASE Backoff(c)
  <2>1. \/ UNCHANGED scriptVars
        \/ TryModel(c, [call[c] EXCEPT !.tries = @ + 1, !.at = 1], Sig(c)) /\ call[c].pc # "asleep"
    BY <1>9 DEF Backoff, Return
  <2> QED
    BY <1>1, <1>t, <2>1
<1>10. CASE Chunk(c) \/ RetryUp(c) \/ TimeoutUp(c) \/ Deliver(c) \/ Cancel(c) \/ Deadline(c)
  BY <1>1, <1>10 DEF Chunk, RetryUp, TimeoutUp, Deliver, Cancel, Deadline
<1> QED
  BY <1>4, <1>5, <1>6, <1>7, <1>8, <1>9, <1>10 DEF CallStep

LEMMA IndexStep ==
    ASSUME StackInv, NEW c \in Caller, CallStep(c)
    PROVE  /\ IndexInv' /\ index' \in [Caller -> 0 .. Cardinality(Caller)]
           /\ \A d \in Caller : d # c => index'[d] = index[d]
           /\ IF Start(c) THEN index'[c] # 0 ELSE index' = index
<1>0. index \in [Caller -> 0 .. Cardinality(Caller)] /\ Cardinality(Caller) \in Nat /\ IndexInv
  BY RecordAssumption, FS_CardinalityType DEF StackInv, TypeOK, RecordTypeOK
<1>1. CASE Start(c)
  <2>1. Prepare(c) /\ index[c] = 0
    BY <1>1 DEF Start, StackInv, FrameInv
  <2>2. index \in [Caller -> Nat]
    BY <1>0
  <2> QED
    BY <1>0, <1>1, <2>1, <2>2, PrepareKeeps
<1>2. CASE ~Start(c)
  <2>1. index' = index
    BY <1>2 DEF CallStep, Chunk, Reply, Fail, Abandon, FallbackUp, RetryUp, Backoff, TimeoutUp,
           Deliver, Cancel, Deadline, recordVars
  <2> QED
    BY <1>0, <1>2, <2>1 DEF IndexInv, Called
<1> QED
  BY <1>1, <1>2

\* What the outer layers keep, and the recording.
LEMMA BooksStep ==
    ASSUME StackInv, NEW c \in Caller, CallStep(c)
    PROVE  BooksInv' /\ RecordTypeOK' /\ costs' \subseteq Caller
<1>0. /\ TypeOK /\ RecordTypeOK /\ FrameInv(c) /\ BooksInv /\ StoreOK(store)
      /\ costs \subseteq Caller /\ entries \subseteq Entry /\ clock \in 0 .. MaxTime
  <2>1. TypeOK /\ FrameInv(c) /\ BooksInv
    BY DEF StackInv
  <2>2. RecordTypeOK /\ costs \subseteq Caller /\ clock \in 0 .. MaxTime
    BY <2>1 DEF TypeOK
  <2> QED
    BY <2>1, <2>2 DEF RecordTypeOK, BooksInv
<1>1. /\ call' = [call EXCEPT ![c] = call'[c]] /\ call \in [Caller -> CallType]
      /\ \A d \in Caller : d # c => call'[d] = call[d]
  <2>1. OwnFrame(c)
    BY IndexStep, FrameStep
  <2> QED
    BY <1>0, <2>1 DEF OwnFrame, TypeOK
<1>2. /\ \A d \in Caller : d # c => index'[d] = index[d]
      /\ index' \in [Caller -> 0 .. Cardinality(Caller)]
      /\ call[c].pc # "idle" => index' = index
  <2>1. Start(c) => call[c].pc = "idle"
    BY DEF Start
  <2> QED
    BY <2>1, IndexStep
<1>3. UNCHANGED <<prompt, consumed, edited, strict, again, replayed>>
  BY DEF CallStep, Start, Chunk, Reply, Fail, Abandon, FallbackUp, RetryUp, Backoff, TimeoutUp,
         Deliver, Cancel, Deadline, recordVars
<1>4. \A e \in entries : /\ e.caller \in costs /\ e.caller \in Caller /\ e.hash = prompt'[e.caller]
                         /\ e.at = index'[e.caller]
  <2> TAKE e \in entries
  <2>1. e.caller \in costs /\ e.caller \in Caller /\ e.hash = prompt[e.caller] /\ e.at = index[e.caller]
    BY <1>0 DEF BooksInv
  <2>2. call[e.caller].pc = "done"
    BY <1>0, <2>1 DEF BooksInv
  <2>3. index'[e.caller] = index[e.caller]
    BY <1>2, <2>1, <2>2
  <2> QED
    BY <1>3, <2>1, <2>3
<1>5. CASE Deliver(c)
  <2>1. /\ call[c].pc = "up" /\ index' = index
        /\ call'[c].pc = "done" /\ call'[c].res = call[c].res
    <3>1. call' = [call EXCEPT ![c].pc = "done", ![c].layer = "cost", ![c].tries = 0, ![c].emitted = FALSE]
      BY <1>5 DEF Deliver
    <3>2. call[c].pc = "up"
      BY <1>5 DEF Deliver
    <3> QED
      BY <1>0, <1>2, <3>1, <3>2, FrameType DEF CallType
  <2>2. costs' = IF call[c].res \in Answer THEN costs \cup {c} ELSE costs
    BY <1>5 DEF Deliver, ReportCost
  <2>3. \A d \in costs' : d \in Caller /\ call'[d].pc = "done" /\ call'[d].res \in Answer
    BY <1>0, <1>1, <2>1, <2>2 DEF BooksInv
  <2>4. prompt[c] \in Keys
    BY <1>0 DEF RecordTypeOK, Keys
  <2>5. StoreOK(store')
    <3>1. store' = store \/ (call[c].res \in Answer /\ store' = AfterWrite(prompt[c], call[c].res))
      BY <1>5 DEF Deliver, WriteCache
    <3> QED
      BY <1>0, <2>4, <3>1, WriteKeeps
  <2> DEFINE x == [caller |-> c, at |-> index[c], hash |-> prompt[c]]
  <2>6. entries' = entries \/ (entries' = entries \cup {x} /\ c \in costs')
    BY <1>5, <2>2 DEF Deliver, Capture
  <2>7. x \in Entry /\ x.caller = c /\ x.at = index'[c] /\ x.hash = prompt'[c]
    <3>1. index[c] \in 1 .. Cardinality(Caller)
      <4>1. index[c] # 0 /\ index[c] \in 0 .. Cardinality(Caller)
        BY <1>0, <1>2, <2>1 DEF FrameInv
      <4> QED
        BY <4>1, RecordAssumption, FS_CardinalityType
    <3> QED
      BY <1>3, <2>1, <2>4, <3>1 DEF Entry, Keys
  <2> HIDE DEF x
  <2>8. \A e \in entries' : e.caller \in costs' /\ e.at = index'[e.caller] /\ e.hash = prompt'[e.caller]
    BY <1>4, <2>2, <2>6, <2>7
  <2>9. IsFiniteSet(entries')
    BY <1>0, <2>6, FS_AddElement DEF BooksInv
  <2>10. RecordTypeOK'
    <3>1. entries' \subseteq Entry /\ entries \subseteq entries'
      BY <1>0, <2>6, <2>7
    <3>2. replayed' \in [Caller -> SUBSET entries'] /\ consumed' \subseteq entries'
      BY <1>0, <1>3, <3>1 DEF RecordTypeOK
    <3> QED
      BY <1>0, <1>2, <1>3, <3>1, <3>2 DEF RecordTypeOK
  <2> QED
    BY <2>3, <2>5, <2>8, <2>9, <2>10 DEF BooksInv
<1>6. CASE ~Deliver(c)
  <2>1. entries' = entries /\ costs' = costs
    BY <1>6 DEF CallStep, Start, Chunk, Reply, Fail, Abandon, FallbackUp, RetryUp, Backoff, TimeoutUp,
         Cancel, Deadline, recordVars
  <2>2. StoreOK(store')
    <3>1. store' = store \/ store' = AfterRead(prompt[c])
      BY <1>6 DEF CallStep, Start, Chunk, Reply, Fail, Abandon, FallbackUp, RetryUp, Backoff,
         TimeoutUp, Cancel, Deadline
    <3> QED
      BY <1>0, <3>1, ReadKeeps
  <2>3. c \in costs => call'[c].pc = call[c].pc /\ call'[c].res = call[c].res
    <3> SUFFICES ASSUME c \in costs PROVE call'[c].pc = call[c].pc /\ call'[c].res = call[c].res
      OBVIOUS
    <3>1. call[c].pc = "done"
      BY <1>0 DEF BooksInv
    <3>2. Deadline(c)
      BY <1>6, <3>1 DEF CallStep, Start, Chunk, Reply, Fail, Abandon, FallbackUp, RetryUp, Backoff,
         TimeoutUp, Cancel
    <3> QED
      BY <1>1, <3>2, FrameType DEF Deadline, CallType
  <2>4. \A d \in costs' : call'[d].pc = "done" /\ call'[d].res \in Answer
    BY <1>0, <1>1, <2>1, <2>3 DEF BooksInv
  <2>5. \A e \in entries' : e.caller \in costs' /\ e.at = index'[e.caller] /\ e.hash = prompt'[e.caller]
    BY <1>4, <2>1
  <2>6. RecordTypeOK'
    BY <1>0, <1>2, <1>3, <2>1 DEF RecordTypeOK
  <2> QED
    BY <1>0, <2>1, <2>2, <2>4, <2>5, <2>6 DEF BooksInv
<1> QED
  BY <1>5, <1>6

LEMMA CallStepKeeps ==
    ASSUME StackInv, NEW c \in Caller, CallStep(c)
    PROVE  StackInv'
<1>1. /\ OwnFrame(c) /\ deadline' = deadline /\ cancelled' \subseteq Caller
      /\ \A d \in Caller : d # c => (d \in cancelled' <=> d \in cancelled)
  BY IndexStep, FrameStep
<1>2. ScriptInv' /\ \A d \in Caller : d # c => slot'[d] = slot[d]
  BY ScriptStep
<1>3. IndexInv' /\ \A d \in Caller : d # c => index'[d] = index[d]
  BY IndexStep
<1>4. BooksInv' /\ RecordTypeOK' /\ costs' \subseteq Caller
  BY BooksStep
<1>5. clock' = clock
  BY DEF CallStep, Start, Chunk, Reply, Fail, Abandon, FallbackUp, RetryUp, Backoff, TimeoutUp,
         Deliver, Cancel, Deadline
<1>6. TypeOK /\ \A d \in Caller : FrameInv(d)
  BY DEF StackInv
<1>7. \A d \in Caller : FrameInv(d)'
  <2> TAKE d \in Caller
  <2>1. CASE d = c
    BY <1>1, <2>1 DEF OwnFrame
  <2>2. CASE d # c
    BY <1>1, <1>2, <1>3, <1>6, <2>2, OtherFrame DEF OwnFrame
  <2> QED
    BY <2>1, <2>2
<1>8. TypeOK'
  <2>1. call' \in [Caller -> CallType]
    BY <1>1, <1>6 DEF OwnFrame, TypeOK
  <2>2. store' \in Seq(Cached)
    BY <1>4 DEF BooksInv, StoreOK
  <2>3. deadline' \in {"chain", "each"} /\ clock' \in 0 .. MaxTime
    BY <1>1, <1>5, <1>6 DEF TypeOK
  <2>4. /\ slot' \in [Caller -> 0 .. Turns] /\ cursor' \in 0 .. Turns
        /\ released' \subseteq 1 .. Turns /\ spent' \subseteq 1 .. Turns
    BY <1>2 DEF ScriptInv, ScriptType
  <2> QED
    BY <1>1, <1>4, <2>1, <2>2, <2>3, <2>4 DEF TypeOK
<1> QED
  BY <1>2, <1>3, <1>4, <1>7, <1>8 DEF StackInv

\* A step that leaves the calls, the script, the cache and the indices alone.
LEMMA QuietStep ==
    ASSUME StackInv, UNCHANGED <<prompt, index, entries, deadline, call, cancelled, store, scriptVars, costs>>,
           RecordTypeOK', clock' \in 0 .. MaxTime
    PROVE  StackInv'
<1>1. TypeOK /\ (\A d \in Caller : FrameInv(d)) /\ IndexInv /\ ScriptInv /\ BooksInv
  BY DEF StackInv
<1>2. TypeOK'
  BY <1>1 DEF TypeOK, scriptVars
<1>3. \A d \in Caller : FrameInv(d)'
  BY <1>1 DEF FrameInv, Below, scriptVars
<1>4. IndexInv' /\ ScriptInv'
  BY <1>1, ScriptUnchanged DEF IndexInv, Called
<1>5. BooksInv'
  BY <1>1 DEF BooksInv, StoreOK, Unique
<1> QED
  BY <1>2, <1>3, <1>4, <1>5 DEF StackInv

\* take() answers with at most one of the entries not handed out yet.
LEMMA TakeOf ==
    ASSUME RecordTypeOK, NEW hash
    PROVE  /\ Take(hash) \in SUBSET Unconsumed
           /\ Take(hash) = {} \/ \E e \in Unconsumed : Take(hash) = {e}
           /\ Matches(hash) # {} /\ Take(hash) # {} => \E e \in Matches(hash) : Take(hash) = {e}
           /\ strict = "strict" /\ Take(hash) # {} => Matches(hash) # {}
<1>1. \A e \in entries : e.at \in Nat
  BY DEF RecordTypeOK, Entry
<1>2. Matches(hash) \subseteq Unconsumed /\ Unconsumed \subseteq entries
  BY DEF Matches, Unconsumed
<1>3. ASSUME NEW E \in SUBSET entries, E # {} PROVE Earliest(E) \in E
  BY <1>1, <1>3, EarliestOf
<1>4. CASE Take(hash) = {}
  BY <1>4
<1>5. CASE Matches(hash) # {} /\ Take(hash) = {Earliest(Matches(hash))}
  <2>1. Earliest(Matches(hash)) \in Matches(hash)
    BY <1>2, <1>3, <1>5
  <2> QED
    BY <1>2, <1>5, <2>1
<1>6. CASE Matches(hash) = {} /\ Unconsumed # {} /\ strict # "strict" /\ Take(hash) = {Earliest(Unconsumed)}
  <2>1. Earliest(Unconsumed) \in Unconsumed
    BY <1>2, <1>3, <1>6
  <2> QED
    BY <1>6, <2>1
<1> QED
  BY <1>4, <1>5, <1>6 DEF Take

LEMMA ReplayRecordType ==
    ASSUME RecordTypeOK, OpenReplay \/ \E c \in Caller : ReplayCall(c)
    PROVE  RecordTypeOK' /\ UNCHANGED <<prompt, index, entries>>
<1>1. CASE OpenReplay
  BY <1>1 DEF OpenReplay, RecordTypeOK
<1>2. ASSUME NEW c \in Caller, ReplayCall(c)
      PROVE  RecordTypeOK' /\ UNCHANGED <<prompt, index, entries>>
  <2>0. PICK taken \in {Take(Digest(c)), {}} : \E given \in {taken, {}} :
           /\ consumed' = consumed \cup taken
           /\ replayed' = [replayed EXCEPT ![c] = given]
    BY <1>2 DEF ReplayCall
  <2>1. PICK given \in {taken, {}} :
           /\ consumed' = consumed \cup taken
           /\ replayed' = [replayed EXCEPT ![c] = given]
    BY <2>0
  <2>2. taken \in SUBSET entries /\ given \in SUBSET entries
    BY TakeOf DEF Unconsumed
  <2>3. again' \in Seq(Caller) /\ UNCHANGED <<prompt, index, entries, edited, strict>>
    BY <1>2 DEF ReplayCall, RecordTypeOK
  <2> QED
    BY <2>1, <2>2, <2>3 DEF RecordTypeOK
<1> QED
  BY <1>1, <1>2

LEMMA StackInit ==
    ASSUME Init
    PROVE  StackInv
<1> USE StackAssumption, RecordAssumption
<1>0. Cardinality(Caller) \in Nat
  BY FS_CardinalityType
<1>1. RecordTypeOK
  BY <1>0 DEF Init, RecordInit, RecordTypeOK
<1>2. Idle \in CallType
  BY DEF Idle, CallType, Layer, Signal
<1>3. ScriptType /\ TypeOK
  <2>1. ScriptType
    BY DEF Init, ScriptType
  <2>2. call \in [Caller -> CallType]
    BY <1>2 DEF Init
  <2>3. store \in Seq(Cached) /\ clock \in 0 .. MaxTime
    BY DEF Init
  <2> QED
    BY <1>1, <2>1, <2>2, <2>3 DEF Init, TypeOK, ScriptType
<1>4. ASSUME NEW c \in Caller PROVE FrameInv(c)
  <2>1. call[c] = Idle /\ index[c] = 0 /\ slot[c] = 0
    BY DEF Init, RecordInit
  <2> QED
    BY <2>1 DEF FrameInv, Idle, None, Below
<1>5. Called = {} /\ Cardinality(Called) = 0
  <2>1. Called = {}
    BY DEF Called, Init, RecordInit
  <2> QED
    BY <2>1, FS_EmptySet
<1>6. IndexInv
  BY <1>5 DEF IndexInv, Init, RecordInit
<1>7. ScriptInv
  BY <1>3 DEF ScriptInv, Held, Init
<1>8. BooksInv
  BY FS_EmptySet DEF BooksInv, StoreOK, Unique, Init, RecordInit
<1> QED
  BY <1>3, <1>4, <1>6, <1>7, <1>8 DEF StackInv

LEMMA StackStep ==
    ASSUME StackInv, [Next]_vars
    PROVE  StackInv'
<1>0. RecordTypeOK /\ clock \in 0 .. MaxTime
  BY DEF StackInv, TypeOK
<1>1. ASSUME NEW c \in Caller, CallStep(c) PROVE StackInv'
  BY <1>1, CallStepKeeps
<1>2. CASE Tick
  <2>1. UNCHANGED recordVars /\ clock' \in 0 .. MaxTime
    BY <1>0, <1>2, StackAssumption DEF Tick
  <2>2. RecordTypeOK'
    BY <1>0, <2>1 DEF RecordTypeOK, recordVars
  <2> QED
    BY <1>2, <2>1, <2>2, QuietStep DEF Tick, recordVars
<1>3. CASE Replay
  <2>1. RecordTypeOK' /\ UNCHANGED <<prompt, index, entries>>
    BY <1>0, <1>3, ReplayRecordType DEF Replay
  <2> QED
    BY <1>0, <1>3, <2>1, QuietStep DEF Replay, stackVars
<1>4. CASE UNCHANGED vars
  <2>1. RecordTypeOK'
    BY <1>0, <1>4 DEF RecordTypeOK, vars, recordVars
  <2> QED
    BY <1>0, <1>4, <2>1, QuietStep DEF vars, recordVars, stackVars
<1> QED
  BY <1>1, <1>2, <1>3, <1>4 DEF Next, CallStep

LEMMA StackInvHolds == Spec => []StackInv
BY StackInit, StackStep, PTL DEF Spec

(***************************************************************************)
(* What a call is told, and what the layers keep.                          *)
(***************************************************************************)
LEMMA SeenOf == StackInv => OneAnswerSeen
<1> SUFFICES ASSUME StackInv, NEW c \in Caller
             PROVE  /\ Cardinality(call[c].seen) <= 1
                    /\ (call[c].pc = "done" /\ call[c].res \in Answer) => call[c].seen \subseteq {call[c].asked}
  BY DEF OneAnswerSeen
<1>1. call[c].seen \in SUBSET {call[c].asked}
  BY DEF StackInv, FrameInv
<1>2. Cardinality(call[c].seen) <= 1
  <2>1. IsFiniteSet({call[c].asked}) /\ Cardinality({call[c].asked}) = 1
    BY FS_Singleton
  <2> QED
    BY <1>1, <2>1, FS_Subset
<1> QED
  BY <1>1, <1>2

LEMMA FailsOver == StackInv => DeadlineFailsOver
BY DEF StackInv, FrameInv, DeadlineFailsOver

LEMMA Conserved == ScriptInv => TurnsConserved
BY DEF ScriptInv, Held, TurnsConserved

LEMMA Matching == StackInv => AccountsMatch
<1> SUFFICES ASSUME StackInv PROVE AccountsMatch
  OBVIOUS
<1>1. StoreOK(store) /\ BooksInv
  BY DEF StackInv, BooksInv
<1>2. (\A e \in entries : e.caller \in costs) /\ \A c \in costs : call[c].res \in Answer
  BY <1>1 DEF BooksInv
<1> QED
  BY <1>1, <1>2 DEF AccountsMatch, StoreOK, Unique

\* An ask is made by a call whose signal, and whose deadline's, is quiet.
LEMMA AskedQuietly ==
    ASSUME TypeOK, NEW c \in Caller, FrameInv(c), CallStep(c), call'[c].asked > call[c].asked
    PROVE  c \notin cancelled /\ (deadline = "chain" => call[c].derived = None)
<1> DEFINE f == call[c]
<1>0. call \in [Caller -> CallType] /\ f \in CallType /\ f.asked \in Nat
  BY FrameType
<1>1. ASSUME NEW layer \in Layer, NEW res, Return(c, layer, res) PROVE FALSE
  <2>1. call'[c] = [f EXCEPT !.pc = "up", !.layer = layer, !.res = res]
    BY <1>0, <1>1 DEF Return, Up
  <2>2. call'[c].asked = f.asked
    BY <1>0, <2>1 DEF CallType
  <2> QED
    BY <1>0, <2>2
<1>2. ASSUME Sig(c) = None, deadline = "chain" => f.armed
      PROVE  c \notin cancelled /\ (deadline = "chain" => f.derived = None)
  BY <1>2, SigOf, FrameType DEF FrameInv
<1>3. CASE Start(c)
  <2>1. f = Idle
    BY <1>3 DEF Start, FrameInv
  <2>2. c \notin cancelled
    <3>1. "cost" \in Layer
      BY DEF Layer
    <3> QED
      BY <1>1, <1>3, <3>1 DEF Start
  <2> QED
    BY <2>1, <2>2 DEF Idle
<1>4. CASE FallbackUp(c)
  <2>1. f.pc = "up" /\ f.layer = "fallback"
    BY <1>4 DEF FallbackUp
  <2>2. deadline = "chain" => f.armed
    BY <2>1 DEF FrameInv, Below
  <2>3. ~Pass(c)
    <3>1. Pass(c) => call'[c].asked = f.asked
      BY <1>0 DEF Pass, CallType
    <3> QED
      BY <1>0, <3>1
  <2>4. Sig(c) = None
    <3>1. "retry" \in Layer
      BY DEF Layer
    <3> QED
      BY <1>1, <1>4, <2>3, <3>1 DEF FallbackUp, TryModel
  <2> QED
    BY <1>2, <2>2, <2>4
<1>5. CASE Backoff(c)
  <2>1. f.pc = "backoff"
    BY <1>5 DEF Backoff
  <2>2. deadline = "chain" => f.armed
    BY <2>1 DEF FrameInv, Below
  <2>3. Sig(c) = None
    <3>1. Above("retry") \in Layer
      BY DEF Above, Layer
    <3> QED
      BY <1>1, <1>5, <3>1 DEF Backoff
  <2> QED
    BY <1>2, <2>2, <2>3
<1>6. CASE Chunk(c) \/ TimeoutUp(c) \/ Deliver(c) \/ Cancel(c) \/ Deadline(c)
  <2>1. call'[c].asked = f.asked
    BY <1>0, <1>6 DEF Chunk, TimeoutUp, Deliver, Cancel, Deadline, CallType
  <2> QED
    BY <1>0, <2>1
<1>7. CASE Fail(c) \/ Abandon(c) \/ Reply(c) \/ RetryUp(c)
  <2>1. CASE Reply(c)
    <3> DEFINE g == IF f.at = 2 /\ c \in Streams
                    THEN [f EXCEPT !.emitted = TRUE, !.seen = @ \cup {f.asked}] ELSE f
    <3>1. call' = [call EXCEPT ![c] = Up(g, AboveModel(g), IF g.at = 1 THEN "big" ELSE "small")]
      BY <2>1 DEF Reply
    <3>2. call'[c].asked = f.asked
      BY <1>0, <3>1 DEF Up, CallType
    <3> QED
      BY <1>0, <3>2
  <2>2. CASE Fail(c) \/ Abandon(c)
    <3>1. call'[c].asked = f.asked
      BY <1>0, <2>2 DEF Fail, Abandon, Up, CallType
    <3> QED
      BY <1>0, <3>1
  <2>3. CASE RetryUp(c)
    <3>1. \/ call' = [call EXCEPT ![c].layer = Above(@)]
          \/ call' = [call EXCEPT ![c] = Up(f, Above("retry"), Sig(c))]
          \/ call' = [call EXCEPT ![c] = [f EXCEPT !.pc = "backoff"]]
      BY <2>3 DEF RetryUp, Pass
    <3>2. call'[c].asked = f.asked
      <4> HIDE DEF f
      <4>1. call[c] = f
        BY DEF f
      <4> QED
        BY <1>0, <3>1, <4>1 DEF Up, CallType
    <3> QED
      BY <1>0, <3>2
  <2> QED
    BY <1>7, <2>1, <2>2, <2>3
<1> QED
  BY <1>3, <1>4, <1>5, <1>6, <1>7 DEF CallStep

\* NoAttemptAfterStop, for every set of callers, retry limit and script: no
\* layer asks a model after the caller's cancel, nor, under a deadline around
\* the chain, after that deadline.
THEOREM StopsAreFinal == Spec => NoAttemptAfterStop
<1>1. ASSUME StackInv, [Next]_vars, NEW c \in Caller, call'[c].asked > call[c].asked
      PROVE  c \notin cancelled /\ (deadline = "chain" => call[c].derived = None)
  <2>0. TypeOK /\ FrameInv(c)
    BY <1>1 DEF StackInv
  <2>1. call'[c] # call[c]
    <3>1. call[c].asked \in Nat
      BY <2>0, FrameType
    <3> QED
      BY <1>1, <3>1
  <2>2. PICK d \in Caller : CallStep(d)
    <3>1. ~(Tick \/ Replay \/ UNCHANGED vars)
      BY <2>1 DEF Tick, Replay, vars, stackVars
    <3> QED
      BY <1>1, <3>1 DEF Next, CallStep
  <2>3. OwnFrame(d)
    BY <1>1, <2>2, IndexStep, FrameStep
  <2>4. d = c
    <3>1. call' = [call EXCEPT ![d] = call'[d]] /\ call \in [Caller -> CallType]
      BY <2>0, <2>3 DEF OwnFrame, TypeOK
    <3> QED
      BY <2>1, <3>1
  <2> QED
    BY <1>1, <2>0, <2>2, <2>4, AskedQuietly
<1>2. StackInv /\ [Next]_vars =>
        [\A c \in Caller : call'[c].asked > call[c].asked =>
            c \notin cancelled /\ (deadline = "chain" => call[c].derived = None)]_vars
  BY <1>1
<1> QED
  BY <1>2, StackInvHolds, PTL DEF Spec, NoAttemptAfterStop

\* BooksBalance, for every set of callers and prompts, cache limit and script:
\* each scripted turn is held by one call, given back or delivered, the cache
\* holds a prompt once and never too many, and only calls that succeeded are
\* reported and recorded.
THEOREM TheBooksBalance == Spec => []BooksBalance
<1>1. StackInv => TypeOK /\ ScriptInv
  BY DEF StackInv
<1>2. StackInv => BooksBalance
  BY <1>1, Conserved, Matching DEF BooksBalance
<1> QED
  BY <1>2, StackInvHolds, PTL

(***************************************************************************)
(* Replay.  Nothing is answered before replayModel is built, and it is     *)
(* built when the calls are done; from then on the entries are what they   *)
(* were.  Answered says what the calls made again were given: the entries  *)
(* handed out have a call of the same prompt each, so one is left for a    *)
(* call still to come, and calls made in the recorded order have consumed  *)
(* exactly the entries before theirs.                                      *)
(***************************************************************************)
AllRecorded == {f.caller : f \in entries} = Caller
InReach == Cardinality(entries) <= Window
Faithful == edited = {} /\ AllRecorded /\ InReach
Lockstep == \A i \in DOMAIN again : index[again[i]] = i /\ replayed[again[i]] # {}

Paired(g) ==
    /\ g \in [consumed -> Range(again)]
    /\ \A e, f \in consumed : g[e] = g[f] => e = f
    /\ \A e \in consumed : prompt[g[e]] = e.hash

Fresh == consumed = {} /\ edited = {} /\ again = <<>> /\ replayed = [c \in Caller |-> {}]

Answered ==
    /\ \A c \in Caller : replayed[c] \subseteq consumed /\ (replayed[c] # {} => c \in Range(again))
    /\ \A c, d \in Caller : c # d => replayed[c] \cap replayed[d] = {}
    /\ strict = "strict" \/ Faithful => \A c \in Caller : \A e \in replayed[c] : e.hash = prompt[c]
    /\ Faithful => \E g : Paired(g)
    /\ AllRecorded /\ Lockstep =>
           /\ consumed = {e \in entries : e.at <= Len(again)}
           /\ \A i \in DOMAIN again : \A e \in replayed[again[i]] : e.caller = again[i]

ReplayInv ==
    \/ strict = "unset" /\ Fresh
    \/ strict # "unset" /\ AllDone /\ Answered

LEMMA RangeAppend ==
    ASSUME NEW S, NEW s \in Seq(S), NEW x \in S
    PROVE  Range(Append(s, x)) = Range(s) \cup {x}
<1>1. DOMAIN Append(s, x) = DOMAIN s \cup {Len(s) + 1}
  OBVIOUS
<1>2. Append(s, x)[Len(s) + 1] = x /\ \A i \in DOMAIN s : Append(s, x)[i] = s[i]
  OBVIOUS
<1>3. Range(Append(s, x)) \subseteq Range(s) \cup {x}
  BY <1>1, <1>2 DEF Range
<1>4. Range(s) \cup {x} \subseteq Range(Append(s, x))
  BY <1>1, <1>2 DEF Range
<1> QED
  BY <1>3, <1>4

\* Entries are told apart by their index, and by their caller.
LEMMA EntryOf ==
    ASSUME StackInv, NEW e \in entries
    PROVE  /\ e \in Entry /\ e.caller \in Caller
           /\ e.at \in Nat /\ e.at # 0 /\ e.at = index[e.caller] /\ e.hash = prompt[e.caller]
           /\ e.hash # "edited"
           /\ \A f \in entries : f.at = e.at \/ f.caller = e.caller => f = e
<1>1. /\ \A f \in entries : f \in Entry /\ f.at = index[f.caller] /\ f.hash = prompt[f.caller]
      /\ \A c, d \in Caller : index[c] = index[d] /\ index[c] # 0 => c = d
      /\ prompt \in Prompts
  BY DEF StackInv, TypeOK, RecordTypeOK, BooksInv, IndexInv
<1>2. \A f \in Entry : /\ f.caller \in Caller /\ f.at \in Nat /\ f.at # 0
                       /\ f = [caller |-> f.caller, at |-> f.at, hash |-> f.hash]
  BY RecordAssumption, FS_CardinalityType DEF Entry
<1>3. \A f \in entries : f.at = e.at \/ f.caller = e.caller => f = e
  <2> SUFFICES ASSUME NEW f \in entries, f.at = e.at \/ f.caller = e.caller PROVE f = e
    OBVIOUS
  <2>1. f.caller = e.caller
    BY <1>1, <1>2
  <2> QED
    BY <1>1, <1>2, <2>1
<1> QED
  BY <1>1, <1>2, <1>3, RecordAssumption

\* Within reach, an exact match is found wherever it lies.
LEMMA InReachMatches ==
    ASSUME StackInv, InReach, NEW e \in Unconsumed
    PROVE  e \in Matches(e.hash)
<1>1. IsFiniteSet(entries) /\ e \in entries /\ Cardinality(entries) \in Nat
  BY FS_CardinalityType DEF StackInv, BooksInv, Unconsumed
<1> DEFINE first == Earliest(Unconsumed)
           B == {f \in entries : first.at <= f.at /\ f.at < e.at}
<1>2. B \subseteq entries \ {e}
  <2>1. e.at \in Nat
    BY <1>1, EntryOf
  <2> QED
    BY <2>1
<1>3. IsFiniteSet(entries \ {e}) /\ Cardinality(entries \ {e}) = Cardinality(entries) - 1
  BY <1>1, FS_RemoveElement
<1>4. IsFiniteSet(B) /\ Cardinality(B) <= Cardinality(entries) - 1 /\ Cardinality(B) \in Nat
  <2> HIDE DEF B
  <2>1. IsFiniteSet(B) /\ Cardinality(B) <= Cardinality(entries \ {e})
    BY <1>2, <1>3, FS_Subset
  <2> QED
    BY <1>3, <2>1, FS_CardinalityType
<1>5. Cardinality(B) < Window
  <2> HIDE DEF B
  <2> QED
    BY <1>1, <1>4, RecordAssumption DEF InReach
<1> QED
  BY <1>5 DEF Matches

\* As long as the entries handed out can be paired with calls of the same
\* prompt, a call still to come finds one of its own.
LEMMA OneLeft ==
    ASSUME StackInv, AllRecorded, NEW g, Paired(g), NEW c \in Caller, c \notin Range(again)
    PROVE  \E e \in Unconsumed : e.hash = prompt[c]
<1> SUFFICES ASSUME \A e \in Unconsumed : e.hash # prompt[c] PROVE FALSE
  OBVIOUS
<1> DEFINE E == {e \in entries : e.hash = prompt[c]}
           C == {d \in Caller : prompt[d] = prompt[c]}
           D == {d \in Range(again) : prompt[d] = prompt[c]}
           own == [e \in E |-> e.caller]
           pair == [e \in E |-> g[e]]
<1>1. IsFiniteSet(entries) /\ again \in Seq(Caller) /\ consumed \subseteq entries
  BY DEF StackInv, TypeOK, RecordTypeOK, BooksInv
<1>2. Range(again) \subseteq Caller
  BY <1>1 DEF Range
<1>3. E \subseteq consumed /\ E \subseteq entries /\ D \subseteq C /\ c \in C /\ c \notin D
  BY <1>1, <1>2 DEF Unconsumed
<1>4. IsFiniteSet(E) /\ IsFiniteSet(C) /\ IsFiniteSet(D)
  <2>1. IsFiniteSet(E)
    BY <1>1, <1>3, FS_Subset
  <2>2. C \subseteq Caller /\ IsFiniteSet(Caller)
    BY RecordAssumption
  <2>3. IsFiniteSet(C)
    BY <2>2, FS_Subset
  <2>4. IsFiniteSet(D)
    BY <1>3, <2>3, FS_Subset
  <2> QED
    BY <2>1, <2>3, <2>4
<1>5. own \in Surjection(E, C)
  <2>1. \A e \in E : e.caller \in C
    <3> SUFFICES ASSUME NEW e \in E PROVE e.caller \in C
      OBVIOUS
    <3> QED
      BY <1>3, EntryOf
  <2>2. ASSUME NEW d \in C PROVE \E e \in E : own[e] = d
    <3>1. PICK e \in entries : e.caller = d
      BY DEF AllRecorded
    <3>2. e.hash = prompt[c]
      BY <3>1, EntryOf
    <3> QED
      BY <3>1, <3>2
  <2>3. own \in [E -> C]
    <3> HIDE DEF E, C
    <3> QED
      BY <2>1
  <2> QED
    BY <2>2, <2>3 DEF Surjection
<1>6. pair \in Injection(E, D)
  <2>1. \A e \in E : g[e] \in D
    BY <1>3 DEF Paired
  <2>2. \A e, f \in E : g[e] = g[f] => e = f
    BY <1>3 DEF Paired
  <2> HIDE DEF E, D
  <2>3. pair \in [E -> D]
    BY <2>1
  <2> QED
    BY <2>2, <2>3 DEF Injection, IsInjective
<1> HIDE DEF E, C, D, own, pair
<1>7. Cardinality(C) <= Cardinality(E) /\ Cardinality(E) <= Cardinality(D)
  BY <1>4, <1>5, <1>6, FS_Surjection, FS_Injection
<1>8. Cardinality(D) <= Cardinality(C) /\ (Cardinality(C) = Cardinality(D) => C = D)
  BY <1>3, <1>4, FS_Subset
<1>9. Cardinality(C) \in Nat /\ Cardinality(D) \in Nat /\ Cardinality(E) \in Nat
  BY <1>4, FS_CardinalityType
<1> QED
  BY <1>3, <1>7, <1>8, <1>9

\* What take() answers with, for a call of a given digest.
LEMMA TakeOwnPrompt ==
    ASSUME StackInv, NEW c \in Caller, NEW e \in Take(Digest(c)),
           strict = "strict" \/ (Faithful /\ \E f \in Unconsumed : f.hash = prompt[c])
    PROVE  e \in Unconsumed /\ e.hash = prompt[c]
<1>0. RecordTypeOK
  BY DEF StackInv, TypeOK
<1>1. Take(Digest(c)) \in SUBSET Unconsumed /\ Unconsumed \subseteq entries
  BY <1>0, TakeOf DEF Unconsumed
<1>2. Matches(Digest(c)) # {}
  <2>1. CASE strict = "strict"
    BY <1>0, <2>1, TakeOf
  <2>2. CASE Faithful
    <3>1. Digest(c) = prompt[c]
      BY <2>2 DEF Digest, Faithful
    <3>2. ASSUME NEW f \in Unconsumed, f.hash = prompt[c] PROVE Matches(Digest(c)) # {}
      <4>1. f \in Matches(f.hash)
        BY <2>2, InReachMatches DEF Faithful
      <4> QED
        BY <3>1, <3>2, <4>1
    <3>3. CASE strict = "strict"
      BY <2>1, <3>3
    <3> QED
      BY <3>2, <3>3
  <2> QED
    BY <2>1, <2>2
<1>3. e \in Matches(Digest(c))
  BY <1>0, <1>2, TakeOf
<1>4. e.hash = Digest(c)
  BY <1>3 DEF Matches
<1>5. e.hash # "edited"
  BY <1>1, EntryOf
<1> QED
  BY <1>1, <1>4, <1>5 DEF Digest

\* When the entries before c's are the consumed ones, take() answers c with
\* its own: no entry of that digest is nearer, and an edited prompt gets the
\* earliest.
LEMMA TakeInOrder ==
    ASSUME StackInv, AllRecorded, NEW c \in Caller, NEW n \in Nat, index[c] = n + 1,
           consumed = {e \in entries : e.at <= n}, NEW e \in Take(Digest(c))
    PROVE  e.caller = c /\ e.at = n + 1 /\ Unconsumed \ {e} = {f \in entries : ~(f.at <= n + 1)}
<1>0. RecordTypeOK
  BY DEF StackInv, TypeOK
<1>1. PICK own \in entries : own.caller = c
  BY DEF AllRecorded
<1>2. /\ own.at = n + 1 /\ own.hash = prompt[c]
      /\ \A f \in entries : f.at \in Nat /\ (f.at = n + 1 => f = own)
  BY <1>1, EntryOf
<1>3. Unconsumed = {f \in entries : ~(f.at <= n)} /\ own \in Unconsumed
  BY <1>1, <1>2 DEF Unconsumed
<1>4. ASSUME NEW E \in SUBSET Unconsumed, own \in E PROVE Earliest(E) = own
  <2>1. E # {} /\ \A f \in E : f.at \in Nat
    BY <1>2, <1>3, <1>4
  <2>2. Earliest(E) \in E /\ Earliest(E).at <= own.at
    BY <1>4, <2>1, EarliestOf
  <2>3. Earliest(E).at = n + 1
    BY <1>2, <1>3, <2>2
  <2> QED
    BY <1>2, <1>3, <2>2, <2>3
<1>5. e = own
  <2>1. \/ Take(Digest(c)) = {Earliest(Unconsumed)}
        \/ Take(Digest(c)) = {Earliest(Matches(Digest(c)))} /\ Matches(Digest(c)) # {}
    BY DEF Take
  <2>2. CASE Take(Digest(c)) = {Earliest(Unconsumed)}
    BY <1>3, <1>4, <2>2
  <2>3. CASE Take(Digest(c)) = {Earliest(Matches(Digest(c)))} /\ Matches(Digest(c)) # {}
    <3>1. Matches(Digest(c)) \in SUBSET Unconsumed
      BY DEF Matches
    <3>2. c \notin edited
      <4>1. PICK f \in Matches(Digest(c)) : TRUE
        BY <2>3
      <4>2. f.hash = Digest(c) /\ f \in entries
        BY <1>3, <3>1 DEF Matches
      <4>3. f.hash # "edited"
        BY <4>2, EntryOf
      <4> QED
        BY <4>2, <4>3 DEF Digest
    <3>3. own \in Matches(Digest(c))
      <4> DEFINE first == Earliest(Unconsumed)
                 B == {f \in entries : first.at <= f.at /\ f.at < own.at}
      <4>1. first = own
        BY <1>3, <1>4
      <4>2. B = {}
        <5> HIDE DEF first
        <5> QED
          BY <1>2, <4>1
      <4>3. Cardinality(B) < Window
        <5> HIDE DEF B
        <5> QED
          BY <4>2, FS_EmptySet, RecordAssumption
      <4>4. own.hash = Digest(c)
        BY <1>2, <3>2 DEF Digest
      <4> QED
        BY <1>3, <4>3, <4>4 DEF Matches
    <3> QED
      BY <1>4, <2>3, <3>1, <3>3
  <2> QED
    BY <2>1, <2>2, <2>3
<1>6. Unconsumed \ {own} = {f \in entries : ~(f.at <= n + 1)}
  BY <1>2, <1>3
<1> QED
  BY <1>1, <1>2, <1>5, <1>6

LEMMA FreshIsAnswered ==
    ASSUME StackInv, Fresh, OpenReplay
    PROVE  strict' # "unset" /\ Answered'
<1>1. /\ strict' \in {"strict", "lenient"}
      /\ consumed' = {} /\ again' = <<>> /\ \A c \in Caller : replayed'[c] = {}
      /\ entries' = entries
  BY DEF OpenReplay, Fresh
<1>2. DOMAIN again' = {} /\ Len(again') = 0
  BY <1>1
<1>3. \E g : Paired(g)'
  <2>1. \A g : g \in [{} -> Range(again')] => Paired(g)'
    BY <1>1 DEF Paired
  <2>2. [e \in {} |-> e] \in [{} -> Range(again')]
    OBVIOUS
  <2> QED
    BY <2>1, <2>2
<1>4. consumed' = {e \in entries' : e.at <= Len(again')}
  <2>1. \A e \in entries : ~(e.at <= 0)
    <3> TAKE e \in entries
    <3>1. e.at \in Nat /\ e.at # 0
      BY EntryOf
    <3> QED
      BY <3>1
  <2> QED
    BY <1>1, <1>2, <2>1
<1> QED
  BY <1>1, <1>2, <1>3, <1>4 DEF Answered

LEMMA ReplayCallKeeps ==
    ASSUME StackInv, strict # "unset", Answered, NEW c \in Caller, ReplayCall(c)
    PROVE  Answered'
<1>0. /\ RecordTypeOK
      /\ c \notin Range(again) /\ again' = Append(again, c)
      /\ UNCHANGED <<prompt, index, entries, edited, strict>>
  BY DEF ReplayCall, StackInv, TypeOK
<1>1. PICK taken \in {Take(Digest(c)), {}} : \E given \in {taken, {}} :
         /\ consumed' = consumed \cup taken
         /\ replayed' = [replayed EXCEPT ![c] = given]
  BY DEF ReplayCall
<1>2. PICK given \in {taken, {}} :
         /\ consumed' = consumed \cup taken
         /\ replayed' = [replayed EXCEPT ![c] = given]
  BY <1>1
<1>3. again \in Seq(Caller) /\ replayed \in [Caller -> SUBSET entries] /\ consumed \subseteq entries
  BY <1>0 DEF RecordTypeOK
<1>4. /\ Range(again') = Range(again) \cup {c} /\ Len(again') = Len(again) + 1
      /\ DOMAIN again' = DOMAIN again \cup {Len(again) + 1}
      /\ DOMAIN again = 1 .. Len(again) /\ Len(again) \in Nat
      /\ again'[Len(again) + 1] = c /\ \A i \in DOMAIN again : again'[i] = again[i]
  BY <1>0, <1>3, RangeAppend
<1>5. replayed'[c] = given /\ \A d \in Caller : d # c => replayed'[d] = replayed[d]
  BY <1>2, <1>3
<1>6. /\ taken \subseteq Unconsumed /\ given \subseteq taken
      /\ Unconsumed \subseteq entries /\ Unconsumed \cap consumed = {}
      /\ taken = {} \/ (taken = Take(Digest(c)) /\ \E e \in Unconsumed : taken = {e})
  BY <1>0, <1>1, <1>2, TakeOf DEF Unconsumed
<1>7. \A d \in Caller : replayed'[d] \subseteq consumed' /\ (replayed'[d] # {} => d \in Range(again'))
  BY <1>2, <1>4, <1>5, <1>6 DEF Answered
<1>8. \A d, e \in Caller : d # e => replayed'[d] \cap replayed'[e] = {}
  <2>1. \A d \in Caller : d # c => replayed[d] \cap given = {}
    BY <1>6 DEF Answered
  <2> QED
    BY <1>5, <2>1 DEF Answered
<1>f. Faithful' <=> Faithful
  BY <1>0 DEF Faithful, AllRecorded, InReach
<1>9. ASSUME strict' = "strict" \/ Faithful', NEW e \in taken
      PROVE  e.hash = prompt[c]
  <2>1. e \in Take(Digest(c))
    BY <1>6, <1>9
  <2>2. CASE strict = "strict"
    BY <2>1, <2>2, TakeOwnPrompt
  <2>3. CASE Faithful
    <3>1. PICK g : Paired(g)
      BY <2>3 DEF Answered
    <3>2. \E f \in Unconsumed : f.hash = prompt[c]
      BY <1>0, <2>3, <3>1, OneLeft DEF Faithful
    <3> QED
      BY <2>1, <2>3, <3>2, TakeOwnPrompt
  <2> QED
    BY <1>0, <1>9, <1>f, <2>2, <2>3
<1>10. strict' = "strict" \/ Faithful' => \A d \in Caller : \A e \in replayed'[d] : e.hash = prompt'[d]
  BY <1>0, <1>5, <1>6, <1>9, <1>f DEF Answered
<1>11. Faithful' => \E g : Paired(g)'
  <2> SUFFICES ASSUME Faithful' PROVE \E g : Paired(g)'
    OBVIOUS
  <2>1. PICK g : Paired(g)
    BY <1>f DEF Answered
  <2>0. PICK h : h = [e \in consumed' |-> IF e \in consumed THEN g[e] ELSE c]
    OBVIOUS
  <2>2. \A e \in consumed : g[e] \in Range(again) /\ g[e] # c
    BY <1>0, <2>1 DEF Paired
  <2>3. h \in [consumed' -> Range(again')]
    BY <1>4, <2>0, <2>2
  <2>4. \A e \in consumed' : h[e] = IF e \in consumed THEN g[e] ELSE c
    BY <2>0
  <2>5. \A e \in consumed' : e \in consumed \/ taken = {e}
    BY <1>2, <1>6
  <2>6. \A e, f \in consumed' : h[e] = h[f] => e = f
    BY <2>1, <2>2, <2>4, <2>5 DEF Paired
  <2>7. \A e \in consumed' : prompt'[h[e]] = e.hash
    BY <1>0, <1>9, <2>1, <2>4, <2>5 DEF Paired
  <2>8. Paired(h)'
    BY <2>3, <2>6, <2>7 DEF Paired
  <2> QED
    BY <2>8
<1>12. AllRecorded' /\ Lockstep' =>
         /\ consumed' = {e \in entries' : e.at <= Len(again')}
         /\ \A i \in DOMAIN again' : \A e \in replayed'[again'[i]] : e.caller = again'[i]
  <2> SUFFICES ASSUME AllRecorded', Lockstep'
               PROVE  /\ consumed' = {e \in entries' : e.at <= Len(again')}
                      /\ \A i \in DOMAIN again' : \A e \in replayed'[again'[i]] : e.caller = again'[i]
    OBVIOUS
  <2> DEFINE n == Len(again)
  <2>1. AllRecorded
    BY <1>0 DEF AllRecorded
  <2>2. \A i \in DOMAIN again : again[i] \in Caller /\ again[i] # c
    BY <1>0, <1>3 DEF Range
  <2>3. Lockstep
    BY <1>0, <1>4, <1>5, <2>2 DEF Lockstep
  <2>4. index[c] = n + 1 /\ given # {}
    BY <1>0, <1>4, <1>5 DEF Lockstep
  <2>5. /\ consumed = {e \in entries : e.at <= n}
        /\ \A i \in DOMAIN again : \A e \in replayed[again[i]] : e.caller = again[i]
    BY <2>1, <2>3 DEF Answered
  <2>6. PICK e : e \in Take(Digest(c)) /\ taken = {e} /\ given = {e}
    BY <1>2, <1>6, <2>4
  <2>7. e.caller = c /\ Unconsumed \ {e} = {f \in entries : ~(f.at <= n + 1)}
    BY <1>4, <2>1, <2>4, <2>5, <2>6, TakeInOrder
  <2>8. consumed' = {f \in entries' : f.at <= Len(again')}
    <3>1. consumed' = consumed \cup {e} /\ consumed' \subseteq entries
      BY <1>2, <1>3, <1>6, <2>6
    <3>2. entries \ consumed' = Unconsumed \ {e}
      BY <3>1 DEF Unconsumed
    <3>3. consumed' = {f \in entries : f.at <= n + 1}
      BY <2>7, <3>1, <3>2
    <3> QED
      BY <1>0, <1>4, <3>3
  <2>9. \A i \in DOMAIN again' : \A f \in replayed'[again'[i]] : f.caller = again'[i]
    BY <1>4, <1>5, <2>2, <2>5, <2>6, <2>7
  <2> QED
    BY <2>8, <2>9
<1> QED
  BY <1>7, <1>8, <1>10, <1>11, <1>12 DEF Answered

LEMMA ReplayInvKept ==
    ASSUME UNCHANGED recordVars
    PROVE  /\ Fresh => Fresh'
           /\ Answered => Answered'
<1>1. Fresh => Fresh'
  BY DEF Fresh, recordVars
<1>2. Faithful' = Faithful /\ AllRecorded' = AllRecorded /\ Lockstep' = Lockstep
  BY DEF Faithful, AllRecorded, InReach, Lockstep, recordVars
<1>3. ASSUME NEW g, Paired(g) PROVE Paired(g)'
  BY <1>3 DEF Paired, recordVars
<1>4. Answered => Answered'
  BY <1>2, <1>3 DEF Answered, recordVars
<1> QED
  BY <1>1, <1>4

LEMMA ReplayStep ==
    ASSUME StackInv, ReplayInv, [Next]_vars
    PROVE  ReplayInv'
<1>0. TypeOK /\ call \in [Caller -> CallType]
  BY DEF StackInv, TypeOK
<1>1. CASE UNCHANGED recordVars /\ (AllDone => AllDone')
  <2>1. strict' = strict
    BY <1>1 DEF recordVars
  <2> QED
    BY <1>1, <2>1, ReplayInvKept DEF ReplayInv
<1>2. CASE Replay
  <2>1. AllDone /\ AllDone'
    BY <1>2 DEF Replay, AllDone, stackVars
  <2>2. CASE OpenReplay
    BY <2>1, <2>2, FreshIsAnswered DEF ReplayInv, OpenReplay
  <2>3. ASSUME NEW c \in Caller, ReplayCall(c) PROVE ReplayInv'
    <3>1. strict # "unset" /\ strict' = strict
      BY <2>3 DEF ReplayCall
    <3> QED
      BY <2>1, <2>3, <3>1, ReplayCallKeeps DEF ReplayInv
  <2> QED
    BY <1>2, <2>2, <2>3 DEF Replay
<1>3. CASE Tick \/ UNCHANGED vars
  BY <1>1, <1>3 DEF Tick, vars, stackVars, recordVars, AllDone
<1>4. ASSUME NEW c \in Caller, CallStep(c) PROVE ReplayInv'
  <2>1. UNCHANGED <<prompt, consumed, edited, strict, again, replayed>>
    BY <1>4 DEF CallStep, Start, Chunk, Reply, Fail, Abandon, FallbackUp, RetryUp, Backoff, TimeoutUp,
       Deliver, Cancel, Deadline, recordVars
  <2>2. CASE strict = "unset"
    BY <2>1, <2>2 DEF ReplayInv, Fresh
  <2>3. CASE strict # "unset"
    <3>1. AllDone
      BY <2>3 DEF ReplayInv
    <3>2. Deadline(c)
      <4>1. call[c].pc = "done"
        BY <3>1 DEF AllDone
      <4> QED
        BY <1>4, <4>1 DEF CallStep, Start, Chunk, Reply, Fail, Abandon, FallbackUp, RetryUp, Backoff,
           TimeoutUp, Deliver, Cancel
    <3>3. AllDone'
      <4>1. \A d \in Caller : call'[d].pc = call[d].pc
        BY <1>0, <3>2 DEF Deadline, CallType
      <4> QED
        BY <3>1, <4>1 DEF AllDone
    <3>4. UNCHANGED recordVars
      BY <3>2 DEF Deadline
    <3> QED
      BY <1>1, <3>3, <3>4
  <2> QED
    BY <2>2, <2>3
<1> QED
  BY <1>2, <1>3, <1>4 DEF Next, CallStep

LEMMA ReplayInit == Init => ReplayInv
BY DEF Init, RecordInit, ReplayInv, Fresh

LEMMA ReplayInvHolds == Spec => [](StackInv /\ ReplayInv)
BY ReplayInit, ReplayStep, StackInvHolds, PTL DEF Spec

\* A sequence that climbs through 1 .. n without a gap is the identity.
LEMMA Climbs ==
    ASSUME NEW n \in Nat, NEW s \in [1 .. n -> Nat],
           \A i, j \in 1 .. n : i < j => s[i] < s[j],
           {s[i] : i \in 1 .. n} = 1 .. n
    PROVE  \A i \in 1 .. n : s[i] = i
<1> DEFINE B == {i \in 1 .. n : s[i] # i}
<1> SUFFICES ASSUME B # {} PROVE FALSE
  OBVIOUS
<1>1. B \in SUBSET Nat
  OBVIOUS
<1>2. PICK m \in B : \A i \in B : m <= i
  <2> HIDE DEF B
  <2> QED
    BY <1>1, LeastOf
<1>3. m \in 1 .. n /\ s[m] # m /\ \A i \in 1 .. n : i < m => s[i] = i
  BY <1>2
<1> HIDE DEF B
<1>4. s[m] \in 1 .. n /\ s[m] > m
  <2>1. s[m] \in 1 .. n
    BY <1>3
  <2>2. ASSUME s[m] < m PROVE FALSE
    <3>1. s[s[m]] = s[m] /\ s[s[m]] < s[m]
      BY <1>3, <2>1, <2>2
    <3> QED
      BY <2>1, <3>1
  <2> QED
    BY <1>3, <2>1, <2>2
<1>5. PICK k \in 1 .. n : s[k] = m
  BY <1>3
<1>6. k < m \/ k = m \/ k > m
  BY <1>3
<1>7. k > m => s[m] < s[k]
  BY <1>3
<1> QED
  BY <1>3, <1>4, <1>5, <1>6, <1>7

LEMMA Owned == StackInv /\ ReplayInv => RepliesAreOwn
<1> SUFFICES ASSUME StackInv, ReplayInv, NEW c \in Caller, NEW e \in replayed[c]
             PROVE  /\ \A d \in Caller \ {c} : e \notin replayed[d]
                    /\ strict = "strict" \/ Faithful => e.hash = prompt[c]
                    /\ (/\ AllRecorded
                        /\ \A i, j \in DOMAIN again :
                              replayed[again[i]] # {} /\ (i < j => index[again[i]] < index[again[j]])
                        /\ {index[again[i]] : i \in DOMAIN again} = 1 .. Len(again)) => e.caller = c
  BY DEF RepliesAreOwn, Faithful, AllRecorded, InReach
<1>1. Answered
  BY DEF ReplayInv, Fresh
<1>2. ASSUME AllRecorded,
             \A i, j \in DOMAIN again :
                replayed[again[i]] # {} /\ (i < j => index[again[i]] < index[again[j]]),
             {index[again[i]] : i \in DOMAIN again} = 1 .. Len(again)
      PROVE  e.caller = c
  <2> DEFINE n == Len(again)
             s == [i \in 1 .. n |-> index[again[i]]]
  <2>1. again \in Seq(Caller) /\ index \in [Caller -> Nat]
    BY RecordAssumption, FS_CardinalityType DEF StackInv, TypeOK, RecordTypeOK
  <2>2. n \in Nat /\ DOMAIN again = 1 .. n /\ \A i \in 1 .. n : again[i] \in Caller
    BY <2>1
  <2>3. s \in [1 .. n -> Nat] /\ \A i \in 1 .. n : s[i] = index[again[i]]
    BY <2>1, <2>2
  <2>4. {s[i] : i \in 1 .. n} = 1 .. n /\ \A i, j \in 1 .. n : i < j => s[i] < s[j]
    BY <1>2, <2>2, <2>3
  <2>5. Lockstep
    <3> HIDE DEF n, s
    <3>1. \A i \in 1 .. n : s[i] = i
      BY <2>2, <2>3, <2>4, Climbs
    <3> QED
      BY <1>2, <2>2, <2>3, <3>1 DEF Lockstep
  <2>6. c \in Range(again)
    BY <1>1 DEF Answered
  <2>7. PICK i \in DOMAIN again : again[i] = c
    BY <2>6 DEF Range
  <2> QED
    BY <1>1, <1>2, <2>5, <2>7 DEF Answered
<1> QED
  BY <1>1, <1>2 DEF Answered

\* AnswersAreTrue, for every set of callers and prompts, retry limit, script
\* and window: a replayed answer is the call's own or at least one to its
\* prompt, a stream is of one model call, and a deadline of the first model
\* leads to the second.
THEOREM TheAnswersAreTrue == Spec => []AnswersAreTrue
<1>1. StackInv /\ ReplayInv => AnswersAreTrue
  BY SeenOf, FailsOver, Owned DEF AnswersAreTrue
<1> QED
  BY <1>1, ReplayInvHolds, PTL
===============================================================================
