-------------------------- MODULE RateLimitProofs --------------------------
(***************************************************************************)
(* Proofs about RateLimit, for every number of callers and permits, every  *)
(* interval and every bound.                                               *)
(***************************************************************************)
EXTENDS RateLimit, FiniteSetTheorems, TLAPS

LEMMA HoldersFinite == IsFiniteSet(Holders) /\ Cardinality(Holders) \in Nat
<1>1. Holders \in SUBSET Caller
  BY DEF Holders
<1> QED
  BY <1>1, RateLimitAssumption, FS_Subset, FS_CardinalityType

(***************************************************************************)
(* The gate: permits, queue and callers agree.  The parts need each other: *)
(* a permit goes to a queued caller because the queue is exact, and only   *)
(* a full gate has a queue.                                                *)
(***************************************************************************)
GateOK ==
    /\ pc \in [Caller -> PC]
    /\ active \in 0 .. Concurrency
    /\ waiting \in Seq(Caller)
    /\ QueueIsExact
    /\ PermitsBalance
    /\ NoIdlePermit

\* A caller that changes between two states in which it holds a permit, or
\* between two in which it neither holds nor waits, disturbs nothing.
LEMMA GateMove ==
    ASSUME GateOK, NEW c \in Caller, NEW to \in PC,
           pc' = [pc EXCEPT ![c] = to], UNCHANGED gateVars,
           pc[c] # "queued", to # "queued", pc[c] = "idle" <=> to = "idle"
    PROVE  GateOK'
<1> USE DEF GateOK
<1>1. pc' \in [Caller -> PC]
  OBVIOUS
<1>2. \A d \in Caller : pc'[d] = "queued" <=> pc[d] = "queued"
  OBVIOUS
<1>3. Holders' = Holders
  BY DEF Holders, PC
<1> QED
  BY <1>1, <1>2, <1>3 DEF QueueIsExact, PermitsBalance, NoIdlePermit, gateVars

\* release(): the permit stays with one holder fewer, or passes to the head.
LEMMA GateRelease ==
    ASSUME GateOK, NEW c \in Holders, Release(c)
    PROVE  GateOK'
<1> USE DEF GateOK
<1>0. c \in Caller /\ pc[c] # "queued" /\ pc[c] # "idle"
  BY DEF Holders
<1>1. CASE waiting = <<>>
  <2>1. pc' = [pc EXCEPT ![c] = "idle"] /\ active' = active - 1 /\ waiting' = waiting
    BY <1>1 DEF Release
  <2>2. Holders' = Holders \ {c}
    BY <1>0, <2>1 DEF Holders
  <2>3. Cardinality(Holders') = Cardinality(Holders) - 1
    BY <2>2, HoldersFinite, FS_RemoveElement
  <2>4. Cardinality(Holders') \in Nat
    BY <2>2, HoldersFinite, FS_RemoveElement, FS_CardinalityType
  <2>5. active' \in 0 .. Concurrency /\ PermitsBalance'
    BY <2>1, <2>3, <2>4, RateLimitAssumption DEF PermitsBalance
  <2>6. \A d \in Caller : pc'[d] = "queued" <=> pc[d] = "queued"
    BY <1>0, <2>1
  <2>7. QueueIsExact'
    BY <2>1, <2>6 DEF QueueIsExact
  <2> QED
    BY <1>0, <1>1, <2>1, <2>5, <2>7 DEF PC, NoIdlePermit
<1>2. CASE waiting # <<>>
  <2> DEFINE h == Head(waiting)
  <2>1. /\ pc' = [pc EXCEPT ![c] = "idle", ![h] = "granted"]
        /\ active' = active /\ waiting' = Tail(waiting)
    BY <1>2 DEF Release
  <2>2. /\ Len(waiting) \in Nat \ {0} /\ h = waiting[1] /\ 1 \in DOMAIN waiting
        /\ waiting' \in Seq(Caller) /\ Len(waiting') = Len(waiting) - 1
        /\ \A i \in 1 .. Len(waiting) - 1 : waiting'[i] = waiting[i + 1]
    BY <1>2, <2>1
  <2>3. h \in Caller /\ pc[h] = "queued" /\ h # c
    BY <1>0, <2>2 DEF QueueIsExact
  <2>4. Holders' = (Holders \ {c}) \cup {h} /\ h \notin Holders \ {c}
    BY <1>0, <2>1, <2>3 DEF Holders
  <2>5. Cardinality(Holders') = Cardinality(Holders)
    <3>1. /\ IsFiniteSet(Holders \ {c})
          /\ Cardinality(Holders \ {c}) = Cardinality(Holders) - 1
      BY HoldersFinite, FS_RemoveElement
    <3>2. Cardinality(Holders') = Cardinality(Holders \ {c}) + 1
      BY <2>4, <3>1, FS_AddElement
    <3> QED
      BY <3>1, <3>2, HoldersFinite
  <2>6. PermitsBalance' /\ NoIdlePermit'
    BY <1>2, <2>1, <2>5 DEF PermitsBalance, NoIdlePermit
  <2>7. \A d \in Caller : pc'[d] = "queued" <=> pc[d] = "queued" /\ d # h
    BY <1>0, <2>1, <2>3
  <2>8. \A i, j \in DOMAIN waiting' : waiting'[i] = waiting'[j] => i = j
    <3> TAKE i, j \in DOMAIN waiting'
    <3>1. /\ i \in 1 .. Len(waiting) - 1 /\ j \in 1 .. Len(waiting) - 1
          /\ i + 1 \in DOMAIN waiting /\ j + 1 \in DOMAIN waiting
      BY <2>2
    <3>2. waiting[i + 1] = waiting[j + 1] => i + 1 = j + 1
      BY <3>1 DEF QueueIsExact
    <3> QED
      BY <2>2, <3>1, <3>2
  <2>9. {waiting'[i] : i \in DOMAIN waiting'} = {d \in Caller : pc'[d] = "queued"}
    <3>1. ASSUME NEW i \in DOMAIN waiting'
          PROVE  waiting'[i] \in Caller /\ pc'[waiting'[i]] = "queued"
      <4>1. i \in 1 .. Len(waiting) - 1 /\ i + 1 \in DOMAIN waiting /\ i + 1 # 1
        BY <2>2
      <4>2. waiting[i + 1] # h /\ waiting[i + 1] \in Caller /\ pc[waiting[i + 1]] = "queued"
        BY <2>2, <4>1 DEF QueueIsExact
      <4> QED
        BY <2>2, <2>7, <4>1, <4>2
    <3>2. ASSUME NEW d \in Caller, pc'[d] = "queued"
          PROVE  \E i \in DOMAIN waiting' : waiting'[i] = d
      <4>1. pc[d] = "queued" /\ d # h
        BY <2>7, <3>2
      <4>2. PICK i \in DOMAIN waiting : waiting[i] = d
        BY <4>1 DEF QueueIsExact
      <4>3. i # 1
        BY <2>2, <4>1, <4>2
      <4>4. i - 1 \in 1 .. Len(waiting) - 1 /\ i - 1 \in DOMAIN waiting' /\ (i - 1) + 1 = i
        BY <2>2, <4>3
      <4> QED
        BY <2>2, <4>2, <4>4
    <3> QED
      BY <3>1, <3>2
  <2> QED
    BY <1>0, <2>1, <2>2, <2>3, <2>6, <2>8, <2>9 DEF PC, QueueIsExact
<1> QED
  BY <1>1, <1>2

\* A caller that queues up behind a full gate.
LEMMA GateQueue ==
    ASSUME GateOK, NEW c \in Caller, pc[c] = "idle", Full, UNCHANGED active,
           waiting' = Append(waiting, c), pc' = [pc EXCEPT ![c] = "queued"]
    PROVE  GateOK'
<1> USE DEF GateOK
<1>1. /\ waiting' \in Seq(Caller) /\ Len(waiting) \in Nat /\ Len(waiting') = Len(waiting) + 1
      /\ waiting'[Len(waiting) + 1] = c
      /\ \A i \in 1 .. Len(waiting) : waiting'[i] = waiting[i]
      /\ DOMAIN waiting = 1 .. Len(waiting) /\ DOMAIN waiting' = 1 .. Len(waiting) + 1
  OBVIOUS
<1>2. pc' \in [Caller -> PC]
  BY DEF PC
<1>3. Holders' = Holders
  BY DEF Holders
<1>4. active = Concurrency
  BY RateLimitAssumption DEF Full
<1>5. \A d \in Caller : pc'[d] = "queued" <=> pc[d] = "queued" \/ d = c
  OBVIOUS
<1>6. \A i \in DOMAIN waiting : waiting[i] \in Caller /\ waiting[i] # c /\ pc[waiting[i]] = "queued"
  BY DEF QueueIsExact
<1>7. \A i, j \in DOMAIN waiting' : waiting'[i] = waiting'[j] => i = j
  <2> TAKE i, j \in DOMAIN waiting'
  <2>1. CASE i \in 1 .. Len(waiting) /\ j \in 1 .. Len(waiting)
    BY <2>1, <1>1 DEF QueueIsExact
  <2>2. CASE i = Len(waiting) + 1 \/ j = Len(waiting) + 1
    BY <2>2, <1>1, <1>6
  <2> QED
    BY <2>1, <2>2, <1>1
<1>8. {waiting'[i] : i \in DOMAIN waiting'} = {d \in Caller : pc'[d] = "queued"}
  <2>1. ASSUME NEW i \in DOMAIN waiting'
        PROVE  waiting'[i] \in Caller /\ pc'[waiting'[i]] = "queued"
    BY <1>1, <1>5, <1>6
  <2>2. ASSUME NEW d \in Caller, pc'[d] = "queued"
        PROVE  \E i \in DOMAIN waiting' : waiting'[i] = d
    <3>1. CASE d = c
      BY <3>1, <1>1
    <3>2. CASE d # c
      <4>1. PICK i \in DOMAIN waiting : waiting[i] = d
        BY <2>2, <3>2, <1>5 DEF QueueIsExact
      <4> QED
        BY <4>1, <1>1
    <3> QED
      BY <3>1, <3>2
  <2> QED
    BY <2>1, <2>2
<1> QED
  BY <1>1, <1>2, <1>3, <1>4, <1>7, <1>8 DEF QueueIsExact, PermitsBalance, NoIdlePermit

\* A caller that finds a free permit takes it: then nobody was waiting.
LEMMA GateEnter ==
    ASSUME GateOK, NEW c \in Caller, pc[c] = "idle", ~Full, UNCHANGED waiting,
           active' = active + 1, NEW to \in {"pacing", "calling"}, pc' = [pc EXCEPT ![c] = to]
    PROVE  GateOK'
<1> USE DEF GateOK
<1>1. pc' \in [Caller -> PC]
  BY DEF PC
<1>2. active' \in 0 .. Concurrency /\ waiting = <<>>
  BY RateLimitAssumption DEF Full, NoIdlePermit
<1>3. Holders' = Holders \cup {c} /\ c \notin Holders
  BY DEF Holders
<1>4. Cardinality(Holders') = Cardinality(Holders) + 1
  BY <1>3, HoldersFinite, FS_AddElement
<1>5. \A d \in Caller : pc'[d] = "queued" <=> pc[d] = "queued"
  OBVIOUS
<1> QED
  BY <1>1, <1>2, <1>4, <1>5 DEF QueueIsExact, PermitsBalance, NoIdlePermit

\* What splicing a caller out of the queue leaves: everybody else, in order.
LEMMA Spliced ==
    ASSUME GateOK, NEW c \in Caller, InLine(c)
    PROVE  /\ Place(c) \in DOMAIN waiting /\ waiting[Place(c)] = c
           /\ Dequeued(c) \in Seq(Caller) /\ Len(Dequeued(c)) = Len(waiting) - 1
           /\ Len(waiting) \in Nat \ {0}
           /\ \A i \in 1 .. Len(waiting) - 1 :
                 Dequeued(c)[i] = IF i < Place(c) THEN waiting[i] ELSE waiting[i + 1]
<1> DEFINE at == Place(c)
           left == SubSeq(waiting, 1, at - 1)
           right == SubSeq(waiting, at + 1, Len(waiting))
<1> USE DEF GateOK
<1>1. at \in DOMAIN waiting /\ waiting[at] = c
  BY DEF InLine, Place
<1>2. at \in 1 .. Len(waiting) /\ Len(waiting) \in Nat \ {0}
  BY <1>1
<1> HIDE DEF at
<1>3. /\ left \in Seq(Caller) /\ Len(left) = at - 1
      /\ \A i \in 1 .. at - 1 : left[i] = waiting[i]
  BY <1>2
<1>4. /\ right \in Seq(Caller) /\ Len(right) = Len(waiting) - at
      /\ \A i \in 1 .. Len(waiting) - at : right[i] = waiting[at + i]
  BY <1>2
<1> HIDE DEF left, right
<1>5. /\ left \o right \in Seq(Caller) /\ Len(left \o right) = Len(waiting) - 1
      /\ \A i \in 1 .. Len(waiting) - 1 :
            (left \o right)[i] = IF i <= at - 1 THEN left[i] ELSE right[i - (at - 1)]
  BY <1>2, <1>3, <1>4
<1>6. ASSUME NEW i \in 1 .. Len(waiting) - 1
      PROVE  (left \o right)[i] = IF i < at THEN waiting[i] ELSE waiting[i + 1]
  <2>1. CASE i < at
    BY <2>1, <1>2, <1>3, <1>5
  <2>2. CASE ~(i < at)
    <3>1. i - (at - 1) \in 1 .. Len(waiting) - at /\ at + (i - (at - 1)) = i + 1
      BY <2>2, <1>2
    <3> QED
      BY <2>2, <3>1, <1>2, <1>4, <1>5
  <2> QED
    BY <2>1, <2>2
<1>7. Dequeued(c) = left \o right
  BY DEF Dequeued, at, left, right
<1> QED
  BY <1>1, <1>2, <1>5, <1>6, <1>7 DEF at

\* A queued caller that aborts and takes itself out of the queue.
LEMMA GateLeaveLine ==
    ASSUME GateOK, NEW c \in Caller, InLine(c), UNCHANGED active,
           waiting' = Dequeued(c), pc' = [pc EXCEPT ![c] = "idle"]
    PROVE  GateOK'
<1> DEFINE at == Place(c)
<1> USE DEF GateOK
<1>1. /\ at \in 1 .. Len(waiting) /\ waiting[at] = c /\ Len(waiting) \in Nat \ {0}
      /\ waiting' \in Seq(Caller) /\ DOMAIN waiting' = 1 .. Len(waiting) - 1
      /\ DOMAIN waiting = 1 .. Len(waiting)
      /\ \A i \in 1 .. Len(waiting) - 1 :
            waiting'[i] = IF i < at THEN waiting[i] ELSE waiting[i + 1]
  BY Spliced
<1> HIDE DEF at
<1>2. pc[c] = "queued"
  BY <1>1 DEF QueueIsExact
<1>3. pc' \in [Caller -> PC]
  BY DEF PC
<1>4. Holders' = Holders
  BY <1>2 DEF Holders
<1>5. \A d \in Caller : pc'[d] = "queued" <=> pc[d] = "queued" /\ d # c
  OBVIOUS
<1>6. \A i, j \in DOMAIN waiting : waiting[i] = waiting[j] => i = j
  BY DEF QueueIsExact
<1> DEFINE Was(i) == IF i < at THEN i ELSE i + 1
<1>a. ASSUME NEW i \in DOMAIN waiting'
      PROVE  Was(i) \in DOMAIN waiting /\ Was(i) # at /\ waiting'[i] = waiting[Was(i)]
  <2>1. i \in 1 .. Len(waiting) - 1
    BY <1>1
  <2>2. Was(i) \in 1 .. Len(waiting) /\ Was(i) # at
    BY <1>1, <2>1
  <2> QED
    BY <1>1, <2>1, <2>2
<1>7. \A i, j \in DOMAIN waiting' : waiting'[i] = waiting'[j] => i = j
  <2> SUFFICES ASSUME NEW i \in DOMAIN waiting', NEW j \in DOMAIN waiting',
                      waiting'[i] = waiting'[j]
               PROVE  i = j
    OBVIOUS
  <2>1. Was(i) = Was(j)
    <3> HIDE DEF Was
    <3> QED
      BY <1>a, <1>6
  <2>2. i \in 1 .. Len(waiting) - 1 /\ j \in 1 .. Len(waiting) - 1
    BY <1>1
  <2> QED
    BY <1>1, <2>1, <2>2
<1>8. {waiting'[i] : i \in DOMAIN waiting'} = {d \in Caller : pc'[d] = "queued"}
  <2>1. ASSUME NEW i \in DOMAIN waiting'
        PROVE  waiting'[i] \in Caller /\ pc'[waiting'[i]] = "queued"
    <3>1. PICK j \in DOMAIN waiting : j # at /\ waiting'[i] = waiting[j]
      BY <1>a
    <3>2. waiting[j] # c /\ waiting[j] \in Caller /\ pc[waiting[j]] = "queued"
      BY <1>1, <1>6, <3>1 DEF QueueIsExact
    <3> QED
      BY <1>5, <3>1, <3>2
  <2>2. ASSUME NEW d \in Caller, pc'[d] = "queued"
        PROVE  \E i \in DOMAIN waiting' : waiting'[i] = d
    <3>1. PICK j \in DOMAIN waiting : waiting[j] = d /\ j # at
      BY <1>1, <1>5, <2>2 DEF QueueIsExact
    <3>2. CASE j < at
      BY <1>1, <3>1, <3>2
    <3>3. CASE ~(j < at)
      <4>1. j - 1 \in DOMAIN waiting' /\ ~(j - 1 < at) /\ (j - 1) + 1 = j
        BY <1>1, <3>1, <3>3
      <4> QED
        BY <1>1, <3>1, <4>1
    <3> QED
      BY <3>2, <3>3
  <2> QED
    BY <2>1, <2>2
<1>9. waiting' # <<>> => waiting # <<>>
  BY <1>1
<1> QED
  BY <1>1, <1>3, <1>4, <1>7, <1>8, <1>9 DEF QueueIsExact, PermitsBalance, NoIdlePermit

LEMMA GateStep ==
    ASSUME GateOK, [Next]_vars
    PROVE  GateOK'
<1>1. CASE UNCHANGED vars
  BY <1>1 DEF GateOK, QueueIsExact, PermitsBalance, NoIdlePermit, Holders, vars, gateVars
<1>2. CASE Tick
  BY <1>2 DEF GateOK, QueueIsExact, PermitsBalance, NoIdlePermit, Holders, Tick, gateVars
<1>3. ASSUME NEW c \in Caller, Enter(c)
      PROVE  GateOK'
  <2>1. pc[c] = "idle"
    BY <1>3 DEF Enter
  <2>2. CASE Full
    BY <1>3, <2>1, <2>2, GateQueue DEF Enter
  <2>3. CASE ~Full
    <3>1. /\ active' = active + 1 /\ UNCHANGED waiting
          /\ pc' = [pc EXCEPT ![c] = "pacing"] \/ pc' = [pc EXCEPT ![c] = "calling"]
      BY <1>3, <2>3 DEF Enter, TakeTurn
    <3> QED
      BY <2>1, <2>3, <3>1, GateEnter
  <2> QED
    BY <2>2, <2>3
<1>4. ASSUME NEW c \in Caller, Resume(c)
      PROVE  GateOK'
  <2>1. /\ pc[c] = "granted" /\ UNCHANGED gateVars
        /\ \E to \in {"pacing", "calling"} : pc' = [pc EXCEPT ![c] = to]
    BY <1>4 DEF Resume, NextResumed, TakeTurn
  <2> QED
    BY <2>1, GateMove DEF PC
<1>5. ASSUME NEW c \in Caller, Wake(c)
      PROVE  GateOK'
  BY <1>5, GateMove DEF Wake, PC
<1>6. ASSUME NEW c \in Caller, ResumeAborted(c) \/ Settle(c) \/ Leave(c)
      PROVE  GateOK'
  <2>1. c \in Holders /\ Release(c)
    BY <1>6 DEF ResumeAborted, Settle, Leave, NextResumed, Holders
  <2> QED
    BY <2>1, GateRelease
<1>7. ASSUME NEW c \in Caller, Abort(c)
      PROVE  GateOK'
  <2>1. CASE InLine(c)
    BY <1>7, <2>1, GateLeaveLine DEF Abort
  <2>2. CASE ~InLine(c)
    <3>1. pc[c] # "queued" /\ pc[c] # "idle" /\ pc[c] \in PC
      BY <1>7, <2>2 DEF Abort, InLine, GateOK, QueueIsExact
    <3>2. /\ UNCHANGED gateVars
          /\ pc' = [pc EXCEPT ![c] = IF pc[c] = "pacing" THEN "leaving" ELSE pc[c]]
      BY <1>7, <2>2 DEF Abort, gateVars
    <3>3. CASE pc[c] = "pacing"
      BY <3>2, <3>3, GateMove DEF PC
    <3>4. CASE pc[c] # "pacing"
      BY <3>1, <3>2, <3>4, GateMove
    <3> QED
      BY <3>3, <3>4
  <2> QED
    BY <2>1, <2>2
<1> QED
  BY <1>1, <1>2, <1>3, <1>4, <1>5, <1>6, <1>7 DEF Next, Progress

THEOREM GateAgrees == Spec => []GateOK
<1>1. Init => GateOK
  <2> SUFFICES ASSUME Init PROVE GateOK
    OBVIOUS
  <2>1. Holders = {}
    BY DEF Init, Holders
  <2>2. PermitsBalance
    BY <2>1, FS_EmptySet DEF Init, PermitsBalance
  <2>3. QueueIsExact /\ NoIdlePermit
    BY DEF Init, QueueIsExact, NoIdlePermit
  <2> QED
    BY <2>2, <2>3, RateLimitAssumption DEF Init, GateOK, PC
<1> QED
  BY <1>1, GateStep, PTL DEF Spec

\* Permits are neither lost nor counted twice, whatever mix of results, errors
\* and aborts ends the calls (release, waitTurn and the try block of gate).
THEOREM PermitsAreBalanced == Spec => []PermitsBalance
<1>1. GateOK => PermitsBalance
  BY DEF GateOK
<1> QED
  BY <1>1, GateAgrees, PTL

\* No call waits in line while a permit is free.
THEOREM NobodyWaitsInVain == Spec => []NoIdlePermit
<1>1. GateOK => NoIdlePermit
  BY DEF GateOK
<1> QED
  BY <1>1, GateAgrees, PTL

\* The queue holds every queued call once, through aborts at any place in it.
THEOREM QueueStaysExact == Spec => []QueueIsExact
<1>1. GateOK => QueueIsExact
  BY DEF GateOK
<1> QED
  BY <1>1, GateAgrees, PTL

(***************************************************************************)
(* The order: tickets increase along the queue and none is in the future.  *)
(***************************************************************************)
OrderOK ==
    /\ calls \in Nat
    /\ ticket \in [Caller -> Nat]
    /\ \A c \in Caller : ticket[c] <= calls
    /\ \A i, j \in DOMAIN waiting : i < j => ticket[waiting[i]] < ticket[waiting[j]]
    /\ NoOvertaking

LEMMA OrderEnter ==
    ASSUME GateOK, OrderOK, NEW c \in Caller, Enter(c)
    PROVE  OrderOK'
<1> USE DEF GateOK
<1>1. /\ pc[c] = "idle" /\ calls' = calls + 1
      /\ ticket' = [ticket EXCEPT ![c] = calls + 1]
  BY DEF Enter
<1>2. /\ calls' \in Nat /\ ticket' \in [Caller -> Nat]
      /\ \A d \in Caller : ticket'[d] <= calls'
      /\ ticket'[c] = calls + 1
      /\ \A d \in Caller : d # c => ticket'[d] = ticket[d] /\ ticket'[d] < calls + 1
  BY <1>1 DEF OrderOK
<1>3. CASE Full
  <2>1. waiting' = Append(waiting, c) /\ pc' = [pc EXCEPT ![c] = "queued"]
    BY <1>3 DEF Enter
  <2>2. /\ Len(waiting) \in Nat /\ DOMAIN waiting = 1 .. Len(waiting)
        /\ DOMAIN waiting' = 1 .. Len(waiting) + 1 /\ waiting'[Len(waiting) + 1] = c
        /\ \A i \in 1 .. Len(waiting) : waiting'[i] = waiting[i]
    BY <2>1
  <2>3. \A i \in DOMAIN waiting : waiting[i] \in Caller /\ waiting[i] # c
    BY <1>1 DEF QueueIsExact
  <2>4. \A i, j \in DOMAIN waiting' : i < j => ticket'[waiting'[i]] < ticket'[waiting'[j]]
    <3> SUFFICES ASSUME NEW i \in DOMAIN waiting', NEW j \in DOMAIN waiting', i < j
                 PROVE  ticket'[waiting'[i]] < ticket'[waiting'[j]]
      OBVIOUS
    <3>1. i \in 1 .. Len(waiting)
      BY <2>2
    <3>2. CASE j = Len(waiting) + 1
      BY <1>2, <2>2, <2>3, <3>1, <3>2
    <3>3. CASE j # Len(waiting) + 1
      <4>1. j \in 1 .. Len(waiting)
        BY <2>2, <3>3
      <4>2. ticket[waiting[i]] < ticket[waiting[j]]
        BY <2>2, <3>1, <4>1 DEF OrderOK
      <4> QED
        BY <1>2, <2>2, <2>3, <3>1, <4>1, <4>2
    <3> QED
      BY <3>2, <3>3
  <2>5. NoOvertaking'
    <3>1. Holders' = Holders /\ c \notin Holders
      BY <1>1, <2>1 DEF Holders
    <3> QED
      BY <1>2, <2>1, <3>1 DEF OrderOK, NoOvertaking, Holders
  <2> QED
    BY <1>2, <2>4, <2>5 DEF OrderOK
<1>4. CASE ~Full
  <2>1. waiting = <<>> /\ waiting' = waiting /\ pc'[c] # "queued"
    BY <1>4, RateLimitAssumption DEF Enter, TakeTurn, Full, NoIdlePermit
  <2>2. \A d \in Caller : pc'[d] # "queued"
    BY <2>1, <1>4 DEF QueueIsExact, Enter, TakeTurn
  <2> QED
    BY <1>2, <2>1, <2>2 DEF OrderOK, NoOvertaking
<1> QED
  BY <1>3, <1>4

LEMMA OrderRelease ==
    ASSUME GateOK, OrderOK, NEW c \in Holders, Release(c), UNCHANGED callVars
    PROVE  OrderOK'
<1> USE DEF GateOK, callVars
<1>1. CASE waiting = <<>>
  <2>1. pc' = [pc EXCEPT ![c] = "idle"] /\ waiting' = waiting
    BY <1>1 DEF Release
  <2>2. Holders' \subseteq Holders /\ \A d \in Caller : pc'[d] = "queued" => pc[d] = "queued"
    BY <2>1 DEF Holders
  <2> QED
    BY <2>1, <2>2 DEF OrderOK, NoOvertaking
<1>2. CASE waiting # <<>>
  <2> DEFINE h == Head(waiting)
  <2>1. /\ pc' = [pc EXCEPT ![c] = "idle", ![h] = "granted"] /\ waiting' = Tail(waiting)
    BY <1>2 DEF Release
  <2>2. /\ Len(waiting) \in Nat \ {0} /\ h = waiting[1] /\ 1 \in DOMAIN waiting
        /\ DOMAIN waiting = 1 .. Len(waiting) /\ DOMAIN waiting' = 1 .. Len(waiting) - 1
        /\ \A i \in 1 .. Len(waiting) - 1 : waiting'[i] = waiting[i + 1]
    BY <1>2, <2>1
  <2>3. \A i, j \in DOMAIN waiting' : i < j => ticket'[waiting'[i]] < ticket'[waiting'[j]]
    <3> SUFFICES ASSUME NEW i \in DOMAIN waiting', NEW j \in DOMAIN waiting', i < j
                 PROVE  ticket'[waiting'[i]] < ticket'[waiting'[j]]
      OBVIOUS
    <3>1. i + 1 \in DOMAIN waiting /\ j + 1 \in DOMAIN waiting /\ i + 1 < j + 1
      BY <2>2
    <3>2. ticket[waiting[i + 1]] < ticket[waiting[j + 1]]
      BY <3>1 DEF OrderOK
    <3> QED
      BY <2>2, <3>2
  <2>4. ASSUME NEW q \in Caller, NEW d \in Caller, pc'[q] = "queued", d \in Holders'
        PROVE  ticket[d] < ticket[q]
    <3>0. h \in Caller /\ pc[h] = "queued" /\ pc[c] # "queued"
      BY <2>2 DEF QueueIsExact, Holders
    <3>1. pc[q] = "queued" /\ q # h /\ (d \in Holders \/ d = h)
      BY <2>1, <2>4, <3>0 DEF Holders
    <3>2. CASE d \in Holders
      BY <3>1, <3>2 DEF OrderOK, NoOvertaking
    <3>3. CASE d = h
      <4>1. PICK k \in DOMAIN waiting : waiting[k] = q
        BY <3>1 DEF QueueIsExact
      <4>2. 1 < k
        BY <2>2, <3>1, <4>1
      <4> QED
        BY <2>2, <3>3, <4>1, <4>2 DEF OrderOK
    <3> QED
      BY <3>1, <3>2, <3>3
  <2> QED
    BY <2>3, <2>4 DEF OrderOK, NoOvertaking, Holders
<1> QED
  BY <1>1, <1>2

LEMMA OrderAbort ==
    ASSUME GateOK, OrderOK, NEW c \in Caller, Abort(c)
    PROVE  OrderOK'
<1> USE DEF GateOK
<1>0. UNCHANGED <<calls, ticket>>
  BY DEF Abort, callVars
<1>1. Holders' \subseteq Holders /\ \A d \in Caller : pc'[d] = "queued" => pc[d] = "queued"
  BY DEF Abort, Holders
<1>2. \A i, j \in DOMAIN waiting' : i < j => ticket[waiting'[i]] < ticket[waiting'[j]]
  <2>1. CASE ~InLine(c)
    BY <2>1 DEF Abort, OrderOK
  <2>2. CASE InLine(c)
    <3> DEFINE at == Place(c)
               Was(i) == IF i < at THEN i ELSE i + 1
    <3>1. /\ at \in 1 .. Len(waiting) /\ Len(waiting) \in Nat \ {0}
          /\ DOMAIN waiting' = 1 .. Len(waiting) - 1 /\ DOMAIN waiting = 1 .. Len(waiting)
          /\ \A i \in 1 .. Len(waiting) - 1 :
                waiting'[i] = IF i < at THEN waiting[i] ELSE waiting[i + 1]
      BY <2>2, Spliced DEF Abort
    <3> HIDE DEF at
    <3> SUFFICES ASSUME NEW i \in DOMAIN waiting', NEW j \in DOMAIN waiting', i < j
                 PROVE  ticket[waiting'[i]] < ticket[waiting'[j]]
      OBVIOUS
    <3>2. i \in 1 .. Len(waiting) - 1 /\ j \in 1 .. Len(waiting) - 1
      BY <3>1
    <3>3. /\ Was(i) \in DOMAIN waiting /\ Was(j) \in DOMAIN waiting /\ Was(i) < Was(j)
      BY <3>1, <3>2
    <3>4. waiting'[i] = waiting[Was(i)] /\ waiting'[j] = waiting[Was(j)]
      BY <3>1, <3>2
    <3> HIDE DEF Was
    <3> QED
      BY <3>3, <3>4 DEF OrderOK
  <2> QED
    BY <2>1, <2>2
<1> QED
  BY <1>0, <1>1, <1>2 DEF OrderOK, NoOvertaking, Holders

LEMMA OrderStep ==
    ASSUME GateOK, OrderOK, [Next]_vars
    PROVE  OrderOK'
<1>1. CASE UNCHANGED vars \/ Tick
  BY <1>1 DEF OrderOK, NoOvertaking, Holders, vars, Tick, gateVars, callVars
<1>2. ASSUME NEW c \in Caller, Resume(c) \/ Wake(c)
      PROVE  OrderOK'
  <2>1. /\ UNCHANGED <<waiting, calls, ticket>> /\ pc[c] \in {"granted", "pacing"}
        /\ \E to \in {"pacing", "calling"} : pc' = [pc EXCEPT ![c] = to]
    BY <1>2 DEF Resume, NextResumed, TakeTurn, Wake, gateVars, callVars
  <2>2. Holders' = Holders /\ \A d \in Caller : pc'[d] = "queued" <=> pc[d] = "queued"
    BY <2>1 DEF Holders, GateOK
  <2> QED
    BY <2>1, <2>2 DEF OrderOK, NoOvertaking
<1>3. ASSUME NEW c \in Caller, ResumeAborted(c) \/ Settle(c) \/ Leave(c)
      PROVE  OrderOK'
  <2>1. c \in Holders /\ Release(c) /\ UNCHANGED callVars
    BY <1>3 DEF ResumeAborted, Settle, Leave, NextResumed, Holders
  <2> QED
    BY <2>1, OrderRelease
<1> QED
  BY <1>1, <1>2, <1>3, OrderEnter, OrderAbort DEF Next, Progress

THEOREM QueueIsOrdered == Spec => []OrderOK
<1>1. Init => OrderOK
  BY DEF Init, OrderOK, NoOvertaking, Holders
<1> QED
  BY <1>1, OrderStep, GateAgrees, PTL DEF Spec

\* First come, first served: no call holds a permit while one that asked before
\* it is still in line (the handover in release, before the waiter resumes).
THEOREM NobodyOvertakes == Spec => []NoOvertaking
<1>1. OrderOK => NoOvertaking
  BY DEF OrderOK
<1> QED
  BY <1>1, QueueIsOrdered, PTL

(***************************************************************************)
(* The pace: the k-th reserved start is at least k - 1 intervals after the *)
(* first, and a start is not used before its time.                         *)
(***************************************************************************)
Due(k) == firstAt + (k - 1) * MinInterval

PaceOK ==
    /\ clock \in Nat
    /\ lastStart \in Int
    /\ startAt \in [Caller -> Nat]
    /\ reserved \in Nat
    /\ slot \in [Caller -> Nat]
    /\ firstAt \in Nat
    /\ started \subseteq 1 .. reserved
    /\ reserved = 0 => lastStart = -MinInterval
    /\ reserved > 0 => lastStart >= Due(reserved)
    /\ \A c \in Caller :
          pc[c] = "pacing" => slot[c] \in 1 .. reserved /\ startAt[c] >= Due(slot[c])
    /\ \A k \in started : Due(k) <= clock

\* The arithmetic of intervals.
LEMMA NextInterval ==
    ASSUME NEW f \in Int, NEW m \in Nat, NEW n \in Int
    PROVE  /\ (n - 1) * m \in Int /\ f + (n - 1) * m \in Int
           /\ f + ((n + 1) - 1) * m = f + (n - 1) * m + m
<1>1. (n - 1) * m \in Int /\ ((n + 1) - 1) * m = (n - 1) * m + m
  OBVIOUS
<1> QED
  BY <1>1

LEMMA PaceTurn ==
    ASSUME PaceOK, GateOK, NEW c \in Caller, TakeTurn(c), UNCHANGED clock
    PROVE  PaceOK'
<1> DEFINE at == Later(clock, lastStart + MinInterval)
<1> USE RateLimitAssumption DEF PaceOK
<1>1. /\ lastStart' = at /\ startAt' = [startAt EXCEPT ![c] = at]
      /\ reserved' = reserved + 1 /\ slot' = [slot EXCEPT ![c] = reserved + 1]
      /\ pc' = [pc EXCEPT ![c] = IF at > clock THEN "pacing" ELSE "calling"]
      /\ started' = IF at > clock THEN started ELSE started \cup {reserved + 1}
      /\ firstAt' = IF reserved = 0 THEN at ELSE firstAt
  BY DEF TakeTurn, Reservation
<1>2. at \in Nat /\ at >= clock /\ at >= lastStart + MinInterval
  BY DEF Later
<1> HIDE DEF at
<1>3. at >= Due(reserved)'
  <2>1. CASE reserved = 0
    <3>1. Due(reserved)' = at + 0 * MinInterval
      BY <2>1, <1>1, <1>2 DEF Due
    <3> QED
      BY <3>1, <1>2
  <2>2. CASE reserved > 0
    <3>1. Due(reserved)' = Due(reserved) + MinInterval /\ Due(reserved) \in Int
      <4>1. firstAt' = firstAt /\ reserved' = reserved + 1
        BY <2>2, <1>1
      <4> QED
        BY <2>2, <4>1, <1>1, NextInterval DEF Due
    <3> QED
      BY <2>2, <3>1, <1>2
  <2> QED
    BY <2>1, <2>2
<1>4. reserved > 0 => \A k \in Int : Due(k)' = Due(k)
  BY <1>1 DEF Due
<1>5. reserved = 0 => started = {} /\ \A d \in Caller : pc[d] # "pacing"
  OBVIOUS
<1>6. started' \subseteq 1 .. reserved'
  BY <1>1
<1>7. ASSUME NEW d \in Caller, pc'[d] = "pacing"
      PROVE  slot'[d] \in 1 .. reserved' /\ startAt'[d] >= Due(slot[d])'
  <2>1. CASE d = c
    BY <2>1, <1>1, <1>2, <1>3 DEF Due
  <2>2. CASE d # c
    <3>1. pc[d] = "pacing" /\ slot'[d] = slot[d] /\ startAt'[d] = startAt[d]
      BY <2>2, <1>1, <1>7 DEF GateOK
    <3>2. slot[d] \in 1 .. reserved /\ startAt[d] >= Due(slot[d]) /\ reserved > 0
      BY <3>1
    <3>3. Due(slot[d])' = Due(slot[d])
      BY <3>1, <3>2, <1>1 DEF Due
    <3> QED
      BY <1>1, <3>1, <3>2, <3>3
  <2> QED
    BY <2>1, <2>2
<1>8. ASSUME NEW k \in started'
      PROVE  firstAt' + (k - 1) * MinInterval <= clock'
  <2>1. CASE k \in started
    BY <2>1, <1>4, <1>5 DEF Due
  <2>2. CASE k \notin started
    <3>1. k = reserved + 1 /\ at = clock
      BY <2>2, <1>1, <1>2
    <3> QED
      BY <3>1, <1>1, <1>3 DEF Due
  <2> QED
    BY <2>1, <2>2
<1>9. lastStart' >= Due(reserved)'
  BY <1>1, <1>3
<1> QED
  BY <1>1, <1>2, <1>6, <1>7, <1>8, <1>9 DEF Due

LEMMA PaceStep ==
    ASSUME PaceOK, GateOK, [Next]_vars
    PROVE  PaceOK'
<1>1. CASE UNCHANGED vars
  BY <1>1 DEF PaceOK, Due, vars, paceVars
<1>2. CASE Tick
  <2>1. \A k \in started : Due(k) \in Int
    BY RateLimitAssumption, NextInterval DEF PaceOK, Due
  <2> QED
    BY <1>2, <2>1 DEF PaceOK, Due, Tick, paceVars
<1>3. ASSUME NEW c \in Caller, UNCHANGED <<clock, paceVars, started>>,
             \A d \in Caller : pc'[d] = "pacing" => pc[d] = "pacing"
      PROVE  PaceOK'
  BY <1>3 DEF PaceOK, Due, paceVars
<1>4. ASSUME NEW c \in Caller, Enter(c)
      PROVE  PaceOK'
  <2>1. CASE Full
    BY <1>3, <1>4, <2>1 DEF Enter, GateOK
  <2>2. CASE ~Full
    BY <1>4, <2>2, PaceTurn DEF Enter
  <2> QED
    BY <2>1, <2>2
<1>5. ASSUME NEW c \in Caller, Resume(c)
      PROVE  PaceOK'
  BY <1>5, PaceTurn DEF Resume
<1>6. ASSUME NEW c \in Caller, Wake(c)
      PROVE  PaceOK'
  <2>1. /\ pc[c] = "pacing" /\ clock >= startAt[c] /\ pc' = [pc EXCEPT ![c] = "calling"]
        /\ started' = started \cup {slot[c]} /\ UNCHANGED <<paceVars, clock>>
    BY <1>6 DEF Wake
  <2>2. slot[c] \in 1 .. reserved /\ startAt[c] >= Due(slot[c]) /\ Due(slot[c]) \in Int
    BY <2>1, RateLimitAssumption, NextInterval DEF PaceOK, Due
  <2>3. Due(slot[c]) <= clock
    BY <2>1, <2>2 DEF PaceOK
  <2>4. \A d \in Caller : pc'[d] = "pacing" => pc[d] = "pacing"
    BY <2>1 DEF GateOK
  <2> QED
    BY <2>1, <2>2, <2>3, <2>4 DEF PaceOK, Due, paceVars
<1>7. ASSUME NEW c \in Caller, ResumeAborted(c) \/ Settle(c) \/ Leave(c)
      PROVE  PaceOK'
  <2>1. c \in Holders /\ Release(c) /\ UNCHANGED <<clock, paceVars, started>>
    BY <1>7 DEF ResumeAborted, Settle, Leave, NextResumed, Holders
  <2>2. \A d \in Caller : pc'[d] = "pacing" => pc[d] = "pacing"
    BY <2>1 DEF Release, GateOK
  <2> QED
    BY <1>3, <2>1, <2>2 DEF Holders
<1>8. ASSUME NEW c \in Caller, Abort(c)
      PROVE  PaceOK'
  BY <1>3, <1>8 DEF Abort, GateOK
<1> QED
  BY <1>1, <1>2, <1>4, <1>5, <1>6, <1>7, <1>8 DEF Next, Progress

THEOREM StartsAreSpaced == Spec => []PaceOK
<1>1. Init => PaceOK
  BY RateLimitAssumption DEF Init, PaceOK
<1> QED
  BY <1>1, PaceStep, GateAgrees, PTL DEF Spec

\* Among n numbers of starts there is one that is at least n.
LEMMA LateStart ==
    ASSUME NEW r \in Nat, NEW S \in SUBSET (1 .. r), S # {}
    PROVE  /\ Cardinality(S) \in Nat
           /\ \E k \in S : Cardinality(S) <= k
<1>1. IsFiniteSet(S) /\ Cardinality(S) \in Nat
  <2>1. IsFiniteSet(1 .. r)
    BY FS_Interval
  <2> QED
    BY <2>1, FS_Subset, FS_CardinalityType
<1>2. Cardinality(S) > 0
  BY <1>1, FS_EmptySet
<1>3. ASSUME \A k \in S : ~(Cardinality(S) <= k)
      PROVE  FALSE
  <2>1. S \in SUBSET (1 .. Cardinality(S) - 1)
    BY <1>1, <1>3
  <2>2. /\ IsFiniteSet(1 .. Cardinality(S) - 1)
        /\ Cardinality(1 .. Cardinality(S) - 1) = Cardinality(S) - 1
    <3>1. Cardinality(S) - 1 \in Int /\ 1 \in Int
      BY <1>1
    <3> QED
      BY <1>1, <1>2, <3>1, FS_Interval
  <2>3. Cardinality(S) <= Cardinality(S) - 1
    BY <2>1, <2>2, FS_Subset
  <2> QED
    BY <1>1, <2>3
<1> QED
  BY <1>1, <1>3

\* The pace: by any time, at most one call more than intervals have passed since
\* the first start has reached the model, however many callers sleep at once and
\* whenever their calls are aborted (the reservation before the sleep in gate).
THEOREM PaceIsKept == Spec => []PaceKept
<1>1. ASSUME PaceOK PROVE PaceKept
  <2> SUFFICES ASSUME started # {}
               PROVE  (Cardinality(started) - 1) * MinInterval <= clock - firstAt
    BY DEF PaceKept
  <2> DEFINE n == Cardinality(started)
  <2>1. n \in Nat /\ \E k \in started : n <= k
    BY <1>1, LateStart DEF PaceOK
  <2> HIDE DEF n
  <2>2. PICK k \in started : n <= k
    BY <2>1
  <2>3. k \in Nat /\ firstAt + (k - 1) * MinInterval <= clock /\ clock \in Nat /\ firstAt \in Nat
    BY <1>1 DEF PaceOK, Due
  <2>4. (n - 1) * MinInterval <= (k - 1) * MinInterval
    <3>1. k - n \in Nat
      BY <2>1, <2>2, <2>3
    <3>2. (k - n) * MinInterval \in Nat
      BY <3>1, RateLimitAssumption
    <3>3. (k - 1) * MinInterval = (n - 1) * MinInterval + (k - n) * MinInterval
      BY <2>1, <2>3, RateLimitAssumption
    <3>4. (n - 1) * MinInterval \in Int
      BY <2>1, RateLimitAssumption
    <3> QED
      BY <3>2, <3>3, <3>4
  <2>5. (n - 1) * MinInterval \in Int /\ (k - 1) * MinInterval \in Int
    BY <2>1, <2>3, RateLimitAssumption
  <2>6. (n - 1) * MinInterval <= clock - firstAt
    BY <2>3, <2>4, <2>5
  <2> QED
    BY <2>6 DEF n
<1> QED
  BY <1>1, StartsAreSpaced, PTL

AbortedOK == aborted \in [Caller -> BOOLEAN]

\* Every variable keeps its type, and no more than Concurrency permits are out.
THEOREM GateTyped == Spec => []TypeOK
<1>1. Init => AbortedOK
  BY DEF Init, AbortedOK
<1>2. AbortedOK /\ [Next]_vars => AbortedOK'
  BY DEF AbortedOK, Next, vars, Enter, Progress, Resume, ResumeAborted, Wake, Settle, Leave,
         Abort, Tick
<1>3. AbortedOK /\ GateOK /\ OrderOK /\ PaceOK => TypeOK
  BY DEF AbortedOK, GateOK, OrderOK, PaceOK, TypeOK
<1> QED
  BY <1>1, <1>2, <1>3, GateAgrees, QueueIsOrdered, StartsAreSpaced, PTL DEF Spec

\* The limiter keeps its books, for every number of callers, permits and ticks.
THEOREM GateIsSafe == Spec => []GateSafety
BY GateTyped, PermitsAreBalanced, NobodyWaitsInVain, QueueStaysExact,
   NobodyOvertakes, PaceIsKept, PTL DEF GateSafety
=============================================================================
