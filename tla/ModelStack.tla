------------------------------ MODULE ModelStack ------------------------------
(***************************************************************************)
(* A model client built with wrapModel (packages/core/src/middleware.ts):  *)
(*                                                                         *)
(*     recordingModel(wrapModel(big, withCost, withCache,                  *)
(*                              withRetry, withFallback(small)))           *)
(*                                                                         *)
(* with withTimeout either around the retrying chain ("chain") or around   *)
(* big alone ("each").  small is a scriptedModel.  Going down to a model   *)
(* is one synchronous step; on the way up every layer is a step of its     *)
(* own, so that cancels, deadlines and other calls fall between them.      *)
(* X_Variant is X with a plausible defect; nothing uses it.                *)
(***************************************************************************)
EXTENDS Recording

CONSTANTS
    Streams,     \* the calls made through stream()
    MaxRetry,    \* RetryOptions.max
    MaxEntries,  \* CacheOptions.maxEntries
    Turns,       \* turns of the scripted fallback
    MaxTime      \* bound of the clock; cache entries live for one tick (ttlMs)

ASSUME StackAssumption ==
    /\ MaxRetry \in Nat /\ MaxEntries \in Nat \ {0} /\ Turns \in Nat /\ MaxTime \in Nat

VARIABLES
    deadline,   \* where withTimeout sits: "chain" or "each"
    call,       \* call[c]: the frames of call c, see CallType
    cancelled,  \* the calls whose caller's signal is aborted
    store,      \* withCache: entries in insertion order
    clock,
    slot,       \* scriptedModel: the slot each call holds, 0 for none
    cursor,     \* scriptedModel: slots claimed afresh so far
    released,   \* scriptedModel: slots given back by aborted calls
    spent,      \* slots whose turn was delivered
    costs       \* the calls withCost reported

scriptVars == <<slot, cursor, released, spent>>
stackVars == <<deadline, call, cancelled, store, clock, scriptVars, costs>>
vars == <<recordVars, stackVars>>

None == "none"
Signal == {None, "cancel", "timeout"}
Answer == {"big", "small"}
Layer == {"timeout", "fallback", "retry", "cache", "cost"}

(* pc       "idle", "asleep" in a model, "backoff", "up" at a layer, "done"  *)
(* at       the model of the chain being tried: 1 is big, 2 is small         *)
(* armed    whether a withTimeout is waiting; derived: why its controller    *)
(*          was aborted                                                      *)
(* res      the answer or the error on its way up                            *)
(* asked    model calls made; emitted: whether the model asked last emitted  *)
(* seen     the model calls whose chunks the consumer got, 0 for the cache   *)
CallType ==
    [pc : {"idle", "asleep", "backoff", "up", "done"},
     layer : Layer, at : 1 .. 2, tries : 0 .. MaxRetry, armed : BOOLEAN, derived : Signal,
     res : Answer \cup Signal \cup {"fail"}, asked : 0 .. 2 * (MaxRetry + 1),
     emitted : BOOLEAN, seen : SUBSET (0 .. 2 * (MaxRetry + 1))]

Cached == [key : UNION {{p[c] : c \in Caller} : p \in Prompts}, ans : Answer, time : 0 .. MaxTime]

TypeOK ==
    /\ RecordTypeOK
    /\ deadline \in {"chain", "each"}
    /\ call \in [Caller -> CallType]
    /\ cancelled \subseteq Caller
    /\ store \in Seq(Cached)
    /\ clock \in 0 .. MaxTime
    /\ slot \in [Caller -> 0 .. Turns]
    /\ cursor \in 0 .. Turns
    /\ released \subseteq 1 .. Turns /\ spent \subseteq 1 .. Turns
    /\ costs \subseteq Caller

Idle ==
    [pc |-> "idle", layer |-> "cost", at |-> 1, tries |-> 0, armed |-> FALSE,
     derived |-> None, res |-> None, asked |-> 0, emitted |-> FALSE, seen |-> {}]

Init ==
    /\ RecordInit
    /\ deadline \in {"chain", "each"}
    /\ call = [c \in Caller |-> Idle]
    /\ cancelled = {}
    /\ store = <<>>
    /\ clock = 0
    /\ slot = [c \in Caller |-> 0]
    /\ cursor = 0
    /\ released = {}
    /\ spent = {}
    /\ costs = {}

-----------------------------------------------------------------------------
(* Signals                                                                  *)

Outer(c) == IF c \in cancelled THEN "cancel" ELSE None

\* The signal withRetry and withFallback look at, and the one a model is given.
Sig(c) == IF deadline = "chain" THEN call[c].derived ELSE Outer(c)
ModelSig(c) == IF deadline = "chain" \/ call[c].at = 1 THEN call[c].derived ELSE Outer(c)

\* A deadline is no cancellation, and neither is a failure it caused.
IsCancellation(err, sig) ==
    err # "timeout" /\ (IF sig # None THEN sig = "cancel" ELSE err = "cancel")

-----------------------------------------------------------------------------
(* scriptedModel: a slot is claimed when a call starts                      *)

FreeSlot == IF released # {} THEN Min(released) ELSE cursor + 1

Claim(c) ==
    /\ slot' = [slot EXCEPT ![c] = FreeSlot]
    /\ released' = released \ {FreeSlot}
    /\ cursor' = Max({cursor, FreeSlot})
    /\ UNCHANGED spent

\* A turn is spent when its reply is delivered; an aborted call gives its own
\* slot back.
Settle_Lost(c, delivered) ==
    /\ slot' = [slot EXCEPT ![c] = 0]
    /\ spent' = IF delivered THEN spent \cup ({slot[c]} \ {0}) ELSE spent
    /\ UNCHANGED <<cursor, released>>
Settle(c, delivered) ==
    /\ slot' = [slot EXCEPT ![c] = 0]
    /\ spent' = IF delivered THEN spent \cup ({slot[c]} \ {0}) ELSE spent
    /\ released' = IF delivered THEN released ELSE released \cup ({slot[c]} \ {0})
    /\ UNCHANGED cursor

-----------------------------------------------------------------------------
(* Going down                                                               *)

Up(f, layer, res) == [f EXCEPT !.pc = "up", !.layer = layer, !.res = res]

\* The layer above each layer, and above the model asked last.
Above(layer) ==
    CASE layer = "fallback" -> "retry"
      [] layer = "retry"    -> IF deadline = "chain" THEN "timeout" ELSE "cache"
      [] layer = "timeout"  -> IF deadline = "chain" THEN "cache" ELSE "fallback"
AboveModel(f) == IF deadline = "each" /\ f.at = 1 THEN "timeout" ELSE "fallback"

\* withTimeout: a controller that follows the outer signal, and a timer.
Arm_NoTimer(f) == [f EXCEPT !.derived = None]
Arm(f) == [f EXCEPT !.armed = TRUE, !.derived = None]

\* Asking the model f.at; an exhausted script fails at once.
Ask(c, f) ==
    LET g == [f EXCEPT !.pc = "asleep", !.asked = @ + 1, !.emitted = FALSE] IN
    IF f.at = 1
    THEN /\ call' = [call EXCEPT ![c] = IF deadline = "each" THEN Arm(g) ELSE g]
         /\ UNCHANGED scriptVars
    ELSE IF FreeSlot > Turns
    THEN /\ call' = [call EXCEPT ![c] = Up(g, "fallback", "fail")]
         /\ UNCHANGED scriptVars
    ELSE /\ call' = [call EXCEPT ![c] = g]
         /\ Claim(c)

Return(c, layer, res) ==
    /\ call' = [call EXCEPT ![c] = Up(call[c], layer, res)]
    /\ UNCHANGED scriptVars

\* withFallback's loop: throwIfAborted before every model of the chain.
TryModel(c, f, sig) ==
    IF sig # None THEN Return(c, "retry", sig) ELSE Ask(c, f)

-----------------------------------------------------------------------------
(* withCache                                                                *)

Expired(e) == clock - e.time > 0
Hits(key) == {store[i].ans : i \in {j \in DOMAIN store : store[j].key = key /\ ~Expired(store[j])}}

\* Map.delete of the entry in place i.
Deleted(i) == [j \in 1 .. Len(store) - 1 |-> store[IF j < i THEN j ELSE j + 1]]

\* read(): a hit leaves the store alone, a miss deletes an expired entry.
AfterRead(key) ==
    IF Hits(key) = {} /\ \E i \in DOMAIN store : store[i].key = key
    THEN Deleted(CHOOSE i \in DOMAIN store : store[i].key = key)
    ELSE store

\* write(): a Map keeps the place of a key that is set again; past maxEntries
\* the entry inserted first goes.
Put(key, ans) ==
    LET new == [key |-> key, ans |-> ans, time |-> clock] IN
    IF \E i \in DOMAIN store : store[i].key = key
    THEN [i \in DOMAIN store |-> IF store[i].key = key THEN new ELSE store[i]]
    ELSE Append(store, new)
AfterWrite(key, ans) == IF Len(Put(key, ans)) > MaxEntries THEN Tail(Put(key, ans)) ELSE Put(key, ans)

-----------------------------------------------------------------------------
(* A call from its start to its result                                      *)

Start(c) ==
    /\ call[c].pc = "idle"
    /\ Prepare(c)
    /\ IF c \in cancelled
       THEN Return(c, "cost", "cancel") /\ UNCHANGED store
       ELSE /\ store' = AfterRead(prompt[c])
            /\ IF Hits(prompt[c]) # {}
               THEN /\ \E a \in Hits(prompt[c]) :
                           call' = [call EXCEPT ![c] =
                               [Up(@, "cost", a) EXCEPT !.seen = IF c \in Streams THEN {0} ELSE {}]]
                    /\ UNCHANGED scriptVars
               ELSE Ask(c, IF deadline = "chain" THEN Arm(call[c]) ELSE call[c])
    /\ UNCHANGED <<prompt, entries, consumed, edited, strict, again, replayed, deadline, cancelled, clock, costs>>

\* big sends a chunk of its answer.
Chunk(c) ==
    /\ call[c].pc = "asleep" /\ call[c].at = 1 /\ c \in Streams
    /\ call' = [call EXCEPT ![c].emitted = TRUE, ![c].seen = @ \cup {call[c].asked}]
    /\ UNCHANGED <<recordVars, deadline, cancelled, store, clock, scriptVars, costs>>

\* The model asked last answers, also after its signal was aborted when it is
\* big, which may not look; small re-chunks a stream when its turn is there.
Reply(c) ==
    /\ call[c].pc = "asleep"
    /\ call[c].at = 2 => ModelSig(c) = None
    /\ LET f == IF call[c].at = 2 /\ c \in Streams
                THEN [call[c] EXCEPT !.emitted = TRUE, !.seen = @ \cup {call[c].asked}]
                ELSE call[c]
       IN  call' = [call EXCEPT ![c] = Up(f, AboveModel(f), IF f.at = 1 THEN "big" ELSE "small")]
    /\ Settle(c, TRUE)
    /\ UNCHANGED <<recordVars, deadline, cancelled, store, clock, costs>>

\* A model fails on its own: a provider error, a scripted turn that throws.
Fail(c) ==
    /\ call[c].pc = "asleep"
    /\ call' = [call EXCEPT ![c] = Up(@, AboveModel(@), "fail")]
    /\ Settle(c, ModelSig(c) = None)
    /\ UNCHANGED <<recordVars, deadline, cancelled, store, clock, costs>>

\* A model rejects because the signal it was given is aborted.
Abandon(c) ==
    /\ call[c].pc = "asleep"
    /\ ModelSig(c) # None
    /\ call' = [call EXCEPT ![c] = Up(@, AboveModel(@), ModelSig(c))]
    /\ Settle(c, FALSE)
    /\ UNCHANGED <<recordVars, deadline, cancelled, store, clock, costs>>

Pass(c) == call' = [call EXCEPT ![c].layer = Above(@)]

FallbackUp(c) ==
    /\ call[c].pc = "up" /\ call[c].layer = "fallback"
    /\ LET f == call[c] IN
       IF \/ f.res \in Answer \/ f.at = 2
          \/ IsCancellation(f.res, Sig(c))
          \/ c \in Streams /\ f.emitted
       THEN Pass(c) /\ UNCHANGED scriptVars
       ELSE TryModel(c, [f EXCEPT !.at = 2], Sig(c))
    /\ UNCHANGED <<recordVars, deadline, cancelled, store, clock, costs>>

\* retryOn may refuse; a backoff that starts aborted rejects with the reason.
RetryUp(c) ==
    /\ call[c].pc = "up" /\ call[c].layer = "retry"
    /\ LET f == call[c] IN
       \/ Pass(c)
       \/ /\ f.res \notin Answer /\ f.tries < MaxRetry /\ ~IsCancellation(f.res, Sig(c))
          /\ c \in Streams => f.seen = {}
          /\ call' = [call EXCEPT ![c] = IF Sig(c) # None THEN Up(f, Above("retry"), Sig(c))
                                         ELSE [f EXCEPT !.pc = "backoff"]]
    /\ UNCHANGED <<recordVars, deadline, cancelled, store, clock, scriptVars, costs>>

\* The backoff ends: the timer fires, perhaps just before an abort, or the
\* abort ends it.
Backoff_Deaf(c) ==
    /\ call[c].pc = "backoff"
    /\ TryModel(c, [call[c] EXCEPT !.tries = @ + 1, !.at = 1], None)
    /\ UNCHANGED <<recordVars, deadline, cancelled, store, clock, costs>>
Backoff(c) ==
    /\ call[c].pc = "backoff"
    /\ IF Sig(c) # None THEN Return(c, Above("retry"), Sig(c))
       ELSE TryModel(c, [call[c] EXCEPT !.tries = @ + 1, !.at = 1], Sig(c))
    /\ UNCHANGED <<recordVars, deadline, cancelled, store, clock, costs>>

TimeoutUp(c) ==
    /\ call[c].pc = "up" /\ call[c].layer = "timeout"
    /\ call' = [call EXCEPT ![c].layer = Above("timeout"), ![c].armed = FALSE, ![c].derived = None]
    /\ UNCHANGED <<recordVars, deadline, cancelled, store, clock, scriptVars, costs>>

\* The outer layers, which never wait: withCache writes what came from below
\* it, withCost reports, recordingModel captures.
WriteCache(c) ==
    store' = IF call[c].layer = "cache" /\ call[c].res \in Answer /\ prompt[c] \notin Opaque
             THEN AfterWrite(prompt[c], call[c].res) ELSE store
ReportCost(c) == costs' = IF call[c].res \in Answer THEN costs \cup {c} ELSE costs

Deliver(c) ==
    /\ call[c].pc = "up" /\ call[c].layer \in {"cache", "cost"}
    /\ WriteCache(c)
    /\ ReportCost(c)
    /\ IF call[c].res \in Answer THEN Capture(c) ELSE UNCHANGED entries
    /\ call' = [call EXCEPT ![c].pc = "done", ![c].layer = "cost", ![c].tries = 0, ![c].emitted = FALSE]
    /\ UNCHANGED <<prompt, index, consumed, edited, strict, again, replayed, deadline, cancelled, clock,
                   scriptVars>>

-----------------------------------------------------------------------------
(* The caller's signal, withTimeout's timer and the clock                   *)

Cancel(c) ==
    /\ call[c].pc # "done" /\ c \notin cancelled
    /\ cancelled' = cancelled \cup {c}
    /\ call' = [call EXCEPT ![c].derived = IF call[c].armed /\ @ = None THEN "cancel" ELSE @]
    /\ UNCHANGED <<recordVars, deadline, store, clock, scriptVars, costs>>

Deadline(c) ==
    /\ call[c].armed /\ call[c].derived = None
    /\ call' = [call EXCEPT ![c].derived = "timeout"]
    /\ UNCHANGED <<recordVars, deadline, cancelled, store, clock, scriptVars, costs>>

\* Time shows only in the age of what is stored.
Tick ==
    /\ clock < MaxTime /\ store # <<>>
    /\ clock' = clock + 1
    /\ UNCHANGED <<recordVars, deadline, call, cancelled, store, scriptVars, costs>>

AllDone == \A c \in Caller : call[c].pc = "done"

Replay == AllDone /\ (OpenReplay \/ \E c \in Caller : ReplayCall(c)) /\ UNCHANGED stackVars

Next ==
    \/ \E c \in Caller :
        \/ Start(c) \/ Chunk(c) \/ Reply(c) \/ Fail(c) \/ Abandon(c)
        \/ FallbackUp(c) \/ RetryUp(c) \/ Backoff(c) \/ TimeoutUp(c)
        \/ Deliver(c) \/ Cancel(c) \/ Deadline(c)
    \/ Tick \/ Replay

Spec == Init /\ [][Next]_vars

\* Promise reactions and timers run; a model may hang until its signal is
\* aborted, and then rejects.
FairSpec ==
    /\ Spec
    /\ \A c \in Caller :
        /\ WF_vars(FallbackUp(c) \/ RetryUp(c) \/ Backoff(c) \/ TimeoutUp(c) \/ Deliver(c))
        /\ WF_vars(Abandon(c)) /\ WF_vars(Deadline(c))

-----------------------------------------------------------------------------
(* Properties                                                               *)

\* After an operator's cancel no layer asks a model again: not the retry whose
\* backoff just ended, not the fallback after a model that ignored its signal.
\* The same goes for a deadline around the whole chain.
NoAttemptAfterStop ==
    [][\A c \in Caller : call'[c].asked > call[c].asked =>
            c \notin cancelled /\ (deadline = "chain" => call[c].derived = None)]_vars

\* The consumer of a stream sees chunks of one model call only, and an answer
\* it is given is the one whose chunks it saw: nothing is spliced or repeated.
OneAnswerSeen ==
    \A c \in Caller :
        /\ Cardinality(call[c].seen) <= 1
        /\ (call[c].pc = "done" /\ call[c].res \in Answer) => call[c].seen \subseteq {call[c].asked}

\* A deadline of big alone is not taken for a cancellation: a call nobody
\* cancelled and whose consumer saw nothing fails only after small was asked.
DeadlineFailsOver ==
    \A c \in Caller :
        (call[c].pc = "done" /\ call[c].res \notin Answer /\ c \notin cancelled
            /\ deadline = "each" /\ call[c].seen = {}) => call[c].at = 2

\* A turn of the script is held by one call, back for the next one, or
\* delivered: a cancelled call never eats the reply the next call expects.
TurnsConserved ==
    /\ \A c, d \in Caller : slot[c] = slot[d] /\ slot[c] # 0 => c = d
    /\ LET held == {slot[c] : c \in Caller} \ {0} IN
       /\ held \cup released \cup spent = 1 .. cursor
       /\ held \cap released = {} /\ held \cap spent = {} /\ released \cap spent = {}

\* The cache holds one entry per prompt and at most MaxEntries, under any
\* overlap of misses; what is reported, recorded and cached succeeded.
AccountsMatch ==
    /\ Len(store) <= MaxEntries
    /\ \A i, j \in DOMAIN store : store[i].key = store[j].key => i = j
    /\ \A e \in entries : e.caller \in costs
    /\ \A c \in costs : call[c].res \in Answer

\* A deadline around the chain ends every call, though models may hang.
ChainDeadlineEnds ==
    \A c \in Caller :
        (deadline = "chain" /\ call[c].pc # "idle") ~> (call[c].pc = "done")

\* What a caller is told is true: a replayed answer is its own, the chunks it
\* saw belong to the answer it got, and only a real cancellation keeps the
\* fallback from being asked.
AnswersAreTrue == RepliesAreOwn /\ OneAnswerSeen /\ DeadlineFailsOver

\* What the layers keep for later calls agrees with what the calls did: script
\* slots, cache entries, recorded entries and reported costs.
BooksBalance == TypeOK /\ TurnsConserved /\ AccountsMatch
================================================================================
