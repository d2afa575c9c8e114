------------------------------- MODULE Recording -------------------------------
(***************************************************************************)
(* Record and replay (packages/core/src/recording.ts).  recordingModel     *)
(* fixes the index and the digest of a call before it awaits the model and *)
(* keeps an entry when the call succeeds; replayModel answers later calls  *)
(* from the entries: an exact digest first, the earliest entry otherwise.  *)
(* X_Variant is X with a plausible defect; nothing uses it.                *)
(***************************************************************************)
EXTENDS Naturals, Sequences, FiniteSets, FiniteSetsExt, Functions

CONSTANTS
    Caller,  \* the calls of a run; each is made once live and once in replay
    Prompts, \* the ways the calls' requests may be alike: functions from Caller to digests
    Opaque,  \* prompts whose answers copyModelResult cannot serialise
    Window   \* how far past the earliest unconsumed entry a match may lie

ASSUME RecordAssumption ==
    /\ IsFiniteSet(Caller) /\ Window \in Nat \ {0}
    /\ \A p \in Prompts : \A c \in Caller : p[c] # "edited"

VARIABLES
    prompt,    \* prompt[c]: the digest of c's request
    index,     \* index[c]: the index fixed when call c began, 0 before
    entries,   \* the captured entries
    consumed,  \* the entries already handed out
    edited,    \* the calls whose prompt was edited since the recording
    strict,    \* ReplayOptions.strict, "unset" before replayModel is built
    again,     \* the calls made again in replay, in their order
    replayed   \* replayed[c]: the entry c was answered with; empty if it was refused

recordVars == <<prompt, index, entries, consumed, edited, strict, again, replayed>>

Entry == [caller : Caller, at : 1 .. Cardinality(Caller), hash : UNION {{p[c] : c \in Caller} : p \in Prompts}]

RecordTypeOK ==
    /\ prompt \in Prompts
    /\ index \in [Caller -> 0 .. Cardinality(Caller)]
    /\ entries \subseteq Entry
    /\ consumed \subseteq entries
    /\ edited \subseteq Caller
    /\ strict \in {"unset", "strict", "lenient"}
    /\ again \in Seq(Caller)
    /\ replayed \in [Caller -> SUBSET entries]

RecordInit ==
    /\ prompt \in Prompts
    /\ index = [c \in Caller |-> 0]
    /\ entries = {}
    /\ consumed = {}
    /\ edited = {}
    /\ strict = "unset"
    /\ again = <<>>
    /\ replayed = [c \in Caller |-> {}]

-----------------------------------------------------------------------------
\* prepare(): invocation order and request are fixed before the await.
Prepare(c) == index' = [index EXCEPT ![c] = Max({index[d] : d \in Caller}) + 1]

\* capture(): only successes, and only what can be copied, are kept.
Capture(c) ==
    entries' = IF prompt[c] \in Opaque THEN entries
               ELSE entries \cup {[caller |-> c, at |-> index[c], hash |-> prompt[c]]}

-----------------------------------------------------------------------------
Unconsumed == entries \ consumed
Earliest(E) == CHOOSE e \in E : \A f \in E : e.at <= f.at

\* The unconsumed entries an exact match may resolve to: those of the same
\* digest, at most Window positions from the cursor.
Matches_Anywhere(hash) == {e \in entries : e.hash = hash}
Matches(hash) ==
    LET cursor == Earliest(Unconsumed)
        between(e) == {f \in entries : cursor.at <= f.at /\ f.at < e.at}
    IN  {e \in Unconsumed : e.hash = hash /\ Cardinality(between(e)) < Window}

\* take(): the entry that answers a request with this digest; none when the
\* recording is exhausted, or has drifted under strict.
Take(hash) ==
    IF Unconsumed = {} THEN {}
    ELSE IF Matches(hash) # {} THEN {Earliest(Matches(hash))}
    ELSE IF strict = "strict" THEN {} ELSE {Earliest(Unconsumed)}

\* An edited prompt has a digest that no entry has.
Digest(c) == IF c \in edited THEN "edited" ELSE prompt[c]

\* replayModel(recording, opts), for a program some of whose prompts changed.
OpenReplay ==
    /\ strict = "unset"
    /\ strict' \in {"strict", "lenient"}
    /\ edited' \in SUBSET Caller
    /\ UNCHANGED <<prompt, index, entries, consumed, again, replayed>>

\* A replayed call: answered, or aborted before take() or between the chunks
\* of its answer, which leaves the entry consumed.
ReplayCall(c) ==
    /\ strict # "unset" /\ c \notin Range(again)
    /\ again' = Append(again, c)
    /\ \E taken \in {Take(Digest(c)), {}} : \E given \in {taken, {}} :
           /\ consumed' = consumed \cup taken
           /\ replayed' = [replayed EXCEPT ![c] = given]
    /\ UNCHANGED <<prompt, index, entries, edited, strict>>

-----------------------------------------------------------------------------
\* An entry answers at most one call.  A strict replay never hands a call the
\* answer to another prompt; a replay of unedited prompts that were all
\* recorded, and fit the window, gives every call an answer to its own prompt,
\* whatever order the calls are made in; and one made in the recorded order gives
\* every call its own answer, also when prompts were edited or are alike and the
\* live calls ended in another order.
RepliesAreOwn ==
    LET allRecorded == {f.caller : f \in entries} = Caller
        inReach == Cardinality(entries) <= Window
        inOrder == \A i, j \in DOMAIN again :
            replayed[again[i]] # {} /\ (i < j => index[again[i]] < index[again[j]])
        prefix == {index[again[i]] : i \in DOMAIN again} = 1 .. Len(again)
    IN  \A c \in Caller : \A e \in replayed[c] :
            /\ \A d \in Caller \ {c} : e \notin replayed[d]
            /\ (strict = "strict" \/ (edited = {} /\ allRecorded /\ inReach)) => e.hash = prompt[c]
            /\ (allRecorded /\ inOrder /\ prefix) => e.caller = c
================================================================================
