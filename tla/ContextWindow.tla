--------------------------- MODULE ContextWindow ---------------------------
(***************************************************************************)
(* recentMessages (packages/stdlib/src/context.ts): the slice of a         *)
(* conversation that withMessageWindow lets a model see.  The conversation *)
(* itself is not touched.  A message is a record with a role; what its     *)
(* text costs is the application's estimate, a constant.                   *)
(* X_Variant is X with a plausible defect; nothing uses it.                *)
(***************************************************************************)
EXTENDS Integers, Sequences, SequencesExt

CONSTANT Estimate(_)  \* WindowOptions.estimate: what a list of messages costs

Unset == -1     \* an option that is not given

\* How many messages, from the first on, have the role.
Leading(messages, role) ==
    CHOOSE n \in 0 .. Len(messages) :
        /\ \A i \in 1 .. n : messages[i].role = role
        /\ n < Len(messages) => messages[n + 1].role # role

LastOf(messages, n) == SubSeq(messages, Len(messages) - n + 1, Len(messages))

\* A tool message whose assistant message was cut off is not sent.
DropOrphanLeadingTools_One(messages) ==
    IF messages # <<>> /\ messages[1].role = "tool" THEN Tail(messages) ELSE messages
DropOrphanLeadingTools(messages) ==
    LastOf(messages, Len(messages) - Leading(messages, "tool"))

\* The walk from the newest message back ends at the first that does not fit; a
\* newest message that alone breaks the token budget is kept.
Kept(head, body, maxMessages, maxTokens) ==
    LET Few(n) == maxMessages = Unset \/ n <= maxMessages
        Cheap(n) == maxTokens = Unset \/ Estimate(head \o LastOf(body, n)) <= maxTokens
        fitting == CHOOSE n \in 0 .. Len(body) :
                     /\ \A k \in 1 .. n : Few(k) /\ Cheap(k)
                     /\ n < Len(body) => ~ (Few(n + 1) /\ Cheap(n + 1))
    IN IF fitting = 0 /\ body # <<>> /\ Few(1) THEN LastOf(body, 1) ELSE LastOf(body, fitting)

RecentMessages(messages, maxMessages, maxTokens, keepSystem) ==
    LET pinned == IF keepSystem THEN Leading(messages, "system") ELSE 0
        head == SubSeq(messages, 1, pinned)
        body == SubSeq(messages, pinned + 1, Len(messages))
    IN IF maxMessages = Unset /\ maxTokens = Unset
       THEN messages
       ELSE head \o DropOrphanLeadingTools(Kept(head, body, maxMessages, maxTokens))
=============================================================================
