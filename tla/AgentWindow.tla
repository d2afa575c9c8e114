---------------------------- MODULE AgentWindow ----------------------------
(***************************************************************************)
(* ReactAgent behind withMessageWindow: what callLLM puts into a request   *)
(* (packages/stdlib/src/systems.ts), and what recentMessages leaves of it. *)
(***************************************************************************)
EXTENDS ReactAgent, ContextWindow

CONSTANT Windows    \* pairs <<maxMessages, maxTokens>> of a withMessageWindow

ASSUME WindowsAssumption ==
    Windows \subseteq (Nat \cup {Unset}) \X (Nat \cup {Unset})

\* executeTools appends one tool message for each call it answers.
Parts(m) ==
    IF m.role = "tool"
    THEN LET calls == SetToSeq(m.calls)
         IN [i \in DOMAIN calls |-> [role |-> "tool", calls |-> {calls[i]}]]
    ELSE <<m>>

RequestMessages(msgs) == FlattenSeq([i \in DOMAIN msgs |-> Parts(msgs[i])])

\* The agent's SystemPrompt goes beside the messages; a conversation may also have
\* been opened with a system message among them.
Openings == {<<>>, <<[role |-> "system", calls |-> {}]>>}

Asked(window) == UNION {window[i].calls : i \in {i \in DOMAIN window : window[i].role = "assistant"}}

\* Whatever the bounds of a withMessageWindow around the model, every request of the
\* agent is one a provider takes: it starts with the system message there is, is
\* otherwise the end of the conversation, and holds no tool result without the call
\* that asked for it, which a cut between an assistant message and one of several
\* results, or between two of the results, would leave.
WindowIsValid ==
    phase = "exec" /\ "callLLM" \in Scheduled =>
        \A opening \in Openings, w \in Windows :
            LET conversation == RequestMessages(agent.msgs)
                window == RecentMessages(opening \o conversation, w[1], w[2], TRUE)
            IN /\ IsPrefix(opening, window)
               /\ IsSuffix(SubSeq(window, Len(opening) + 1, Len(window)), conversation)
               /\ \A i \in DOMAIN window : window[i].role = "tool" =>
                     window[i].calls \subseteq Asked(SubSeq(window, 1, i))
=============================================================================
