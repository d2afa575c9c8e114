---------------------------- MODULE MCReactAgent ----------------------------
(* A small agent, with the windows a withMessageWindow may cut of what its   *)
(* requests would send.                                                      *)
EXTENDS AgentWindow

\* An assistant message that calls tools is the long one.
Cost(messages) == FoldLeft(LAMBDA sum, m : sum + 1 + Cardinality(m.calls), 0, messages)

SmallWindows ==
    {<<n, Unset>> : n \in 1 .. 6} \cup {<<Unset, n>> : n \in {1, 3, 6}} \cup {<<3, 5>>}

\* "Always keep at least the single most recent message, even if it alone exceeds the
\* budget - dropping it would send an empty conversation" (context.ts:89): whatever the
\* token budget, a request has a message beside the system prompt.  That is what the comment
\* says and not what the code does: a newest tool result above the budget is kept and then
\* dropped as an orphan.  No .cfg lists it; added to ReactAgent_careful.cfg, it is violated.
WindowHasAMessage ==
    phase = "exec" /\ "callLLM" \in Scheduled =>
        \A opening \in Openings, w \in Windows : w[1] = Unset =>
            Len(RecentMessages(opening \o RequestMessages(agent.msgs), w[1], w[2], TRUE)) > Len(opening)
=============================================================================
