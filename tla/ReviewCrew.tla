----------------------------- MODULE ReviewCrew -----------------------------
(***************************************************************************)
(* examples/code-review-crew: three reviewers append their findings to the *)
(* pull request's entity, the findings are merged and a verdict reached.   *)
(* A finding is its place, its severity and its lens; two lenses may       *)
(* report the same place.                                                  *)
(***************************************************************************)
EXTENDS Blackboard, TLC

CONSTANTS MaxFailures, MaxSends
VARIABLES world, nextId, dirt, failed, sent, aborting, conflict

Pull == 1
Lenses == {"security", "performance", "style"}

Systems == <<"security", "performance", "style", "dedupe", "verdict">>
OnPr == Term({"agent:review-crew", "Pr"}, {})
Query == [security |-> OnPr, performance |-> OnPr, style |-> OnPr,
          dedupe |-> Term({"agent:review-crew", "Findings"}, {}),
          verdict |-> Term({"agent:review-crew", "Pr", "Deduped"}, {})]
Reducers == [Findings |-> "append"]
Fallible == Lenses \cup {"verdict"}
Cancellable == FALSE

Guard(s, e, w) == TRUE

\* The severity a lens gives the one issue of this pull request; 0 for none.
\* Merging reads the titles of two findings of one place, and throws where
\* the model gave none.
Answers(s, e, w) ==
    CASE s = "performance" -> {<<s, 0>>, <<s, 2>>}
      [] s \in Lenses -> {<<s, 0>>, <<s, 1>>}
      [] s = "dedupe" /\ (\E i, j \in DOMAIN w[e]["Findings"] :
            i # j /\ w[e]["Findings"][i].place = w[e]["Findings"][j].place) -> {<<"ok">>, Fail}
      [] OTHER -> {<<"ok">>}

\* mergeFindings: the first report of an issue opens its entry, the most
\* severe reading is kept, and every lens is credited once.
Merge(merged, f) ==
    IF ~\E i \in DOMAIN merged : merged[i].place = f.place
    THEN Append(merged, [place |-> f.place, severity |-> f.severity, reviewers |-> <<f.lens>>])
    ELSE [i \in DOMAIN merged |->
            IF merged[i].place # f.place THEN merged[i]
            ELSE [place |-> f.place,
                  severity |-> IF f.severity > merged[i].severity THEN f.severity
                               ELSE merged[i].severity,
                  reviewers |-> IF f.lens \in ToSet(merged[i].reviewers) THEN merged[i].reviewers
                                ELSE Append(merged[i].reviewers, f.lens)]]
mergeFindings(flagged) == FoldLeft(Merge, <<>>, flagged)

Found(s, e, w, severity) ==
    IF severity = 0 THEN <<>>
    ELSE <<[place |-> w[e]["Pr"], severity |-> severity, lens |-> s]>>

Body(s, e, w, id, answer) ==
    CASE s \in Lenses -> <<Add(e, "Findings", Found(s, e, w, answer[2]))>>
      [] s = "dedupe" -> <<Set(e, "Deduped", mergeFindings(w[e]["Findings"]))>>
      [] s = "verdict" -> <<Set(e, "Review", [pr |-> w[e]["Pr"], of |-> w[e]["Deduped"]])>>

Sends(w, n) == {<<Add(Pull, "Pr", n + 1)>>}
Starts == {<<"agent:review-crew" :> TRUE>>}

Run == INSTANCE Workflow

(***************************************************************************)
(* Merging loses nothing: every finding is in the entry of its place, at   *)
(* no higher severity, with its lens credited, and there is one entry per  *)
(* place; and what is merged is never more than what was found.            *)
(***************************************************************************)
Sound ==
    LET found == Value(world, Pull, "Findings", <<>>)
        merged == mergeFindings(found)
    IN /\ \A i \in DOMAIN found :
             Cardinality({j \in DOMAIN merged :
                /\ merged[j].place = found[i].place
                /\ merged[j].severity >= found[i].severity
                /\ found[i].lens \in ToSet(merged[j].reviewers)}) = 1
       /\ Cardinality({merged[j].place : j \in DOMAIN merged}) = Len(merged)
       /\ Len(Value(world, Pull, "Deduped", <<>>)) <= Len(merged)

(***************************************************************************)
(* At rest, without an error, the review is of the pull request last sent  *)
(* and of everything found: a verdict reached over the findings of the     *)
(* request before (the crew wakes together) is replaced.                   *)
(***************************************************************************)
Settled ==
    Holds(world, Pull, "Pr") /\ ~Holds(world, Pull, SystemError) =>
       /\ Holds(world, Pull, "Review")
       /\ world[Pull]["Review"] = [pr |-> world[Pull]["Pr"],
                                   of |-> mergeFindings(world[Pull]["Findings"])]
=============================================================================
