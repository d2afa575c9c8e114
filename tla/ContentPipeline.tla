--------------------------- MODULE ContentPipeline ---------------------------
(***************************************************************************)
(* examples/content-pipeline: one post (entity 1) flows from its brief     *)
(* over an outline, parallel section drafts and their assembly to the      *)
(* published text.                                                         *)
(***************************************************************************)
EXTENDS Blackboard, TLC

CONSTANTS MaxFailures, MaxSends
VARIABLES world, nextId, dirt, failed, sent, aborting, conflict

Post == 1

Systems == <<"outline", "draftSections", "drafter", "assemble", "editor">>
Query == [outline |-> Term({"Brief"}, {"Outline"}),
          draftSections |-> Term({"Outline"}, {}),
          drafter |-> Term({"Section"}, {}),
          assemble |-> Term({"Outline", "SectionDrafts"}, {}),
          editor |-> Term({"Assembled"}, {"Published"})]
Reducers == [SectionDrafts |-> "append"]
Fallible == {"outline", "drafter", "editor"}
Cancellable == FALSE

Guard(s, e, w) == s = "assemble" => Len(w[e]["SectionDrafts"]) = w[e]["Outline"]

\* The number of headings the plan comes back with: extractJson tells the
\* model the schema and holds the reply to nothing.  A reply without a list
\* of sections (NoList) is stored all the same and throws in draftSections.
NoList == -1
Answers(s, e, w) ==
    CASE s = "outline" -> {<<"plan", n>> : n \in {NoList, 0, 1, 3}}
      [] s = "draftSections" /\ w[e]["Outline"] = NoList -> {Fail}
      [] OTHER -> {<<"ok">>}

Body(s, e, w, id, answer) ==
    CASE s = "outline" -> <<Set(e, "Outline", answer[2])>>
      [] s = "draftSections" ->
           [i \in 1 .. w[e]["Outline"] |-> Spawn(id + i - 1, [Section |-> [post |-> e, index |-> i]])]
      [] s = "drafter" -> LET section == w[e]["Section"]
                          IN <<Add(section.post, "SectionDrafts", <<section.index>>)>>
      [] s = "assemble" -> <<Set(e, "Assembled", SortSeq(w[e]["SectionDrafts"], <))>>
      [] s = "editor" -> <<Set(e, "Published", w[e]["Assembled"])>>

Sends(w, n) == {<<Add(Post, "Brief", n)>>}
Starts == {<<<<>>>>}

Run == INSTANCE Workflow

(***************************************************************************)
(* No section is drafted twice, and what is assembled and published is     *)
(* every section of the outline once, in the outline's order.              *)
(***************************************************************************)
Sound ==
    LET drafts == Value(world, Post, "SectionDrafts", <<>>)
        whole == [i \in 1 .. Value(world, Post, "Outline", 0) |-> i]
    IN /\ Cardinality(ToSet(drafts)) = Len(drafts)
       /\ \A c \in {"Assembled", "Published"} : Holds(world, Post, c) => world[Post][c] = whole

(***************************************************************************)
(* At rest a post with a brief is published, or an entity shows an error,  *)
(* or the outline has no section, which nothing picks up.                  *)
(***************************************************************************)
Settled ==
    Holds(world, Post, "Brief") =>
       \/ Holds(world, Post, "Published")
       \/ Value(world, Post, "Outline", 1) = 0
       \/ \E e \in DOMAIN world : Holds(world, e, SystemError)
=============================================================================
