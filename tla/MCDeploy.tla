------------------------------ MODULE MCDeploy ------------------------------
(* Three builds of one application.  "old" and "side" share a recipe and  *)
(* know different components; "new" renames Draft to Article, by two hops  *)
(* or by one whose migration throws.                                       *)
EXTENDS Deploy

mcBuild == {"old", "side", "new"}
mcComponent == {"Draft", "Article", "Note"}
mcDefines == [b \in mcBuild |->
    CASE b = "old" -> {"Draft"} [] b = "side" -> {"Draft", "Note"} [] b = "new" -> {"Article"}]
mcReads == [s \in {"write", "publish", "annotate"} |->
    CASE s = "write" -> "Draft" [] s = "publish" -> "Article" [] s = "annotate" -> "Note"]
mcUses == [b \in mcBuild |->
    CASE b = "old" -> {"write"} [] b = "side" -> {"annotate"} [] OTHER -> {"publish"}]
mcRecipe == [b \in mcBuild |-> CASE b = "new" -> 3 [] OTHER -> 1]
mcCalledAt == <<"Draft", "Article", "Article">>
mcRunAt == <<"write", "write", "publish">>
mcBroken == [b \in mcBuild |-> IF b = "new" THEN {<<1, 3>>} ELSE {}]
=============================================================================
