---------------------------- MODULE MCKnowledgeBase ----------------------------
(* Two corpus files with three revisions, two ingestions, one upload and one  *)
(* search; the second ingestion runs with another embedding model.            *)
EXTENDS KnowledgeBase, TLC

MCPosition == [p \in Paths |-> IF p = "a.md" THEN 1 ELSE 2]
MCCorpora == {<<"r3", "r2">>, <<"absent", "r3">>, <<"r2", "malformed">>}
MCDirectories == {("a.md" :> c[1]) @@ ("b.md" :> c[2]) : c \in MCCorpora}
MCServiceOf == [r \in Revisions |-> IF r = "r2" THEN "payment" ELSE "order"]
MCEnvironmentOf == [r \in Revisions |-> IF r = "r2" THEN "staging" ELSE "common"]
MCSizeOf == [r \in Revisions |-> IF r = "r1" THEN 2 ELSE 1]
MCSimilarity == [r \in Revisions |-> IF r = "r1" THEN 2 ELSE 1]
MCKeywords == [r \in Revisions |-> CASE r = "r1" -> 1 [] r = "r2" -> 0 [] r = "r3" -> 2]
MCModelOf == [a \in Actors |-> IF a = "i2" THEN "new" ELSE "current"]

Form(shared, service, environment) ==
  [registered |-> TRUE, target |-> "demo", home |-> "staging", shared |-> shared,
   service |-> service, environment |-> environment, revision |-> "r3"]
MCMetadata == {Form(TRUE, "none", "common"), Form(FALSE, "order", "staging"), Form(TRUE, "none", "production")}
MCScopes == {[target |-> t, service |-> s, environment |-> "staging"] :
               t \in {Legacy, "demo"}, s \in {"order"}}
=============================================================================
