------------------------------ MODULE MCIngest ------------------------------
(* Two episodes of a group whose ontology file may make Person identity-   *)
(* bearing.                                                                *)
EXTENDS Ingest, TLC

CONSTANTS e1, e2

Labels == {"", "Entity", "person", "Person", "Agent", "Spy", "Unclassified", "Merged", "knows", "KNOWS", "acquainted", "likes", "LIKES", "ACQUAINTED"}
MCNorm == [s \in Labels |-> CASE s = "person" -> "Person" [] s \in {"knows"} -> "KNOWS"
                              [] s = "acquainted" -> "ACQUAINTED" [] OTHER -> s]
Type(n, p, i, x) == [name |-> n, parent |-> p, identity |-> i, extract |-> x]
Knows == <<[name |-> "knows", aliases |-> {"acquainted"}, extract |-> TRUE]>>
Plain == [strict |-> TRUE, rels |-> Knows,
          types |-> <<Type("Agent", None, FALSE, TRUE), Type("person", "Agent", FALSE, TRUE)>>]
Flagged == [strict |-> TRUE, rels |-> Knows,
            types |-> <<Type("Agent", None, FALSE, TRUE), Type("person", "Agent", TRUE, TRUE),
                        Type("Spy", None, FALSE, FALSE)>>]
MCFiles == {Plain, Flagged}
MCExtractions ==
    {[ents |-> <<[name |-> "a", type |-> "person"], [name |-> "", type |-> "Agent"]>>,
      edges |-> {<<"a", "b", "acquainted">>}],
     [ents |-> <<[name |-> "b", type |-> "Spy"], [name |-> "a", type |-> "person"]>>,
      edges |-> {<<"b", "a", "acquainted">>, <<"b", "b", "likes">>}]}
BudgetAll == [episode |-> 2, edit |-> 1, op |-> 1]
BudgetTwo == [episode |-> 2, edit |-> 0, op |-> 0]
=============================================================================
