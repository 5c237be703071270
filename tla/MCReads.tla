------------------------------ MODULE MCReads -------------------------------
(* Three rows of two groups; the two older ones share their created_at.    *)
EXTENDS Reads

Perms == Permutations(Admins) \cup Permutations(Finders)
MCGroup == <<"g", "g", "h">>
MCAt == <<2, 1, 1>>
MCOrder ==
    [x \in AllIndexes |-> CASE x = "node_fts" -> <<3, 1, 2>> [] x = "name" -> <<2, 3, 1>>
                            [] x = "summary" -> <<3, 2, 1>> [] x = "edge_fts" -> <<2, 1, 3>> [] OTHER -> <<3, 1, 2>>]
=============================================================================
