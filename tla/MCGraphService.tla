--------------------------- MODULE MCGraphService ---------------------------
(* Small instances of GraphService for TLC: which requests are sent, and    *)
(* the symmetry of clients and of replay runs.                             *)
EXTENDS GraphService, TLC

Symmetry == Permutations(Clients) \cup Permutations(Tasks)

SwapRequests == {"assert", "delete", "clear_all", "clear_all_preserve", "rebuild"}
RebuildRequests == {"episode", "catch_up", "force_rebuild", "clear_all"}
JobRequests == {"assert", "catch_up", "clear_all"}
=============================================================================
