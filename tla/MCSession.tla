----------------------------- MODULE MCSession ------------------------------
(* Two services on one path, two attached processes; only one may close.  *)
EXTENDS Session

CONSTANTS c1, c2
MCScopes == [c \in Clients |-> IF c = c1 THEN {"admin"} ELSE {"read", "write"}]
=============================================================================
