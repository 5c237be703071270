---------------------------- MODULE MCRecovery ----------------------------
EXTENDS Recovery, TLC
CONSTANTS f1, f2
MCWalFiles == {f1, f2}
(* The first file holds the first two lines of the default stream.         *)
MCLinesIn == (f1 :> {0, 1}) @@ (f2 :> {2})
===========================================================================
