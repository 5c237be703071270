----------------------------- MODULE WalStream ------------------------------
(***************************************************************************)
(* What the rest of the service takes a group's WAL for: a set of numbered *)
(* lines that replay can read, and a counter that is past all of them.     *)
(* Files, rotation, sizes and the bounds manifest are not seen here. The   *)
(* only damage is at the unterminated tail a failed append leaves: the     *)
(* next append of the same writer may join it, and loses one line.         *)
(***************************************************************************)
EXTENDS Naturals

CONSTANTS
    ChunkSizes,  \* lines a chunk may have
    None,        \* no writer, no tail
    Junk         \* a tail that does not parse

VARIABLES
    lines,       \* the seqs of the lines a replay reads
    next,        \* the seq of the next line, None while there is no writer
    tail         \* what the writer's file ends with and no newline: a seq, Junk or None

vars == <<lines, next, tail>>

Init == lines = {} /\ next = None /\ tail = None

(* The first k lines of a chunk reach the log: on lines of their own, or   *)
(* after a tail, which then parses no more and takes the first with it.    *)
Reaches(k) ==
    LET got == {next + i : i \in 0..(k - 1)}
    IN \/ lines' = lines \cup got
       \/ tail # None /\ lines' = (lines \ {tail}) \cup (got \ {next})

(* An append that returns Ok: all of the chunk.                            *)
Append(n) ==
    /\ next # None
    /\ Reaches(n)
    /\ next' = next + n
    /\ tail' = None

(* An append that stops early: some lines, the last perhaps unterminated.  *)
Partial(n) ==
    \E k \in 0..n :
        /\ Reaches(k)
        /\ tail' \in {None, Junk} \cup ({next + k - 1} \cap lines')

(* The error is returned; the seqs are burnt.                              *)
Fail(n) ==
    /\ next # None
    /\ Partial(n) \/ UNCHANGED <<lines, tail>>
    /\ next' = next + n

(* The writer turns to a new file and leaves a tail where it is.           *)
Rotate == next # None /\ tail' = None /\ UNCHANGED <<lines, next>>

(* The process dies, perhaps inside an append.                             *)
Stop(n) ==
    /\ next # None /\ next' = None
    /\ UNCHANGED lines \/ \E k \in 0..n : Reaches(k)
    /\ tail' = None

(* A new writer counts on from the highest line that is left.              *)
Open ==
    /\ next = None
    /\ next' \in Nat
    /\ \A s \in lines : s < next'
    /\ next' = 0 \/ next' - 1 \in lines
    /\ UNCHANGED <<lines, tail>>

(* A line comes from outside and the counter is moved past it.             *)
Deliver ==
    /\ next # None
    /\ lines' = lines \cup {next} /\ next' = next + 1
    /\ UNCHANGED tail

Next ==
    \/ \E n \in ChunkSizes : Append(n) \/ Fail(n) \/ Stop(n)
    \/ Rotate \/ Open \/ Deliver

Spec == Init /\ [][Next]_vars
=============================================================================
