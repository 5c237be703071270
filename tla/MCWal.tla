------------------------------- MODULE MCWal -------------------------------
(* The log on disk, in two kinds of instance chosen by the initial state:  *)
(* one group's directory with its writer and its readers (WalFiles), or    *)
(* the tools at rest beside it: a small graph that is dumped, or a log     *)
(* with everything a log may hold, stripped and replayed (WalTools).       *)
EXTENDS WalFiles

CONSTANTS
    BatchSize, WindowSize, SampleCap, ProbeRejected, PageSize, MaxReplays,
    MaxToolEvents, MaxKills  \* MaxEvents and MaxCrashes of the tools

VARIABLES files, opts, run, stats, db, stop, tool, source, tmp, replays, kills
toolVars == <<files, opts, run, stats, db, stop, tool, source, tmp, replays, kills>>

MCNodeTables == <<"entity", "episode", "relation">>
MCEdgeTables == <<"relates", "mentions", "next">>

Tools == INSTANCE WalTools WITH
             NodeTables <- MCNodeTables, EdgeTables <- MCEdgeTables,
             MaxEvents <- MaxToolEvents, MaxCrashes <- MaxKills, crashes <- kills

ASSUME ToolsAssumption == Tools!ReplayAssumption

Row(id, ends, text, vec) == [id |-> id, ends |-> ends, text |-> text, vec |-> vec]

(* The three mentions of "p" straddle two pages; one is the service's own. *)
MCSource ==
    [entity |-> <<Row("a", None, "text of a", "param"), Row("b", None, None, "none")>>,
     episode |-> <<Row("o", None, None, "none"), Row("p", None, None, "none")>>,
     relation |-> <<Row("r", None, "text of r", "param")>>,
     relates |-> <<Row(None, <<"a", "r", "b">>, None, "none")>>,
     mentions |-> <<Row(None, <<"p", "a">>, None, "none"), Row("m", <<"p", "a">>, None, "none"),
                    Row("n", <<"p", "b">>, None, "none")>>,
     next |-> <<Row(None, <<"o", "p">>, None, "none")>>]

File(name, lines) == [name |-> name, lines |-> lines, readable |-> TRUE]

(* Written by two sessions, so that names and seqs disagree.               *)
Sessions ==
    LET L(seq, tmpl, id, ends, text, vec) == Tools!Line(seq, tmpl, id, ends, text, vec)
    IN  <<File(0, <<L(4, "edge", "r", <<"a", "b">>, None, "none"), L(5, "edge", "s", <<"a", "c">>, None, "none"),
                    L(6, "delete", "b", None, None, "none"), L(7, "delete", "c", None, None, "none")>>),
          File(1, <<L(1, "entity", "a", None, "text of a", "inline"), L(2, "query", None, None, None, "none"),
                    L(3, "entity", "b", None, "text of b", "param")>>)>>

(* Records that fail, are torn, malformed or unreadable.                   *)
Damaged ==
    LET L(seq, tmpl, id, ends, text, vec) == Tools!Line(seq, tmpl, id, ends, text, vec)
    IN  <<File(0, <<L(1, "entity", "a", None, "text of a", "param"), L(2, "set_vector", "a", None, "text of a", "malformed"),
                    L(0, "torn", None, None, None, "none"), L(3, "bad", "x", None, None, "none"),
                    L(4, "bad", "y", None, None, "none")>>),
          File(1, <<L(5, "broken", "x", None, None, "none"), L(6, "broken", "y", None, None, "none"),
                    L(7, "worse", "z", None, None, "none"), L(8, "set_vector", "a", None, None, "param")>>),
          [File(2, <<L(9, "entity", "z", None, None, "none")>>) EXCEPT !.readable = FALSE]>>

Directory == tool.pc = "absent"

MCInit ==
    /\ Init /\ Tools!Idle
    /\ \/ source = None /\ files = <<>> /\ tool = [pc |-> "absent"]
       \/ source = MCSource /\ files = <<>> /\ tool = [pc |-> "dump", t |-> 1, offset |-> 0]
       \/ source = None /\ files \in {Sessions, Damaged} /\ tool = [pc |-> "ready"]

(* The tools may stop: no deadlock is looked for there.                    *)
MCNext ==
    \/ Directory /\ Next /\ UNCHANGED toolVars
    \/ ~Directory /\ Tools!Next /\ UNCHANGED vars
    \/ ~Directory /\ UNCHANGED <<vars, toolVars>>

MCSpec == MCInit /\ [][MCNext]_<<vars, toolVars>>

(* In an instance of the tools: at every moment of a replay, a cancelled,  *)
(* failed or resumed one included, the database is what the committed      *)
(* prefix of the log makes of it, every line is accounted for once, and no *)
(* vector is another row's or the log's own (replay.rs).                   *)
ReplayExact == ~Directory => Tools!ReplayExact

(* In an instance of the tools: the log that knowledge_dump_wal wrote      *)
(* replays to the nodes of the graph that was dumped, to no relation it    *)
(* did not have, and to every dumped relation that cannot straddle two     *)
(* pages among others of its sort key (dump.rs).                           *)
RoundTrip == ~Directory => Tools!RoundTrip
=============================================================================
