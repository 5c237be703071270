------------------------------ MODULE WalTools ------------------------------
(***************************************************************************)
(* knowledge_dump_wal writes the graph out as a fresh log, page by page,   *)
(* nodes before edges; knowledge_strip_wal_embeddings rewrites the files   *)
(* of a log without their vectors, and may be killed on the way; both hold *)
(* the write lock. The log is then replayed, cancelled and resumed, into   *)
(* an empty database.                                                      *)
(***************************************************************************)
EXTENDS Replay

CONSTANTS
    NodeTables, EdgeTables,  \* sequences of tables, in the order of the dump
    PageSize,                \* PAGE_SIZE
    MaxEvents,               \* lines of a file before the writer rotates
    MaxReplays,              \* bound: replays, the resumed ones included
    MaxCrashes               \* bound: kills of the strip tool

VARIABLES
    tool,      \* what the tools do: [pc, ...]
    source,    \* source[table]: the rows of the graph, by uuid
    tmp,       \* temporary files of strips, left over ones included
    replays,   \* replays begun
    crashes

vars == <<files, opts, run, stats, db, stop, tool, source, tmp, replays, crashes>>
replayVars == <<opts, run, stats, db, stop, replays>>

Tables == NodeTables \o EdgeTables
Resting == tool.pc = "ready" /\ ~Running

-----------------------------------------------------------------------------
(* dump.rs.                                                                *)

(* What a page's query sorts by: the uuid of a node or of the relation row *)
(* in the middle of two hops, but the source of any other relation.        *)
SortKey(table, row) ==
    IF table \in Range(NodeTables) THEN row.id ELSE IF table = "relates" THEN row.ends[2] ELSE row.ends[1]

(* Rows with equal keys come in any order, another one in every query.     *)
Orders(table) ==
    LET rows == source[table]
    IN {p \in [DOMAIN rows -> DOMAIN rows] :
           IsInjective(p) /\ \A i \in DOMAIN rows : SortKey(table, rows[p[i]]) = SortKey(table, rows[i])}

(* ORDER BY key SKIP offset LIMIT PAGE_SIZE; source[table] is sorted.      *)
Page(table, order, offset) ==
    LET rows == source[table]
        end == IF offset + PageSize < Len(rows) THEN offset + PageSize ELSE Len(rows)
    IN [i \in 1..(end - offset) |-> rows[order[offset + i]]]

LogSize == FoldLeft(LAMBDA n, f : n + Len(f.lines), 0, files)

(* Mutant: the edges first.                                                *)
EdgesFirst == EdgeTables \o NodeTables

DumpOrder == Tables

(* log_mutation leaves the vectors out of what it logs.                    *)
strip_vector_params(vec) == IF vec = "param" THEN "stripped" ELSE vec

(* A node as a MERGE of its uuid that sets the rest, its vector included.  *)
NodeLines(table, rows) ==
    [i \in DOMAIN rows |->
        Line(LogSize + i - 1, table, rows[i].id, None, rows[i].text, strip_vector_params(rows[i].vec))]

(* MENTIONS without a uuid are left out: all that insert_mentions_edge ever *)
(* wrote. Other relations are written with an empty one.                   *)
Kept(table, row) == table = "mentions" => row.id # None

(* An edge as a MATCH of its ends and a MERGE between them.                *)
EdgeLines(table, rows) ==
    LET kept == SelectSeq(rows, LAMBDA r : Kept(table, r))
    IN [i \in DOMAIN kept |->
           Line(LogSize + i - 1, "edge", kept[i].id, kept[i].ends, None, "none")]

(* with_chunk: a chunk is not split; a full file is left behind.           *)
WithChunk(lines) ==
    IF lines = <<>> THEN files
    ELSE IF files = <<>> \/ Len(files[Len(files)].lines) + Len(lines) > MaxEvents
    THEN Append(files, [name |-> Len(files), lines |-> lines, readable |-> TRUE])
    ELSE [files EXCEPT ![Len(files)].lines = @ \o lines]

(* One page of one table; a short page is the last one.                    *)
DumpPage ==
    /\ tool.pc = "dump" /\ tool.t <= Len(Tables)
    /\ LET table == DumpOrder[tool.t]
       IN \E order \in Orders(table) :
             LET rows == Page(table, order, tool.offset)
                 lines == IF table \in Range(EdgeTables) THEN EdgeLines(table, rows) ELSE NodeLines(table, rows)
             IN /\ files' = WithChunk(lines)
                /\ tool' = IF Len(rows) < PageSize THEN [tool EXCEPT !.t = @ + 1, !.offset = 0]
                           ELSE [tool EXCEPT !.offset = @ + Len(rows)]
    /\ UNCHANGED <<source, tmp, crashes, replayVars>>

DumpEnds ==
    /\ tool.pc = "dump" /\ tool.t > Len(Tables)
    /\ tool' = [pc |-> "ready"]
    /\ UNCHANGED <<files, source, tmp, crashes, replayVars>>

(* A failed dump removes what it wrote; a directory that is not empty is   *)
(* refused, so the next one starts clean.                                  *)
DumpFails ==
    /\ tool.pc = "dump" /\ tool.t <= Len(Tables)
    /\ files' = <<>>
    /\ tool' = [pc |-> "dump", t |-> 1, offset |-> 0]
    /\ UNCHANGED <<source, tmp, crashes, replayVars>>

-----------------------------------------------------------------------------
(* wal_strip.rs.                                                           *)

NeedsRewrite(file) == \E l \in Range(file.lines) : l.vec \in {"param", "malformed"}
Malformed(file) == \E l \in Range(file.lines) : l.vec = "malformed"

(* Lines that do not parse are kept byte for byte.                         *)
transform_line(l) == [l EXCEPT !.vec = strip_vector_params(@)]

BeginStrip ==
    /\ Resting /\ replays = 0 /\ files # <<>>
    /\ tool' = [pc |-> "strip", f |-> 1]
    /\ UNCHANGED <<files, source, tmp, crashes, replayVars>>

(* scan_file: nothing to do, or a malformed vector, leaves the file alone. *)
ScanFile ==
    /\ tool.pc = "strip" /\ tool.f <= Len(files)
    /\ tool' = IF NeedsRewrite(files[tool.f]) /\ ~Malformed(files[tool.f])
               THEN [pc |-> "rewrite", f |-> tool.f, l |-> 1]
               ELSE [tool EXCEPT !.f = @ + 1]
    /\ tmp' = IF tool'.pc = "rewrite" THEN Append(tmp, <<>>) ELSE tmp
    /\ UNCHANGED <<files, source, crashes, replayVars>>

(* rewrite_file: the lines go to a temporary file.                         *)
RewriteLine ==
    /\ tool.pc = "rewrite" /\ tool.l <= Len(files[tool.f].lines)
    /\ tmp' = [tmp EXCEPT ![Len(tmp)] = Append(@, transform_line(files[tool.f].lines[tool.l]))]
    /\ tool' = [tool EXCEPT !.l = @ + 1]
    /\ UNCHANGED <<files, source, crashes, replayVars>>

DropLast(s) == SubSeq(s, 1, Len(s) - 1)

(* commit_or_cleanup: renamed over the file once complete; on any error    *)
(* the temporary file goes.                                                *)
CommitFile ==
    /\ tool.pc = "rewrite"
    /\ \/ /\ tool.l > Len(files[tool.f].lines)
          /\ files' = [files EXCEPT ![tool.f].lines = tmp[Len(tmp)]]
       \/ UNCHANGED files
    /\ tmp' = DropLast(tmp)
    /\ tool' = [pc |-> "strip", f |-> tool.f + 1]
    /\ UNCHANGED <<source, crashes, replayVars>>

EndStrip ==
    /\ tool.pc = "strip" /\ tool.f > Len(files)
    /\ tool' = [pc |-> "ready"]
    /\ UNCHANGED <<files, source, tmp, crashes, replayVars>>

(* Killed: a temporary file stays, under a name nobody reads.              *)
CrashInStrip ==
    /\ tool.pc \in {"strip", "rewrite"} /\ crashes < MaxCrashes
    /\ crashes' = crashes + 1
    /\ tool' = [pc |-> "ready"]
    /\ UNCHANGED <<files, source, tmp, replayVars>>

-----------------------------------------------------------------------------

ReplayAll ==
    /\ Resting /\ files # <<>> /\ replays = 0
    /\ replays' = 1
    /\ \E dry \in BOOLEAN, to \in {None} \cup {l.seq : l \in Range(files[1].lines)} : Begin(0, to, dry)
    /\ UNCHANGED <<tool, source, tmp, crashes>>

Resume ==
    /\ Resting /\ replays \in 1..(MaxReplays - 1) /\ ~opts.dry
    /\ replays' = replays + 1
    /\ Begin(ResumeFrom, None, FALSE)
    /\ UNCHANGED <<tool, source, tmp, crashes>>

Replaying == ReplayStep /\ UNCHANGED <<tool, source, tmp, replays, crashes>>

Idle ==
    /\ opts = [from |-> 0, to |-> None, dry |-> FALSE, ahead |-> FALSE] /\ run = Stopped /\ stats = NoStats
    /\ db = Blank /\ stop = FALSE /\ tmp = <<>> /\ replays = 0 /\ crashes = 0

Next ==
    \/ DumpPage \/ DumpEnds \/ DumpFails
    \/ BeginStrip \/ ScanFile \/ RewriteLine \/ CommitFile \/ EndStrip \/ CrashInStrip
    \/ ReplayAll \/ Resume \/ Replaying

-----------------------------------------------------------------------------
(* Properties.                                                             *)

Lines == FoldLeft(LAMBDA ls, f : IF f.readable THEN ls \o f.lines ELSE ls, <<>>, files)

Sound(l) == l.tmpl \notin PrepareFails \cup ExecuteFails

(* The lines at or below seq applied one after the other, in seq order.    *)
Sequentially(seq) ==
    LET known == {l \in Range(Lines) : l.tmpl \notin Unreadable \cup Unrecognised /\ l.seq <= seq}
        sorted == [i \in 1..Cardinality(known) |->
                      CHOOSE l \in known : Cardinality({k \in known : k.seq < l.seq}) = i - 1]
    IN FoldLeft(LAMBDA d, l : Execute(d, l.tmpl, l), Blank, sorted)

Shape(d) == [nodes |-> NodeIds(d), edges |-> d.edges]

(* At every moment of a replay, of one that was stopped and of one resumed *)
(* behind its last commit, the database is what the lines up to the last   *)
(* committed seq make of it one by one: templates, batches, windows, file  *)
(* boundaries and rollbacks change nothing. A call that ended in an error  *)
(* leaves what a prefix makes, and the next one, from its own start, ends  *)
(* at the same database as if nothing had happened.                        *)
CommittedPrefix ==
    (replays > 0 /\ \A l \in Range(Lines) : Sound(l)) =>
        LET last == IF stats.last # None THEN stats.last ELSE opts.from - 1
        IN IF opts.ahead
           THEN (run = Stopped /\ ~stop) => Shape(db) = Shape(Sequentially(last))
           ELSE IF run.error
           THEN \E seq \in {last} \cup {l.seq : l \in Range(Lines)} :
                   seq >= last /\ Shape(db) = Shape(Sequentially(seq))
           ELSE Shape(db) = Shape(Sequentially(last))

(* A replay accounts for every line of its range once (of the files it     *)
(* could open), a cancelled one for none twice; for every failure in a     *)
(* sample or as dropped; and for every text it sent.                       *)
Accounted ==
    (replays > 0 /\ ~Running /\ ~run.error) =>
        LET counted == stats.replayed + stats.noop + stats.delnoop + stats.unrecognised
                         + stats.failed + stats.legacy + stats.rolled_back + stats.skipped
            due == {i \in DOMAIN Lines : Lines[i].tmpl \notin Unreadable /\ InRange(Lines[i].seq)}
            inSamples == FoldLeft(LAMBDA n, c : n + c.count, 0, SetToSeq(stats.samples))
        IN /\ counted <= Cardinality(due)
           /\ ~run.aborted /\ ~stop => counted = Cardinality(due)
           /\ stats.failed = inSamples + stats.dropped
           /\ stats.embed_calls = stats.recomputed + stats.embed_failed

(* No vector of the log reaches the database: each is zero, or recomputed  *)
(* from the text of a line that wrote this very row.                       *)
OnlyRecomputedVectors ==
    \A n \in db.nodes : n.vec \in {"zero", "none"} \cup {l.text : l \in {k \in Range(Lines) : k.id = n.id}}

(* The three together: what a replay leaves is what its lines say, counted *)
(* right, with vectors of its own making.                                  *)
ReplayExact == CommittedPrefix /\ Accounted /\ OnlyRecomputedVectors

(* The relations a dump may write, and those whose equals by sort key fit  *)
(* into one page. Direct relations between entities and single hops of a   *)
(* cross-group edge are in no table of the dump (dump.rs:64-68).           *)
Written(table) == {i \in DOMAIN source[table] : Kept(table, source[table][i])}

PageOf(i) == (i - 1) \div PageSize

Whole(table, i) ==
    \A j \in DOMAIN source[table] :
       SortKey(table, source[table][j]) = SortKey(table, source[table][i]) => PageOf(j) = PageOf(i)

EdgeOf(table, i) == <<source[table][i].id, source[table][i].ends>>

(* A graph that was dumped, after failed attempts too, and whose log was   *)
(* replayed to the end, in one go or several, has all its nodes again, no  *)
(* relation it did not have, and every relation the dump writes unless     *)
(* rows with the same sort key straddle two of its pages: the queries sort *)
(* by a key that is not unique (db.rs:3793-3916), so one of those may be   *)
(* skipped, and another repeated, which the MERGE absorbs.                 *)
RoundTrip ==
    (source # None /\ replays > 0 /\ run = Stopped /\ ~stop /\ ~opts.dry /\ opts.to = None) =>
        /\ NodeIds(db) = UNION {{r.id : r \in Range(source[t])} : t \in Range(NodeTables)}
        /\ db.edges \subseteq UNION {{EdgeOf(t, i) : i \in Written(t)} : t \in Range(EdgeTables)}
        /\ \A t \in Range(EdgeTables) : \A i \in Written(t) : Whole(t, i) => EdgeOf(t, i) \in db.edges

=============================================================================
