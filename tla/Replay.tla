------------------------------- MODULE Replay -------------------------------
(***************************************************************************)
(* WalReplayer::replay_opts: reads the log files of a group in the order   *)
(* of their first seq, normalises every record, recomputes its embedding   *)
(* in windows, and executes it in batches of one template, one transaction *)
(* each; with records that cannot be read, prepared or executed, an        *)
(* embedder that fails, and a caller that stops it at any moment.          *)
(***************************************************************************)
EXTENDS Integers, Sequences, FiniteSets, SequencesExt

CONSTANTS
    BatchSize,      \* rows of one template per transaction
    WindowSize,     \* rows whose texts are embedded in one call
    SampleCap,      \* failure categories that are reported
    ProbeRejected,  \* templates that cannot be prepared with RETURN count( * )
    None

(* What the constants are; the instance MCWal asserts it.                 *)
ReplayAssumption ==
    /\ BatchSize \in Nat \ {0} /\ WindowSize \in Nat \ {0} /\ SampleCap \in Nat

VARIABLES
    files,   \* the log: a sequence of [name, lines, readable]
    opts,    \* from_seq, to_seq, dry_run
    run,     \* where the replay is: its files, window, rows and batch
    stats,   \* ReplayStats
    db,      \* nodes with the vector each holds, and edges
    stop     \* what cancel_fn answers

(* A line: its seq, template, the row it writes, the ends of an edge, its  *)
(* text and its vector: a parameter (maybe malformed), inline, stripped or  *)
(* none; one that replay computed is named by the text it was made of.     *)
Line(seq, tmpl, id, ends, text, vec) ==
    [seq |-> seq, tmpl |-> tmpl, id |-> id, ends |-> ends, text |-> text, vec |-> vec]

Blank == [nodes |-> {}, edges |-> {}]

NoStats ==
    [replayed |-> 0, noop |-> 0, delnoop |-> 0, unrecognised |-> 0, unparseable |-> 0,
     failed |-> 0, legacy |-> 0, rolled_back |-> 0, regressions |-> 0, prepared |-> 0,
     samples |-> {}, dropped |-> 0, embed_calls |-> 0, recomputed |-> 0, embed_failed |-> 0,
     no_text |-> 0, skipped |-> 0, last |-> None]

Stopped == [pc |-> "idle", aborted |-> FALSE, error |-> FALSE]
Running == run.pc # "idle"

Unreadable == {"torn"}
Unrecognised == {"query"}
MatchPrefixed == {"edge", "set_vector", "delete"}
VectorOnly == {"set_vector"}
DeleteForm == {"delete"}
PrepareFails == {"bad", "worse"}
ExecuteFails == {"broken"}

-----------------------------------------------------------------------------
(* The files.                                                              *)

first_seq_in_file(file) ==
    IF ~file.readable \/ file.lines = <<>> \/ Head(file.lines).tmpl \in Unreadable THEN None
    ELSE Head(file.lines).seq

(* Files without a first seq come last; equals by name.                    *)
FileBefore(a, b) ==
    LET x == first_seq_in_file(a)
        y == first_seq_in_file(b)
    IN IF x # None /\ y # None /\ x # y THEN x < y
       ELSE IF (x = None) # (y = None) THEN x # None
       ELSE a.name < b.name

SortedFiles(fs) == SetToSortSeq(ToSet(fs), FileBefore)

-----------------------------------------------------------------------------
(* One record.                                                             *)

(* A bound pair the wrong way round is refused. `ahead`: an earlier call   *)
(* ended in an error, and the database may hold lines beyond from.         *)
Begin(from, to, dry) ==
    /\ ~Running
    /\ to # None => to >= from
    /\ opts' = [from |-> from, to |-> to, dry |-> dry, ahead |-> opts.ahead \/ run.error]
    /\ run' = [pc |-> "file", files |-> SortedFiles(files), f |-> 1, l |-> 1, max |-> None,
               window |-> <<>>, rows |-> <<>>, batch |-> <<>>, cache |-> None, aborted |-> FALSE, error |-> FALSE]
    /\ stats' = NoStats /\ stop' = FALSE
    /\ UNCHANGED <<files, db>>

InRange(seq) == seq >= opts.from /\ (opts.to # None => seq <= opts.to)

(* Mutant: a vector written into the statement itself stays there.         *)
ParamsOnly(line) == line

(* strip_vecf32, the promotion of inline vectors to parameters, and the    *)
(* expansion of bulk property maps: what is left is a template whose       *)
(* vectors are parameters.                                                 *)
Normalised(line) == IF line.vec = "inline" THEN [line EXCEPT !.vec = "param"] ELSE line

Aborted == [run EXCEPT !.pc = "final", !.aborted = TRUE, !.window = <<>>]

(* progress_fn, once per file: an answer of false ends the replay, with    *)
(* the window unresolved. A file that cannot be opened is passed over.     *)
BeginFile ==
    /\ run.pc = "file" /\ run.f <= Len(run.files)
    /\ \/ run' = IF run.files[run.f].readable THEN [run EXCEPT !.pc = "read", !.l = 1]
                 ELSE [run EXCEPT !.f = @ + 1]
       \/ run' = Aborted
    /\ UNCHANGED <<files, opts, stats, db, stop>>

CurrentLines == run.files[run.f].lines
Seen(seq) == IF run.max = None \/ run.max < seq THEN seq ELSE run.max
Bump(field) == stats' = [stats EXCEPT ![field] = @ + 1]

(* A line that is unreadable, out of range or no mutation is passed over.  *)
SkipLine ==
    /\ run.pc = "read" /\ run.l <= Len(CurrentLines)
    /\ LET line == CurrentLines[run.l]
           regressed == run.max # None /\ line.seq <= run.max
           counted == [stats EXCEPT !.regressions = @ + IF regressed THEN 1 ELSE 0]
       IN \/ /\ line.tmpl \in Unreadable
             /\ Bump("unparseable")
             /\ run' = [run EXCEPT !.l = @ + 1]
          \/ /\ line.tmpl \notin Unreadable /\ ~InRange(line.seq)
             /\ run' = [run EXCEPT !.l = @ + 1]
             /\ UNCHANGED stats
          \/ /\ line.tmpl \in Unrecognised /\ InRange(line.seq)
             /\ stats' = [counted EXCEPT !.unrecognised = @ + 1]
             /\ run' = [run EXCEPT !.l = @ + 1, !.max = Seen(line.seq)]
    /\ UNCHANGED <<files, opts, db, stop>>

(* A mutation joins the window, which is resolved when it is full.         *)
ReadLine ==
    /\ run.pc = "read" /\ run.l <= Len(CurrentLines)
    /\ LET line == CurrentLines[run.l]
           regressed == run.max # None /\ line.seq <= run.max
           window == IF opts.dry THEN <<>> ELSE Append(run.window, Normalised(line))
       IN /\ line.tmpl \notin Unreadable \cup Unrecognised /\ InRange(line.seq)
          /\ stats' = [stats EXCEPT !.regressions = @ + IF regressed THEN 1 ELSE 0,
                                    !.replayed = @ + IF opts.dry THEN 1 ELSE 0]
          /\ run' = [run EXCEPT !.l = @ + 1, !.max = Seen(line.seq), !.window = window,
                                !.pc = IF Len(window) >= WindowSize THEN "resolve" ELSE "poll"]
    /\ UNCHANGED <<files, opts, db, stop>>

-----------------------------------------------------------------------------
(* The embeddings of a window.                                             *)

HasVector(row) == row.vec \in {"param", "malformed", "stripped"}
HasText(row) == row.text # None

(* What a row is bound to when its text was embedded, and when not: a      *)
(* statement that only sets a vector is dropped, any other gets zeros.     *)
apply_key_resolution(row, vector) ==
    IF ~HasVector(row) THEN <<row>>
    ELSE IF vector # None THEN <<[row EXCEPT !.vec = vector]>>
    ELSE IF row.tmpl \in VectorOnly THEN <<>>
    ELSE <<[row EXCEPT !.vec = "zero"]>>

(* The rows that ask for a vector, in order, and so the answers.           *)
Targets(window) == SelectSeq([i \in DOMAIN window |-> i], LAMBDA i : HasVector(window[i]) /\ HasText(window[i]))
Answer(window, k) == window[Targets(window)[k]].text

(* Mutant: every row of the window gets the first answer.                  *)
FirstVector(window, i) == Answer(window, 1)

(* An answer goes to the row that asked for it.                            *)
VectorOf(window, i) == Answer(window, CHOOSE k \in DOMAIN Targets(window) : Targets(window)[k] = i)

(* One call for all the texts of the window; when it fails, or answers     *)
(* with another number of vectors, no row has one; one vector of a wrong   *)
(* dimension fails alone.                                                  *)
resolve_embed_window(good) ==
    LET window == run.window
        asked == Range(Targets(window))
        mute == {i \in DOMAIN window : HasVector(window[i]) /\ ~HasText(window[i])}
        got(i) == apply_key_resolution(window[i], IF i \in good THEN VectorOf(window, i) ELSE None)
        lost == {i \in DOMAIN window : got(i) = <<>>}
    IN /\ good \subseteq asked
       /\ stats' = [stats EXCEPT !.embed_calls = @ + Cardinality(asked),
                                 !.recomputed = @ + Cardinality(good),
                                 !.embed_failed = @ + Cardinality(asked \ good),
                                 !.no_text = @ + Cardinality(mute),
                                 !.skipped = @ + Cardinality(lost)]
       /\ run' = [run EXCEPT !.window = <<>>, !.pc = IF run.pc = "resolve" THEN "push" ELSE "drain",
                             !.rows = FlattenSeq([i \in DOMAIN window |-> got(i)])]

ResolveWindow ==
    /\ run.pc \in {"resolve", "eof"}
    /\ \E good \in SUBSET DOMAIN run.window : resolve_embed_window(good)
    /\ UNCHANGED <<files, opts, db, stop>>

-----------------------------------------------------------------------------
(* flush_batch.                                                            *)

Template(batch) == Head(batch).tmpl

(* A new category takes a sample slot, or is counted as dropped.           *)
Sampled(s, tmpl) ==
    IF \E c \in s.samples : c.tmpl = tmpl
    THEN [s EXCEPT !.samples = {IF c.tmpl = tmpl THEN [c EXCEPT !.count = @ + 1] ELSE c : c \in @}]
    ELSE IF Cardinality(s.samples) < SampleCap
    THEN [s EXCEPT !.samples = @ \cup {[tmpl |-> tmpl, count |-> 1]}]
    ELSE [s EXCEPT !.dropped = @ + 1]

(* No error counts as an expected one of an old schema any more.           *)
LegacySchemaErrors == {}

classify_replay_failure(s, tmpl) ==
    IF tmpl \in LegacySchemaErrors THEN [s EXCEPT !.legacy = @ + 1]
    ELSE [Sampled(s, tmpl) EXCEPT !.failed = @ + 1]

NodeIds(d) == {n.id : n \in d.nodes}

(* What executing a template with a row does; `hit` is the probe's count.  *)
Execute(d, tmpl, row) ==
    LET held == row.id \in NodeIds(d)
        joined == row.ends # None /\ ToSet(row.ends) \subseteq NodeIds(d)
        others == {n \in d.nodes : n.id # row.id}
        node == [id |-> row.id, vec |-> row.vec]
        between == {e \in d.edges : e[2] = row.ends}
    IN CASE tmpl = "edge" ->
              IF joined THEN [d EXCEPT !.edges = (@ \ between) \cup {<<row.id, row.ends>>}] ELSE d
         [] tmpl = "set_vector" -> IF held THEN [d EXCEPT !.nodes = others \cup {node}] ELSE d
         [] tmpl = "delete" -> [nodes |-> others, edges |-> {e \in d.edges : row.id \notin ToSet(e[2])}]
         [] OTHER -> [d EXCEPT !.nodes = others \cup {node}]

Hit(d, tmpl, row) ==
    IF tmpl = "edge" THEN row.ends # None /\ ToSet(row.ends) \subseteq NodeIds(d)
    ELSE row.id \in NodeIds(d)

(* The rows of a transaction in turn; a failure undoes them all.           *)
ExecuteRows(d, batch, probed) ==
    LET tmpl == Template(batch)
        step(acc, row) ==
            LET missed == probed /\ ~Hit(acc.db, tmpl, row)
            IN IF acc.failed \/ row.tmpl \in ExecuteFails THEN [acc EXCEPT !.failed = TRUE]
               ELSE [acc EXCEPT !.db = Execute(acc.db, tmpl, row),
                                !.replayed = @ + IF missed THEN 0 ELSE 1,
                                !.noop = @ + IF missed /\ tmpl \notin DeleteForm THEN 1 ELSE 0,
                                !.delnoop = @ + IF missed /\ tmpl \in DeleteForm THEN 1 ELSE 0]
    IN FoldLeft(step, [db |-> d, failed |-> FALSE, replayed |-> 0, noop |-> 0, delnoop |-> 0], batch)

HighestSeq(batch, last) ==
    LET top == CHOOSE s \in {r.seq : r \in ToSet(batch)} : \A r \in ToSet(batch) : r.seq <= s
    IN IF last = None \/ last < top THEN top ELSE last

(* Mutant: the failed row is counted as rolled back as well.               *)
UndoneAll(batch) == Len(batch)

UndoneWith(batch) == Len(batch) - 1

(* Mutant: the position moves when the batch is begun.                     *)
MovedAtBegin(s, batch, done) == [s EXCEPT !.last = HighestSeq(batch, s.last)]

(* The position moves with the commit.                                     *)
Moved(s, batch, done) == IF done THEN [s EXCEPT !.last = HighestSeq(batch, s.last)] ELSE s

(* A transaction is begun unless the template cannot be prepared.          *)
Opens(batch) == Template(batch) \notin PrepareFails

(* The outcome of flushing a batch that is not empty: the database, the    *)
(* counters, the statement kept for the next batch, and whether a cancel   *)
(* was seen. A cached template is not prepared again; a template with      *)
(* MATCH is prepared with a probe, and without it when that is rejected.   *)
Flushed(batch) ==
    LET tmpl == Template(batch)
        cached == run.cache # None /\ run.cache.tmpl = tmpl
        match == tmpl \in MatchPrefixed
        probed == IF cached THEN run.cache.probed ELSE match /\ tmpl \notin ProbeRejected
        prepares == IF cached THEN 0 ELSE IF match /\ ~probed THEN 2 ELSE 1
        s == [stats EXCEPT !.prepared = @ + prepares]
        done == ExecuteRows(db, batch, probed)
    IN IF ~Opens(batch)
       THEN [db |-> db, cache |-> None, cancelled |-> FALSE,
             stats |-> FoldLeft(LAMBDA acc, r : classify_replay_failure(acc, tmpl), s, batch)]
       ELSE IF stop
       THEN [db |-> db, cache |-> None, cancelled |-> TRUE,
             stats |-> [Moved(s, batch, FALSE) EXCEPT !.rolled_back = @ + Len(batch)]]
       ELSE IF done.failed
       THEN [db |-> db, cache |-> None, cancelled |-> FALSE,
             stats |-> [classify_replay_failure(Moved(s, batch, FALSE), tmpl)
                           EXCEPT !.rolled_back = @ + UndoneWith(batch)]]
       ELSE [db |-> done.db, cache |-> [tmpl |-> tmpl, probed |-> probed], cancelled |-> FALSE,
             stats |-> [Moved(s, batch, TRUE) EXCEPT !.replayed = @ + done.replayed,
                            !.noop = @ + done.noop, !.delnoop = @ + done.delnoop]]

(* Flush and go on at pc, or end when the caller has cancelled. A BEGIN or *)
(* a COMMIT that fails ends the call with an error, its counters lost; the *)
(* batch may be in the database or not.                                    *)
FlushTo(pc, r) ==
    LET out == Flushed(r.batch)
    IN \/ /\ r.batch = <<>>
          /\ run' = [r EXCEPT !.pc = pc] /\ UNCHANGED <<stats, db>>
       \/ /\ r.batch # <<>>
          /\ db' = out.db /\ stats' = out.stats
          /\ run' = [r EXCEPT !.batch = <<>>, !.cache = out.cache,
                              !.pc = IF out.cancelled THEN "final" ELSE pc,
                              !.aborted = @ \/ (out.cancelled /\ pc # "end"),
                              !.rows = IF out.cancelled THEN <<>> ELSE @]
       \/ /\ r.batch # <<>> /\ Opens(r.batch)
          /\ db' \in {db, out.db}
          /\ run' = [Stopped EXCEPT !.error = TRUE]
          /\ UNCHANGED stats

TemplateChanges(batch, row) == batch # <<>> /\ Template(batch) # row.tmpl

(* push_resolved_rows, one row: the batch is flushed before a row of       *)
(* another template and when it is full.                                   *)
PushRow ==
    /\ run.pc \in {"push", "drain"} /\ run.rows # <<>>
    /\ LET row == Head(run.rows)
           next == Append(run.batch, row)
           r == [run EXCEPT !.rows = Tail(@), !.batch = next]
       IN IF TemplateChanges(run.batch, row) THEN FlushTo(run.pc, run)
          ELSE IF Len(next) >= BatchSize THEN FlushTo(run.pc, r)
          ELSE run' = r /\ UNCHANGED <<stats, db>>
    /\ UNCHANGED <<files, opts, stop>>

Pushed ==
    /\ run.pc \in {"push", "drain"} /\ run.rows = <<>>
    /\ run' = [run EXCEPT !.pc = IF run.pc = "push" THEN "poll" ELSE "final"]
    /\ UNCHANGED <<files, opts, stats, db, stop>>

(* cancel_fn after every mutation, and progress_fn after some: rows that   *)
(* wait are dropped unresolved.                                            *)
Poll ==
    /\ run.pc = "poll"
    /\ \/ run' = Aborted
       \/ ~stop /\ run' = [run EXCEPT !.pc = "read"]
    /\ UNCHANGED <<files, opts, stats, db, stop>>

(* The batch, not the window, ends with its file.                          *)
EndFile ==
    /\ run.pc = "read" /\ run.l > Len(CurrentLines)
    /\ FlushTo("file", [run EXCEPT !.f = @ + 1])
    /\ UNCHANGED <<files, opts, stop>>

EndOfLog ==
    /\ run.pc = "file" /\ run.f > Len(run.files)
    /\ run' = [run EXCEPT !.pc = IF run.window # <<>> THEN "eof" ELSE "final"]
    /\ UNCHANGED <<files, opts, stats, db, stop>>

FinalFlush ==
    /\ run.pc = "final"
    /\ FlushTo("end", run)
    /\ UNCHANGED <<files, opts, stop>>

Finished ==
    /\ run.pc = "end"
    /\ run' = [Stopped EXCEPT !.aborted = run.aborted]
    /\ UNCHANGED <<files, opts, stats, db, stop>>

Cancel ==
    /\ Running /\ ~stop
    /\ stop' = TRUE
    /\ UNCHANGED <<files, opts, run, stats, db>>

(* A replay resumes behind its last commit; one that ended in an error has *)
(* told nobody what it committed.                                          *)
ResumeFrom == IF stats.last = None \/ run.error THEN opts.from ELSE stats.last + 1

ReplayStep ==
    \/ BeginFile \/ SkipLine \/ ReadLine \/ ResolveWindow \/ PushRow \/ Pushed \/ Poll
    \/ EndFile \/ EndOfLog \/ FinalFlush \/ Finished \/ Cancel

=============================================================================
