------------------------------ MODULE WalFiles ------------------------------
(***************************************************************************)
(* One group's WAL directory: the .jsonl files, the WalWriter that appends *)
(* chunks to them and rotates, appends that fail or are cut by a crash,    *)
(* and the readers of the seq bounds (wal_max_seq, wal_min_seq) with the   *)
(* .wal-bounds.json manifest they share.                                   *)
(*                                                                         *)
(* The writer runs under the write lock, so each of its operations is one  *)
(* step. knowledge_wal_mark_list reads the bounds without any lock, so     *)
(* every file access of a reader is a step; knowledge_status reads them    *)
(* under write_lock.read(), the special case that no append overlaps, and  *)
(* shares the manifest with the others.                                    *)
(***************************************************************************)
EXTENDS Naturals, Sequences, FiniteSets

CONSTANTS
    Readers,     \* requests that read the bounds
    None,        \* Rust's Option::None
    Junk,        \* a line that does not parse
    ChunkSizes,  \* lines a chunk may have
    MaxEvents,   \* max_events_per_file
    MaxBytes,    \* max_bytes_per_file in model units, 0 = no limit
    MaxSeq,      \* bound: seqs handed out
    MaxFiles,    \* bound: files ever created
    MaxFails,    \* bound: appends that fail
    MaxCrashes,  \* bound: crashes
    MaxImports   \* bound: files delivered from outside

ASSUME WalFilesAssumption ==
    /\ None \notin Nat /\ Junk \notin Nat /\ None # Junk
    /\ ChunkSizes \subseteq Nat \ {0}
    /\ MaxEvents \in Nat \ {0} /\ MaxBytes \in Nat
    /\ MaxSeq \in Nat /\ MaxFiles \in Nat /\ MaxFails \in Nat
    /\ MaxCrashes \in Nat /\ MaxImports \in Nat

VARIABLES
    file,        \* the directory's files in the order of their creation
    global_seq,  \* WalWriter::global_seq, None while there is no writer
    current,     \* WalWriter::current_file: an index into file, or None
    events,      \* WalWriter::events_in_current_file
    bytes,       \* WalWriter::bytes_in_current_file
    manifest,    \* .wal-bounds.json, or None
    rd,          \* rd[r]: the call r is in, or None
    acked,       \* history: seqs with_chunk returned Ok for
    fails,       \* number of failed appends
    crashes,     \* number of crashes
    imports,     \* number of delivered files
    raced        \* history: an append fell between a scan's read and its stat

writerVars == <<global_seq, current, events, bytes>>
budgetVars == <<fails, crashes, imports>>
vars == <<file, writerVars, manifest, rd, acked, budgetVars, raced>>

-----------------------------------------------------------------------------
(* Files. open says that the last line has no newline yet. A line counts   *)
(* two units of size, one for its text and one for its newline.            *)

EmptyFile == [lines |-> <<>>, open |-> FALSE, size |-> 0]
Parsed(f) == {k \in DOMAIN f.lines : f.lines[k] # Junk}
Readable == UNION {{file[i].lines[k] : k \in Parsed(file[i])} : i \in DOMAIN file}
Last(S) == CHOOSE m \in S : \A x \in S : x <= m
First(S) == CHOOSE m \in S : \A x \in S : m <= x

\* read_last_seq / first_seq_in_file: unparseable lines are skipped.
read_last_seq(f) == IF Parsed(f) = {} THEN None ELSE f.lines[Last(Parsed(f))]
first_seq_in_file(f) == IF Parsed(f) = {} THEN None ELSE f.lines[First(Parsed(f))]

\* The true bounds of the directory, scanned in one instant.
TrueMax == IF Readable = {} THEN None ELSE Last(Readable)
TrueMin == IF Readable = {} THEN None ELSE First(Readable)

\* Mutant: the highest seq itself.
scan_max_seq_literal == IF Readable = {} THEN 0 ELSE Last(Readable)

\* scan_max_seq: over every file, the last parseable seq; the next one is free.
scan_max_seq ==
    LET lasts == {read_last_seq(file[i]) : i \in DOMAIN file} \ {None}
    IN  IF lasts = {} THEN 0 ELSE Last(lasts) + 1

\* O_APPEND: new text joins a last line that has no newline, and that line parses no more.
Extend(f, new, open) ==
    IF new = <<>> THEN f
    ELSE [lines |-> IF f.open
                    THEN SubSeq(f.lines, 1, Len(f.lines) - 1) \o <<Junk>> \o Tail(new)
                    ELSE f.lines \o new,
          open |-> open,
          size |-> f.size + 2 * Len(new) - (IF open THEN 1 ELSE 0)]

-----------------------------------------------------------------------------
(* WalWriter.                                                              *)

chunk(n) == [k \in 1..n |-> global_seq + k - 1]

\* Mutant: rotation is decided by the file's size alone.
needs_new_file_bytes(n) ==
    current = None \/ (MaxBytes > 0 /\ bytes > 0 /\ bytes + 2 * n > MaxBytes)

needs_new_file(n) ==
    \/ current = None
    \/ events > 0 /\ events + n > MaxEvents
    \/ MaxBytes > 0 /\ bytes > 0 /\ bytes + 2 * n > MaxBytes

\* The directory after `new` was written to the file flush_pending chose.
Written(n, new, open) ==
    IF needs_new_file(n)
    THEN Append(file, Extend(EmptyFile, new, open))
    ELSE [file EXCEPT ![current] = Extend(@, new, open)]
Target(n) == IF needs_new_file(n) THEN Len(file) + 1 ELSE current
Fits(n) == global_seq # None /\ global_seq + n <= MaxSeq
           /\ (needs_new_file(n) => Len(file) < MaxFiles)

\* A scan that has read file i's last seq and not yet its size is overtaken.
Overtakes(i) == \E r \in Readers : rd[r] # None /\ rd[r].pc = "scan_stat" /\ rd[r].i = i
Touched == [r \in Readers |-> IF rd[r] = None THEN None ELSE [rd[r] EXCEPT !.clean = FALSE]]

\* with_chunk: every line written, flushed and fsynced.
with_chunk(n) ==
    /\ Fits(n)
    /\ file' = Written(n, chunk(n), FALSE)
    /\ current' = Target(n)
    /\ events' = (IF needs_new_file(n) THEN 0 ELSE events) + n
    /\ bytes' = (IF needs_new_file(n) THEN 0 ELSE bytes) + 2 * n
    /\ global_seq' = global_seq + n
    /\ acked' = acked \cup {chunk(n)[k] : k \in 1..n}
    /\ raced' = (raced \/ Overtakes(Target(n)))
    /\ rd' = Touched
    /\ UNCHANGED <<manifest, budgetVars>>

\* What a write that stops early leaves: some whole lines, then nothing, part of the
\* next line, or all of it but its newline.
Torn(n) ==
    {[new |-> SubSeq(chunk(n), 1, k), open |-> FALSE] : k \in 0..n}
    \cup {[new |-> SubSeq(chunk(n), 1, k) \o <<Junk>>, open |-> TRUE] : k \in 0..n - 1}
    \cup {[new |-> SubSeq(chunk(n), 1, k), open |-> TRUE] : k \in 1..n}

\* flush_pending fails before it chose a file, when it opens a new one, or while it writes.
\* The file's counters are reset by the rotation and do not count the failed chunk.
FlushFails(n) ==
    \/ UNCHANGED <<file, current, events, bytes, raced>>
    \/ /\ needs_new_file(n)
       /\ current' = None /\ events' = 0 /\ bytes' = 0
       /\ UNCHANGED <<file, raced>>
    \/ /\ \E t \in Torn(n) : file' = Written(n, t.new, t.open)
       /\ current' = Target(n)
       /\ events' = IF needs_new_file(n) THEN 0 ELSE events
       /\ bytes' = IF needs_new_file(n) THEN 0 ELSE bytes
       /\ raced' = (raced \/ Overtakes(Target(n)))

\* with_chunk returns the error; the seqs it took are not given back.
with_chunk_err(n) ==
    /\ Fits(n) /\ fails < MaxFails
    /\ FlushFails(n)
    /\ global_seq' = global_seq + n
    /\ fails' = fails + 1
    /\ rd' = Touched
    /\ UNCHANGED <<manifest, acked, crashes, imports>>

\* Mutant: the next file is named before it exists.
rotate_names_next ==
    /\ global_seq # None
    /\ current' = Len(file) + 1 /\ events' = 0 /\ bytes' = 0
    /\ UNCHANGED <<file, global_seq, manifest, rd, acked, budgetVars, raced>>

\* WalWriter::rotate, from knowledge_prepare_checkpoint; without an open file it does nothing.
rotate ==
    /\ global_seq # None
    /\ current' = None /\ events' = 0 /\ bytes' = 0
    /\ UNCHANGED <<file, global_seq, manifest, rd, acked, budgetVars, raced>>

\* The process dies, possibly inside an append; the readers die with it.
Crash(n) ==
    /\ global_seq # None /\ crashes < MaxCrashes
    /\ \/ UNCHANGED file
       \/ Fits(n) /\ \E t \in Torn(n) : file' = Written(n, t.new, t.open)
    /\ global_seq' = None /\ current' = None /\ events' = 0 /\ bytes' = 0
    /\ rd' = [r \in Readers |-> None]
    /\ crashes' = crashes + 1
    /\ UNCHANGED <<manifest, acked, fails, imports, raced>>

\* Mutant: the new writer goes on in the last file.
WalWriter_new_reopens ==
    /\ global_seq = None
    /\ global_seq' = scan_max_seq
    /\ current' = IF file = <<>> THEN None ELSE Len(file)
    /\ UNCHANGED <<file, events, bytes, manifest, rd, acked, budgetVars, raced>>

\* WalWriter::new: the counter from a scan; the first chunk opens a file of its own.
WalWriter_new ==
    /\ global_seq = None
    /\ global_seq' = scan_max_seq
    /\ UNCHANGED <<file, current, events, bytes, manifest, rd, acked, budgetVars, raced>>

\* Mutant: the rebuild does not resync the counter.
ImportWithoutResync ==
    /\ global_seq # None /\ imports < MaxImports
    /\ global_seq < MaxSeq /\ Len(file) < MaxFiles
    /\ file' = Append(file, Extend(EmptyFile, <<global_seq>>, FALSE))
    /\ imports' = imports + 1
    /\ rd' = Touched
    /\ UNCHANGED <<writerVars, manifest, acked, fails, crashes, raced>>

\* A file of later lines is delivered into the directory and replayed; the rebuild ends
\* with resync_global_seq. The writer's open file stays open.
ImportAndResync ==
    /\ global_seq # None /\ imports < MaxImports
    /\ global_seq < MaxSeq /\ Len(file) < MaxFiles
    /\ file' = Append(file, Extend(EmptyFile, <<global_seq>>, FALSE))
    /\ global_seq' = global_seq + 1
    /\ imports' = imports + 1
    /\ rd' = Touched
    /\ UNCHANGED <<current, events, bytes, manifest, acked, fails, crashes, raced>>

-----------------------------------------------------------------------------
(* wal_max_seq and wal_min_seq.                                            *)

\* jsonl_file_set_fingerprint: here files are only ever added, so their number will do.
fingerprint == Len(file)
Keep == <<file, writerVars, acked, budgetVars, raced>>
NoBounds(n) == [fp |-> n, maxFile |-> None, maxSize |-> 0, max |-> None,
                minFile |-> None, minSize |-> 0, min |-> None]

Goto(r, label) == [rd[r] EXCEPT !.pc = label]
NewCall(op, m) == [op |-> op, pc |-> "list", m |-> m, size |-> 0, todo |-> {}, i |-> 0,
                   seq |-> None, best |-> NoBounds(0), clean |-> TRUE, ret |-> None]
Return(k, v) == [NewCall(k.op, None) EXCEPT !.pc = "done", !.ret = v, !.clean = k.clean]
Update(r, k) == rd' = [rd EXCEPT ![r] = k] /\ UNCHANGED <<Keep, manifest>>

\* scan_wal_bounds_detailed lists the directory once, then visits what it listed.
Scan(k) == [NewCall(k.op, None) EXCEPT !.pc = "scan_read", !.todo = DOMAIN file,
                                       !.best = NoBounds(fingerprint), !.clean = k.clean]

\* read_wal_bounds_manifest.
ReadManifest(r, op) ==
    /\ rd[r] = None
    /\ Update(r, NewCall(op, manifest))

\* Mutant: the file set is not compared.
ListDirUnchecked(r) ==
    /\ rd[r] # None /\ rd[r].pc = "list"
    /\ Update(r, IF rd[r].m # None THEN Goto(r, "stat") ELSE Scan(rd[r]))

\* current_jsonl_file_set_fingerprint against the manifest's.
ListDir(r) ==
    /\ rd[r] # None /\ rd[r].pc = "list"
    /\ Update(r, IF rd[r].m # None /\ rd[r].m.fp = fingerprint
                 THEN Goto(r, "stat") ELSE Scan(rd[r]))

\* wal_max_seq_fast_path: an unchanged size vouches for the cached seq.
StatMax(r) ==
    LET k == rd[r]
        size == file[k.m.maxFile].size
    IN  /\ k # None /\ k.pc = "stat" /\ k.op = "max"
        /\ Update(r, CASE k.m.max = None -> Return(k, None)
                       [] k.m.max # None /\ size = k.m.maxSize -> Return(k, k.m.max)
                       [] OTHER -> [k EXCEPT !.pc = "reread", !.size = size])

\* wal_min_seq_fast_path: only a smaller file is suspicious.
StatMin(r) ==
    LET k == rd[r]
    IN  /\ k # None /\ k.pc = "stat" /\ k.op = "min"
        /\ Update(r, IF k.m.min = None \/ file[k.m.minFile].size >= k.m.minSize
                     THEN Return(k, k.m.min) ELSE Scan(k))

\* The size changed: the tail is read again, and must not have gone back.
ReRead(r) ==
    LET k == rd[r]
        seq == read_last_seq(file[k.m.maxFile])
    IN  /\ k # None /\ k.pc = "reread"
        /\ Update(r, IF seq # None /\ seq >= k.m.max
                     THEN [k EXCEPT !.pc = "write", !.ret = seq,
                                    !.best = [k.m EXCEPT !.max = seq, !.maxSize = k.size]]
                     ELSE Scan(k))

\* One file of the scan: its last seq ...
ScanRead(r) ==
    LET k == rd[r]
    IN  /\ k # None /\ k.pc = "scan_read"
        /\ \E i \in k.todo :
             LET seq == read_last_seq(file[i])
                 higher == seq # None /\ (k.best.max = None \/ seq > k.best.max)
             IN  Update(r, [k EXCEPT !.i = i, !.seq = seq,
                                     !.pc = IF higher THEN "scan_stat" ELSE "scan_first"])

\* ... its size, by a call of its own after the read ...
ScanStat(r) ==
    LET k == rd[r]
    IN  /\ k # None /\ k.pc = "scan_stat"
        /\ Update(r, [k EXCEPT !.pc = "scan_first", !.best.max = k.seq, !.best.maxFile = k.i,
                               !.best.maxSize = file[k.i].size])

\* ... and its first seq with its size.
ScanFirst(r) ==
    LET k == rd[r]
        seq == first_seq_in_file(file[k.i])
        lower == seq # None /\ (k.best.min = None \/ seq < k.best.min)
        best == IF lower THEN [k.best EXCEPT !.min = seq, !.minFile = k.i,
                                             !.minSize = file[k.i].size]
                ELSE k.best
    IN  /\ k # None /\ k.pc = "scan_first"
        /\ Update(r, [k EXCEPT !.pc = "scan_read", !.todo = @ \ {k.i}, !.i = 0, !.seq = None,
                               !.best = best])

ScanDone(r) ==
    LET k == rd[r]
    IN  /\ k # None /\ k.pc = "scan_read" /\ k.todo = {}
        /\ Update(r, [k EXCEPT !.pc = "write",
                               !.ret = IF k.op = "max" THEN k.best.max ELSE k.best.min])

\* write_wal_bounds_manifest: tmp file and rename; a failure is ignored.
WriteManifest(r) ==
    /\ rd[r] # None /\ rd[r].pc = "write"
    /\ manifest' \in {rd[r].best, manifest}
    /\ rd' = [rd EXCEPT ![r] = Return(@, @.ret)]
    /\ UNCHANGED Keep

Answer(r) == rd[r] # None /\ rd[r].pc = "done" /\ Update(r, None)

-----------------------------------------------------------------------------
Init ==
    /\ file = <<>>
    /\ global_seq = None /\ current = None /\ events = 0 /\ bytes = 0
    /\ manifest = None /\ rd = [r \in Readers |-> None]
    /\ acked = {} /\ raced = FALSE
    /\ fails = 0 /\ crashes = 0 /\ imports = 0

Next ==
    \/ \E n \in ChunkSizes : with_chunk(n) \/ with_chunk_err(n) \/ Crash(n)
    \/ rotate \/ WalWriter_new \/ ImportAndResync
    \/ \E r \in Readers :
         \/ \E op \in {"max", "min"} : ReadManifest(r, op)
         \/ ListDir(r) \/ StatMax(r) \/ StatMin(r) \/ ReRead(r)
         \/ ScanRead(r) \/ ScanStat(r) \/ ScanFirst(r) \/ ScanDone(r)
         \/ WriteManifest(r) \/ Answer(r)

Spec == Init /\ [][Next]_vars

-----------------------------------------------------------------------------
(* Properties.                                                             *)

Opt(S) == S \cup {None}
Bounds == [fp : Nat, maxFile : Opt(Nat), maxSize : Nat, max : Opt(Nat),
           minFile : Opt(Nat), minSize : Nat, min : Opt(Nat)]
Call == [op : {"max", "min"}, m : Opt(Bounds), size : Nat, todo : SUBSET Nat, i : Nat,
         pc : {"list", "stat", "reread", "scan_read", "scan_stat", "scan_first", "write", "done"},
         seq : Opt(Nat), best : Bounds, clean : BOOLEAN, ret : Opt(Nat)]

\* The types of the directory, the writer and the readers.
TypeOK ==
    /\ file \in Seq([lines : Seq(Nat \cup {Junk}), open : BOOLEAN, size : Nat])
    /\ global_seq \in Opt(Nat) /\ current \in Opt(DOMAIN file)
    /\ events \in Nat /\ bytes \in Nat
    /\ manifest \in Opt(Bounds) /\ rd \in [Readers -> Opt(Call)]
    /\ acked \subseteq Nat /\ raced \in BOOLEAN
    /\ fails \in Nat /\ crashes \in Nat /\ imports \in Nat

\* Replay reads the files in the order of their first parseable seq: that order visits
\* the seqs in strictly increasing order, through rotations, failed and torn appends,
\* crashes and new writers, so no seq is on disk twice and no mutation overtakes another.
\* A delivered file may lie between two chunks of the open one: then its lines, still
\* under seqs of their own, are read after the whole of that file.
ReplayInOrder ==
    /\ \A i \in DOMAIN file : \A j, k \in Parsed(file[i]) :
         j < k => file[i].lines[j] < file[i].lines[k]
    /\ \A i, j \in DOMAIN file : \A k \in Parsed(file[i]), l \in Parsed(file[j]) :
         i # j => file[i].lines[k] # file[j].lines[l]
    /\ imports = 0 => \A i, j \in DOMAIN file :
         (i # j /\ Parsed(file[i]) # {} /\ Parsed(file[j]) # {})
           => \/ read_last_seq(file[i]) < first_seq_in_file(file[j])
              \/ read_last_seq(file[j]) < first_seq_in_file(file[i])

\* The counter is beyond every line on disk, a delivered file's included once its rebuild
\* has resynced the writer.
CounterAhead == global_seq # None => \A x \in Readable : x < global_seq

\* A file holds no more lines than max_events_per_file, unless one chunk alone is larger
\* or an earlier append failed (the lines it left behind are not counted).
FilesBounded ==
    (fails = 0 /\ crashes = 0) =>
      \A i \in DOMAIN file : Len(file[i].lines) <= MaxEvents \/ Len(file[i].lines) \in ChunkSizes

\* One failed append costs at most one acknowledged line: the one whose text joins the
\* torn tail it left. Rotation, crashes and new writers cost none.
DamageBounded == Cardinality(acked \ Readable) <= fails

\* The log is read in order, the next line comes after all of it, no file outgrows its
\* limits and a fault loses no more than its own line.
LogSound == TypeOK /\ ReplayInOrder /\ CounterAhead /\ FilesBounded /\ DamageBounded

\* A call that no writer step overlapped answers with the directory's true bound.
Exact(r) ==
    (rd[r] # None /\ rd[r].pc = "done" /\ rd[r].clean)
      => rd[r].ret = IF rd[r].op = "max" THEN TrueMax ELSE TrueMin
BoundsExact == \A r \in Readers : Exact(r)

\* The same wherever the manifest's premises hold: no append failed, no file came from
\* outside, and no append fell between a scan's read of a file and its stat. Then the
\* cached bound stays right through rotations, growth of the open file and readers that
\* overwrite each other's manifest.
ReadExact == (fails = 0 /\ imports = 0 /\ ~raced) => BoundsExact

-----------------------------------------------------------------------------
(* The directory as a stream of numbered lines.                            *)

OpenTail ==
    IF current = None \/ ~file[current].open THEN None
    ELSE file[current].lines[Len(file[current].lines)]

Stream == INSTANCE WalStream WITH lines <- Readable, next <- global_seq, tail <- OpenTail

\* Files, rotation, torn appends, crashes, new writers and delivered files together do
\* what a numbered stream does: a line once readable is lost only with the unterminated
\* tail it is joined to, and a new writer counts on from what is left.
ImplementsStream == Stream!Spec

=============================================================================
