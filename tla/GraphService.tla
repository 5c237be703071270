---------------------------- MODULE GraphService ----------------------------
(***************************************************************************)
(* The core of the service: the process-wide write_lock, the database      *)
(* handle that knowledge_clear_all swaps under it, each group's            *)
(* write-ahead-log stream with its writer and generation record, the       *)
(* persisted WalPosition, and the handlers that touch them: writes,        *)
(* knowledge_clear_all and knowledge_rebuild_from_wal (streaming and       *)
(* background), crashes and restarts.                                      *)
(*                                                                         *)
(* A handler is a sequence of atomic steps; a step boundary is put at      *)
(* every point where the code awaits the lock, reads shared state without  *)
(* it, or leaves one durable effect done and the next one not.             *)
(***************************************************************************)
EXTENDS Naturals, Sequences

CONSTANTS
    Groups,        \* group_ids
    DefaultGroup,  \* wal_group::DEFAULT_GROUP_ID
    Clients,       \* in-flight IPC requests
    Tasks,         \* replay runs (background jobs and streaming rebuilds)
    None,          \* Rust's Option::None
    Enabled,       \* the requests the environment sends in this instance
    MaxRows,       \* bound: mutations ever committed
    MaxInst,       \* bound: database incarnations
    MaxCrashes,    \* bound: process crashes
    MaxDrops       \* bound: clients that disconnect during a streaming rebuild

Requests == {"episode", "assert", "delete", "clear_all", "clear_all_preserve",
             "catch_up", "rebuild", "force_rebuild"}

ASSUME ConstantsAssumption ==
    /\ DefaultGroup \in Groups
    /\ None \notin Nat /\ None \notin Groups
    /\ None \notin Clients /\ None \notin Tasks
    /\ Clients \cap Tasks = {}
    /\ Enabled \subseteq Requests
    /\ MaxRows \in Nat /\ MaxInst \in Nat \ {0}
    /\ MaxCrashes \in Nat /\ MaxDrops \in Nat

Insts == 1..MaxInst

VARIABLES
    lock,       \* AppState::write_lock: the holder of the write guard, or None
    live,       \* AppState::db: the incarnation the ArcSwap points at, or None
    disk,       \* the incarnation whose files are at db_path, or None
    rows,       \* rows[i][g]: rows of group g in incarnation i
    posn,       \* posn[i][g]: WalPosition row of g in incarnation i, or None
    inst,       \* number of incarnations created so far
    wal,        \* wal[g]: the durable lines of g's stream, in file order
    gen,        \* gen[g]: .wal-generation.json of g's stream, or None
    nextGen,    \* the next generation identity a mint will produce
    writer,     \* AppState::wal_writers[g], or None
    row,        \* number of row identities handed out
    pc,         \* pc[c]: where the handler of request c is
    req,        \* req[c]: the parameters of request c
    handle,     \* handle[c]: the Arc<Db> the handler loaded, or None
    flushed,    \* flushed[c]: what wal_flush_* returned, or None
    job,        \* rebuild_jobs[t]: "running", or "none" (absent, completed or failed)
    task,       \* task[t]: the replay run t, or None
    crashes,    \* number of crashes so far
    drops,      \* number of clients that disconnected during a streaming rebuild
    applied,    \* history: applied[i][g], mutations committed to g in incarnation i
    behind,     \* history: behind[i], groups of incarnation i that may lack lines of their stream
    cleared,    \* history: groups purged for a rebuild that has not replayed yet
    lost,       \* history: acknowledged writes that went to a dead incarnation
    named,      \* history: what each (group, generation, seq) was ever written for
    severed     \* history: groups an unfinished wipe left with their record and without their log

dbVars == <<live, disk, rows, posn, inst, applied, behind>>
walVars == <<wal, gen, nextGen, writer, named, severed>>
taskVars == <<job, task>>
reqVars == <<pc, req, handle, flushed>>
vars == <<lock, dbVars, walVars, row, reqVars, taskVars, crashes, drops, cleared, lost>>

Line == [seq : Nat, kind : {"create", "purge"}, row : Nat]
Position == [seq : Nat, gen : Nat \cup {None}]

-----------------------------------------------------------------------------
(* The stream of one group.                                                *)

Seqs(s) == {s[k].seq : k \in DOMAIN s}

\* Mutant: the highest seq itself, as wal_max_seq counts.
scan_max_seq_literal(s) ==
    IF s = <<>> THEN 0 ELSE CHOOSE m \in Seqs(s) : \A x \in Seqs(s) : x <= m

\* wal.rs scan_max_seq: one past the highest seq on disk, 0 for an empty stream.
scan_max_seq(s) ==
    IF s = <<>> THEN 0
    ELSE 1 + (CHOOSE m \in Seqs(s) : \A x \in Seqs(s) : x <= m)

\* WalWriter::new: the seq comes from the scan; a generation is read if there is
\* one, minted only for a stream without content, and otherwise left unknown.
Mints(g) == writer[g] = None /\ gen[g] = None /\ scan_max_seq(wal[g]) = 0
WalWriter_new(g) ==
    [seq |-> scan_max_seq(wal[g]),
     gen |-> IF Mints(g) THEN nextGen ELSE gen[g]]

\* AppState::with_wal_writer: the cached writer, created on first use.
with_wal_writer(g) == IF writer[g] = None THEN WalWriter_new(g) ELSE writer[g]
MintGeneration(g) ==
    /\ gen' = [gen EXCEPT ![g] = IF Mints(g) THEN nextGen ELSE @]
    /\ nextGen' = IF Mints(g) THEN nextGen + 1 ELSE nextGen

\* WalWriter::with_chunk / flush_pending for one mutation that is written and fsynced.
with_chunk(g, kind, r) ==
    LET w == with_wal_writer(g)
    IN  /\ wal' = [wal EXCEPT ![g] = Append(@, [seq |-> w.seq, kind |-> kind, row |-> r])]
        /\ writer' = [writer EXCEPT ![g] = [w EXCEPT !.seq = @ + 1]]
        /\ named' = named \cup {[g |-> g, gen |-> w.gen, seq |-> w.seq, row |-> r]}
        /\ MintGeneration(g)
        /\ UNCHANGED severed

\* A chunk whose append fails: the buffer is discarded, the seq it took is not given back.
with_chunk_err(g) ==
    LET w == with_wal_writer(g)
    IN  /\ writer' = [writer EXCEPT ![g] = [w EXCEPT !.seq = @ + 1]]
        /\ MintGeneration(g)
        /\ UNCHANGED <<wal, named, severed>>

\* Conn::set_wal_position: an unconditional overwrite of the group's row.
set_wal_position(i, g, p) == posn' = [posn EXCEPT ![i][g] = p]

\* WalWriter::resync_global_seq: monotone, never lowers the counter.
Larger(a, b) == IF a >= b THEN a ELSE b
\* Mutant: the floor is last_committed_seq itself and replaces the counter.
resync_to_last(w, g, last) == [w EXCEPT !.seq = IF last = None THEN @ ELSE last]
resync_global_seq(w, g, last) ==
    LET floor == IF last = None THEN 0 ELSE last + 1
    IN  [w EXCEPT !.seq = Larger(Larger(@, floor), scan_max_seq(wal[g]))]

\* wal_exec::resync_global_seq_after_rebuild: best effort. A failed scan, or a writer that
\* cannot be created, leaves the writer as it was: its counter is already past last.
resync_global_seq_after_rebuild(g, last) ==
    \/ /\ writer' = [writer EXCEPT ![g] = resync_global_seq(with_wal_writer(g), g, last)]
       /\ MintGeneration(g)
    \/ UNCHANGED <<writer, gen, nextGen>>

\* wal_generation::position_reset_detected.
position_reset_detected(p, current) ==
    p # None /\ current # None /\ p.gen # current

-----------------------------------------------------------------------------
(* Requests that commit a mutation: episode ingest (Phase C), the          *)
(* assertion API, delete_by_group and the other write handlers.            *)

NoReq == [op |-> "none", g |-> DefaultGroup, from |-> 0, force |-> FALSE,
          stream |-> FALSE, gen |-> None, row |-> 0]
Writes == {"episode", "assert", "delete"}

\* A handler returns to its caller, with success or with an error.
Return(c) ==
    /\ pc' = [pc EXCEPT ![c] = "idle"]
    /\ req' = [req EXCEPT ![c] = NoReq]
    /\ handle' = [handle EXCEPT ![c] = None]
    /\ flushed' = [flushed EXCEPT ![c] = None]

Goto(c, label) == pc' = [pc EXCEPT ![c] = label]

\* AppState::active_writes: episodes between their entry and their return.
active_writes == {c \in Clients : req[c].op = "episode"}

\* handlers::handle lets the request through while a database is loaded; an
\* episode is counted in active_writes from here on (extraction runs before Phase C).
BeginWrite(c, op, g) ==
    /\ pc[c] = "idle" /\ op \in Enabled \cap Writes
    /\ live # None /\ row < MaxRows
    /\ Goto(c, "start")
    /\ req' = [req EXCEPT ![c] = [NoReq EXCEPT !.op = op, !.g = g]]
    /\ UNCHANGED <<lock, dbVars, walVars, row, handle, flushed, taskVars, crashes, drops, cleared, lost>>

\* let db = load_db(&state)?, executed before the lock is taken.
LoadDb(c) ==
    /\ pc[c] = "start"
    /\ IF live = None
       THEN Return(c)
       ELSE /\ handle' = [handle EXCEPT ![c] = live]
            /\ Goto(c, "lock_wait")
            /\ UNCHANGED <<req, flushed>>
    /\ UNCHANGED <<lock, dbVars, walVars, row, taskVars, crashes, drops, cleared, lost>>

\* write_lock.write().await, then the statements of one write on the handle loaded earlier.
Commit(c) ==
    LET g == req[c].g
        h == handle[c]
    IN  /\ pc[c] = "lock_wait" /\ lock = None /\ row < MaxRows
        /\ lock' = c
        /\ row' = row + 1
        /\ rows' = [rows EXCEPT ![h][g] = IF req[c].op = "delete" THEN {} ELSE @ \cup {row + 1}]
        /\ applied' = [applied EXCEPT ![h][g] = @ \cup {row + 1}]
        /\ req' = [req EXCEPT ![c].row = row + 1]
        /\ Goto(c, "committed")
        /\ UNCHANGED <<live, disk, posn, inst, behind, walVars, handle, flushed,
                       taskVars, crashes, drops, cleared, lost>>

\* Mutant: the rolled-back mutation is flushed to the log all the same.
CommitFailsLogged(c) ==
    /\ pc[c] = "lock_wait" /\ lock = None
    /\ IF row < MaxRows
       THEN /\ lock' = c
            /\ row' = row + 1
            /\ req' = [req EXCEPT ![c].row = row + 1]
            /\ Goto(c, "committed")
            /\ UNCHANGED <<handle, flushed>>
       ELSE Return(c) /\ UNCHANGED <<lock, row>>
    /\ UNCHANGED <<dbVars, walVars, taskVars, crashes, drops, cleared, lost>>

\* Mutant: a failed commit is tried again, for ever.
CommitFailsRetried(c) ==
    /\ pc[c] = "lock_wait" /\ lock = None
    /\ Goto(c, "start")
    /\ UNCHANGED <<lock, dbVars, walVars, row, req, handle, flushed, taskVars, crashes, drops, cleared, lost>>

\* A statement fails and the handler returns the error. A purge is one transaction and is
\* rolled back; the other writes commit statement by statement, so what ran before the
\* failure stays in the database and is never logged.
CommitFails(c) ==
    LET g == req[c].g
        h == handle[c]
    IN  /\ pc[c] = "lock_wait" /\ lock = None
        /\ \/ UNCHANGED <<row, rows, applied>>
           \/ /\ req[c].op # "delete" /\ row < MaxRows
              /\ row' = row + 1
              /\ rows' = [rows EXCEPT ![h][g] = @ \cup {row + 1}]
              /\ applied' = [applied EXCEPT ![h][g] = @ \cup {row + 1}]
        /\ Return(c)
        /\ UNCHANGED <<lock, live, disk, posn, inst, behind, walVars, taskVars, crashes, drops, cleared,
                       lost>>

MutationKind(op) == IF op = "delete" THEN "purge" ELSE "create"

\* The line of a write on a handle loaded before a swap is none of the new database's.
LineElsewhere(c) ==
    IF disk = None \/ handle[c] = disk THEN behind
    ELSE [behind EXCEPT ![disk] = @ \cup {req[c].g}]

\* Mutant: reports the counter after the flush, one past the line written.
FlushAfter(c) ==
    LET g == req[c].g
        w == with_wal_writer(g)
    IN  /\ pc[c] = "committed"
        /\ with_chunk(g, MutationKind(req[c].op), req[c].row)
        /\ flushed' = [flushed EXCEPT ![c] = [seq |-> w.seq + 1, gen |-> w.gen]]
        /\ behind' = LineElsewhere(c)
        /\ Goto(c, "flushed")
        /\ UNCHANGED <<lock, live, disk, rows, posn, inst, applied, row, req, handle, taskVars, crashes, drops, cleared, lost>>

\* wal_flush_ungrouped / wal_flush_chunk after the commit.
Flush(c) ==
    LET g == req[c].g
        w == with_wal_writer(g)
    IN  /\ pc[c] = "committed"
        /\ with_chunk(g, MutationKind(req[c].op), req[c].row)
        /\ flushed' = [flushed EXCEPT ![c] = [seq |-> w.seq, gen |-> w.gen]]
        /\ behind' = LineElsewhere(c)
        /\ Goto(c, "flushed")
        /\ UNCHANGED <<lock, live, disk, rows, posn, inst, applied, row, req, handle, taskVars, crashes, drops, cleared, lost>>

\* The flush fails (non-fatal): the append fails, its fsync fails after the line reached
\* the file, or the writer cannot be created.
FlushFails(c) ==
    /\ pc[c] = "committed"
    /\ \/ with_chunk_err(req[c].g) /\ UNCHANGED behind
       \/ /\ with_chunk(req[c].g, MutationKind(req[c].op), req[c].row)
          /\ behind' = LineElsewhere(c)
       \/ writer[req[c].g] = None /\ UNCHANGED <<walVars, behind>>
    /\ flushed' = [flushed EXCEPT ![c] = None]
    /\ Goto(c, "flushed")
    /\ UNCHANGED <<lock, live, disk, rows, posn, inst, applied, row, req, handle, taskVars, crashes, drops, cleared, lost>>

\* advance_wal_position, then the guard is dropped and success is returned.
\* Persisting the position may fail; that is logged and otherwise ignored.
advance_wal_position(c) ==
    /\ pc[c] = "flushed"
    /\ \/ /\ flushed[c] # None
          /\ set_wal_position(handle[c], req[c].g, flushed[c])
       \/ UNCHANGED posn
    /\ lock' = None
    /\ lost' = IF handle[c] # live THEN lost \cup {req[c].row} ELSE lost
    /\ Return(c)
    /\ UNCHANGED <<live, disk, rows, inst, applied, behind, walVars, row, taskVars, crashes, drops,
                   cleared>>

-----------------------------------------------------------------------------
(* knowledge_clear_all.                                                    *)

Preserves(c) == req[c].op = "clear_all_preserve"

\* The degraded-mode guard of handlers::handle lets the request through.
BeginClearAll(c, op) ==
    /\ pc[c] = "idle" /\ op \in Enabled \cap {"clear_all", "clear_all_preserve"}
    /\ live # None /\ inst < MaxInst
    /\ req' = [req EXCEPT ![c] = [NoReq EXCEPT !.op = op]]
    /\ Goto(c, "clear_wait")
    /\ UNCHANGED <<lock, dbVars, walVars, row, handle, flushed, taskVars, crashes, drops, cleared, lost>>

\* Mutant: the writers survive the log they write to.
ClearAllKeepsWriters(c) ==
    /\ pc[c] = "clear_wait" /\ lock = None
    /\ lock' = c
    /\ live' = None
    /\ Goto(c, "wiping")
    /\ UNCHANGED <<disk, rows, posn, inst, applied, behind, walVars, row, req, handle,
                   flushed, taskVars, crashes, drops, cleared, lost>>

\* Under the lock the handle is dropped first; the writers go with the log.
ClearAll(c) ==
    /\ pc[c] = "clear_wait" /\ lock = None
    /\ lock' = c
    /\ live' = None
    /\ writer' = IF Preserves(c) THEN writer ELSE [g \in Groups |-> None]
    /\ Goto(c, "wiping")
    /\ UNCHANGED <<disk, rows, posn, inst, applied, behind, wal, gen, nextGen, named, severed, row, req,
                   handle, flushed, taskVars, crashes, drops, cleared, lost>>

\* Phase 1: the database files go first ...
ClearAllRemoveDb(c) ==
    /\ pc[c] = "wiping"
    /\ disk' = None
    /\ Goto(c, IF Preserves(c) THEN "reinit" ELSE "wiping_log")
    /\ UNCHANGED <<lock, live, rows, posn, inst, applied, behind, walVars, row, req, handle,
                   flushed, taskVars, crashes, drops, cleared, lost>>

\* Mutant: only the log files are removed, the generation records stay.
ClearAllKeepsRecord(c) ==
    /\ pc[c] = "wiping_log"
    /\ \/ \E g \in Groups : /\ wal[g] # <<>>
                            /\ wal' = [wal EXCEPT ![g] = <<>>]
                            /\ UNCHANGED pc
       \/ /\ \A g \in Groups : wal[g] = <<>>
          /\ Goto(c, "reinit")
          /\ UNCHANGED wal
    /\ UNCHANGED <<lock, dbVars, gen, nextGen, writer, named, severed, row, req, handle, flushed,
                   taskVars, crashes, drops, cleared, lost>>

\* ... then the WAL root, entry by entry in directory order (remove_dir_all): the files of
\* a stream and its generation record go one after the other, in either order.
ClearAllRemoveWal(c) ==
    /\ pc[c] = "wiping_log"
    /\ \/ \E g \in Groups : /\ wal[g] # <<>>
                            /\ wal' = [wal EXCEPT ![g] = <<>>]
                            /\ UNCHANGED <<gen, pc>>
       \/ \E g \in Groups : /\ gen[g] # None
                            /\ gen' = [gen EXCEPT ![g] = None]
                            /\ UNCHANGED <<wal, pc>>
       \/ /\ \A g \in Groups : wal[g] = <<>> /\ gen[g] = None
          /\ Goto(c, "reinit")
          /\ UNCHANGED <<wal, gen>>
    /\ UNCHANGED <<lock, dbVars, nextGen, writer, named, severed, row, req, handle, flushed, taskVars,
                   crashes, drops, cleared, lost>>

\* A fresh incarnation; only the default group gets a position row.
FreshInst(keepGen) ==
    /\ inst' = inst + 1
    /\ disk' = inst + 1
    /\ live' = inst + 1
    /\ posn' = [posn EXCEPT ![inst + 1][DefaultGroup] =
                    [seq |-> 0, gen |-> IF keepGen THEN gen[DefaultGroup] ELSE None]]
    /\ behind' = [behind EXCEPT ![inst + 1] = {g \in Groups : wal[g] # <<>>}]

\* Phase 2 succeeds: the new database is stored and the guard dropped.
ClearAllReinit(c) ==
    /\ pc[c] = "reinit" /\ inst < MaxInst
    /\ FreshInst(Preserves(c))
    /\ lock' = None
    /\ cleared' = {}
    /\ Return(c)
    /\ UNCHANGED <<rows, applied, walVars, row, taskVars, crashes, drops, lost>>

\* The streams whose lines are gone while their generation record is still there.
RecordAlone == {g \in Groups : wal[g] = <<>> /\ gen[g] # None}

\* Phase 1 or 2 fails, with whatever it has removed so far: the guard is dropped and the
\* service has no database. What is left at db_path is the old database, or none.
ClearAllFails(c) ==
    /\ pc[c] \in {"wiping", "wiping_log", "reinit"}
    /\ disk' \in {disk, None}
    /\ lock' = None
    /\ Return(c)
    /\ severed' = IF pc[c] = "wiping_log" THEN severed \cup RecordAlone ELSE severed
    /\ UNCHANGED <<live, rows, posn, inst, applied, behind, wal, gen, nextGen, writer, named, row,
                   taskVars, crashes, drops, cleared, lost>>

-----------------------------------------------------------------------------
(* knowledge_rebuild_from_wal: the request.                                *)

Rebuilds == {"catch_up", "rebuild", "force_rebuild"}

\* The generation check, without the lock. A mismatch turns any rebuild into
\* a purge and a full replay; an unknown generation is refused.
BeginRebuild(c, op, g, stream) ==
    LET p == posn[live][g]
        reset == position_reset_detected(p, gen[g])
        from == IF op = "catch_up" /\ p # None THEN p.seq + 1 ELSE 0
    IN  /\ pc[c] = "idle" /\ op \in Enabled \cap Rebuilds
        /\ live # None /\ wal[g] # <<>>
        /\ p # None => gen[g] # None
        /\ req' = [req EXCEPT ![c] =
                      [NoReq EXCEPT !.op = op, !.g = g, !.stream = stream, !.gen = gen[g],
                                    !.from = IF reset THEN 0 ELSE from,
                                    !.force = op = "force_rebuild" \/ reset]]
        /\ Goto(c, "rb_guard")
        /\ UNCHANGED <<lock, dbVars, walVars, row, handle, flushed, taskVars, crashes, drops, cleared, lost>>

\* The emptiness guard of a full rebuild and its refusals, still without the lock.
RebuildGuard(c) ==
    LET populated == req[c].from = 0 /\ rows[live][req[c].g] # {}
    IN  /\ pc[c] = "rb_guard"
        /\ IF live = None \/ (populated /\ (~req[c].force \/ active_writes # {}))
           THEN Return(c)
           ELSE /\ Goto(c, IF populated THEN "rb_clear" ELSE "rb_admit")
                /\ UNCHANGED <<req, handle, flushed>>
        /\ UNCHANGED <<lock, dbVars, walVars, row, taskVars, crashes, drops, cleared, lost>>

\* clear_group_for_rebuild: the purge commits under the lock and is not logged; without a
\* database, or when the purge fails and is rolled back, the request fails.
clear_group_for_rebuild(c) ==
    LET g == req[c].g
    IN  /\ pc[c] = "rb_clear" /\ lock = None
        /\ \/ Return(c) /\ UNCHANGED <<lock, rows, applied, behind, cleared>>
           \/ /\ live # None
              /\ lock' = c
              /\ handle' = [handle EXCEPT ![c] = live]
              /\ rows' = [rows EXCEPT ![live][g] = {}]
              /\ applied' = [applied EXCEPT ![live][g] = {}]
              /\ behind' = [behind EXCEPT ![live] = @ \cup {g}]
              /\ cleared' = cleared \cup {g}
              /\ Goto(c, "rb_reset")
              /\ UNCHANGED <<req, flushed>>
        /\ UNCHANGED <<live, disk, posn, inst, walVars, row, taskVars, crashes, drops, lost>>

\* ... then the group's position is reset (if that fails the request fails, the purge
\* stands) and the guard is dropped.
ClearedPosition(c) ==
    LET g == req[c].g
    IN  /\ pc[c] = "rb_reset"
        /\ lock' = None
        /\ \/ /\ set_wal_position(handle[c], g, [seq |-> 0, gen |-> gen[g]])
              /\ handle' = [handle EXCEPT ![c] = None]
              /\ Goto(c, "rb_admit")
              /\ UNCHANGED <<req, flushed>>
           \/ Return(c) /\ UNCHANGED posn
        /\ UNCHANGED <<live, disk, rows, inst, applied, behind, walVars, row, taskVars, crashes, drops,
                       cleared, lost>>

NewTask(c, owner) ==
    [g |-> req[c].g, from |-> req[c].from, gen |-> req[c].gen, h |-> live,
     owner |-> owner, i |-> 1, last |-> None, clean |-> TRUE, pc |-> "queued"]

Unused(t) == task[t] = None /\ job[t] = "none"
Running == {t \in Tasks : job[t] = "running"}

\* The second busy check, then: a streaming rebuild loads the database and waits for
\* the lock; a background one registers a job unless any job is already running.
RebuildAdmit(c) ==
    /\ pc[c] = "rb_admit"
    /\ \/ /\ active_writes # {} \/ (req[c].stream /\ live = None)
             \/ (~req[c].stream /\ Running # {})
          /\ Return(c)
          /\ UNCHANGED taskVars
       \/ /\ active_writes = {} /\ req[c].stream /\ live # None
          /\ \E t \in Tasks : Unused(t) /\ task' = [task EXCEPT ![t] = NewTask(c, c)]
          /\ Goto(c, "rb_stream")
          /\ UNCHANGED <<req, handle, flushed, job>>
       \/ /\ active_writes = {} /\ ~req[c].stream /\ Running = {}
          /\ \E t \in Tasks : Unused(t) /\ job' = [job EXCEPT ![t] = "running"]
          /\ Goto(c, "rb_spawn")
          /\ UNCHANGED <<req, handle, flushed, task>>
    /\ UNCHANGED <<lock, dbVars, walVars, row, crashes, drops, cleared, lost>>

\* The job is in the table; load_db may still fail, else the task is spawned.
RebuildSpawn(c) ==
    /\ pc[c] = "rb_spawn"
    /\ \E t \in Tasks :
         /\ job[t] = "running" /\ task[t] = None
         /\ task' = IF live = None THEN task ELSE [task EXCEPT ![t] = NewTask(c, None)]
    /\ Return(c)
    /\ UNCHANGED <<lock, dbVars, walVars, row, job, crashes, drops, cleared, lost>>

-----------------------------------------------------------------------------
(* knowledge_rebuild_from_wal: the replay.                                 *)

\* Mutant: the background task replays without waiting for the lock.
TaskLockFree(t) ==
    /\ task[t] # None /\ task[t].pc = "queued"
    /\ lock' = t
    /\ task' = [task EXCEPT ![t].pc = "replay"]
    /\ UNCHANGED <<dbVars, walVars, row, reqVars, job, crashes, drops, cleared, lost>>

\* state.write_lock.write().await, held for the whole replay.
TaskLock(t) ==
    /\ task[t] # None /\ task[t].pc = "queued" /\ lock = None
    /\ lock' = t
    /\ task' = [task EXCEPT ![t].pc = "replay"]
    /\ UNCHANGED <<dbVars, walVars, row, reqVars, job, crashes, drops, cleared, lost>>

\* WalReplayer::replay_opts / flush_batch: consecutive lines with one template run as one
\* transaction. Lines below from_seq are skipped; a create of a row that exists already
\* fails, and rolls back every other line of its batch.
ReplayBatch(t) ==
    LET k == task[t]
        s == wal[k.g]
        Batch(j) == {x \in k.i..j : s[x].seq >= k.from}
        Fails(j) == \E x \in Batch(j) : s[x].kind = "create" /\ s[x].row \in rows[k.h][k.g]
        Commits(j) == Batch(j) # {} /\ ~Fails(j)
        Rows(j) == {s[x].row : x \in Batch(j)}
    IN  /\ task[t] # None /\ k.pc \in {"replay", "detached"}
        /\ \E j \in k.i..Len(s) :
             /\ \A x \in k.i..j : s[x].kind = s[j].kind
             /\ rows' = [rows EXCEPT ![k.h][k.g] =
                            IF Commits(j) THEN IF s[j].kind = "create" THEN @ \cup Rows(j) ELSE {}
                            ELSE @]
             /\ applied' = [applied EXCEPT ![k.h][k.g] =
                               IF Commits(j) THEN @ \cup Rows(j) ELSE @]
             /\ task' = [task EXCEPT ![t].i = j + 1,
                                     ![t].last = IF Commits(j) THEN s[j].seq ELSE @,
                                     ![t].clean = @ /\ ~Fails(j),
                                     ![t].pc = IF @ = "detached" THEN "leaving" ELSE @]
        /\ UNCHANGED <<lock, live, disk, posn, inst, behind, walVars, row, reqVars, job,
                       crashes, drops, cleared, lost>>

\* The client of a streaming rebuild is gone when the next progress line is written: its
\* dispatch task is aborted, which drops the guard, while the blocking closure goes on. It
\* sees the closed channel at its next row, so only a batch in flight may still commit.
Disconnect(t) ==
    LET k == task[t]
    IN  /\ task[t] # None /\ k.pc = "replay" /\ k.owner \in Clients /\ drops < MaxDrops
        /\ drops' = drops + 1
        /\ lock' = None
        /\ task' = [task EXCEPT ![t].pc = "detached"]
        /\ cleared' = cleared \ {k.g}
        /\ Return(k.owner)
        /\ UNCHANGED <<dbVars, walVars, row, job, crashes, lost>>

\* The owner of a streaming rebuild gets its answer when the run ends; the guard goes with it.
Replays == {"replay", "detached", "leaving"}
EndRun(t) ==
    /\ lock' = IF task[t].pc = "replay" THEN None ELSE lock
    /\ cleared' = IF task[t].pc = "replay" THEN cleared \ {task[t].g} ELSE cleared
    /\ IF task[t].pc = "replay" /\ task[t].owner \in Clients
       THEN Return(task[t].owner) ELSE UNCHANGED reqVars

\* Mutant: a replay that committed nothing overwrites the position.
PersistAlways(k) == set_wal_position(k.h, k.g, [seq |-> k.last, gen |-> k.gen])

\* if let Some(seq) = stats.last_committed_seq: the generation is the one the request read.
PersistReplayed(k) ==
    /\ k.last # None
    /\ set_wal_position(k.h, k.g, [seq |-> k.last, gen |-> k.gen])

\* After the last line (or a cancellation, streaming only): resync the writer, persist
\* the last committed seq if there is one (non-fatal on failure), drop the guard.
ReplayFinish(t) ==
    LET k == task[t]
    IN  /\ task[t] # None /\ k.pc \in Replays
        /\ k.i > Len(wal[k.g]) \/ k.owner # None
        /\ resync_global_seq_after_rebuild(k.g, k.last)
        /\ PersistReplayed(k) \/ UNCHANGED posn
        /\ task' = [task EXCEPT ![t] = IF k.owner = None THEN [k EXCEPT !.pc = "done"] ELSE None]
        /\ behind' = IF k.from = 0 /\ k.clean /\ k.i > Len(wal[k.g]) /\ k.pc = "replay"
                     THEN [behind EXCEPT ![k.h] = @ \ {k.g}] ELSE behind
        /\ EndRun(t)
        /\ UNCHANGED <<live, disk, rows, inst, applied, wal, named, severed, row, job, crashes, drops, lost>>

\* Mutant: a background replay that fails is put back into the queue.
ReplayFailsRequeued(t) ==
    LET k == task[t]
    IN  /\ task[t] # None /\ k.pc \in Replays
        /\ resync_global_seq_after_rebuild(k.g, None)
        /\ task' = [task EXCEPT ![t] = IF k.owner = None THEN [k EXCEPT !.pc = "queued", !.i = 1] ELSE None]
        /\ EndRun(t)
        /\ UNCHANGED <<dbVars, wal, named, severed, row, job, crashes, drops, lost>>

\* replay_opts returns an error: GlobalSeqResyncGuard resyncs from the scan alone, the
\* position stays where it was.
ReplayFails(t) ==
    LET k == task[t]
    IN  /\ task[t] # None /\ k.pc \in Replays
        /\ resync_global_seq_after_rebuild(k.g, None)
        /\ task' = [task EXCEPT ![t] = IF k.owner = None THEN [k EXCEPT !.pc = "done"] ELSE None]
        /\ EndRun(t)
        /\ UNCHANGED <<dbVars, wal, named, severed, row, job, crashes, drops, lost>>

\* The job table is updated after the guard was dropped; a completed or failed entry
\* only answers knowledge_rebuild_status from then on.
JobStatus(t) ==
    /\ task[t] # None /\ task[t].pc = "done"
    /\ job' = [job EXCEPT ![t] = "none"]
    /\ task' = [task EXCEPT ![t] = None]
    /\ UNCHANGED <<lock, dbVars, walVars, row, reqVars, crashes, drops, cleared, lost>>

-----------------------------------------------------------------------------
(* Crash and restart: the process state is gone, what was committed or     *)
(* fsynced is not.                                                         *)

Crash ==
    /\ crashes < MaxCrashes
    /\ disk # None \/ inst < MaxInst       \* bound: the restart can create a database
    /\ crashes' = crashes + 1
    /\ lock' = None /\ live' = None
    /\ writer' = [g \in Groups |-> None]
    /\ pc' = [c \in Clients |-> "down"]
    /\ req' = [c \in Clients |-> NoReq]
    /\ handle' = [c \in Clients |-> None]
    /\ flushed' = [c \in Clients |-> None]
    /\ job' = [t \in Tasks |-> "none"]
    /\ task' = [t \in Tasks |-> None]
    /\ cleared' = {}
    /\ severed' = IF \E c \in Clients : pc[c] = "wiping_log" THEN severed \cup RecordAlone ELSE severed
    /\ UNCHANGED <<disk, rows, posn, inst, applied, behind, wal, gen, nextGen, named, row, drops, lost>>

\* bootstrap_app_state: open what is at db_path, or a fresh database, whose default
\* group gets position 0 from backfill_applied_seq_if_absent.
Restart ==
    /\ \A c \in Clients : pc[c] = "down"
    /\ pc' = [c \in Clients |-> "idle"]
    /\ \/ disk # None /\ live' = disk /\ UNCHANGED <<disk, posn, inst, behind>>
       \/ disk = None /\ inst < MaxInst /\ FreshInst(TRUE)
    /\ UNCHANGED <<lock, rows, applied, walVars, row, req, handle, flushed, taskVars,
                   crashes, drops, cleared, lost>>

-----------------------------------------------------------------------------
Init ==
    /\ lock = None /\ live = 1 /\ disk = 1 /\ inst = 1
    /\ rows = [i \in Insts |-> [g \in Groups |-> {}]]
    /\ posn = [i \in Insts |-> [g \in Groups |->
                  IF i = 1 /\ g = DefaultGroup THEN [seq |-> 0, gen |-> None] ELSE None]]
    /\ wal = [g \in Groups |-> <<>>]
    /\ gen = [g \in Groups |-> None]
    /\ nextGen = 1
    /\ writer = [g \in Groups |-> None]
    /\ row = 0 /\ crashes = 0 /\ drops = 0
    /\ pc = [c \in Clients |-> "idle"]
    /\ req = [c \in Clients |-> NoReq]
    /\ handle = [c \in Clients |-> None]
    /\ flushed = [c \in Clients |-> None]
    /\ job = [t \in Tasks |-> "none"]
    /\ task = [t \in Tasks |-> None]
    /\ applied = [i \in Insts |-> [g \in Groups |-> {}]]
    /\ behind = [i \in Insts |-> {}]
    /\ cleared = {} /\ lost = {} /\ named = {} /\ severed = {}

ClientStep(c) ==
    \/ LoadDb(c) \/ Commit(c) \/ CommitFails(c) \/ Flush(c) \/ FlushFails(c)
    \/ advance_wal_position(c)
    \/ ClearAll(c) \/ ClearAllRemoveDb(c) \/ ClearAllRemoveWal(c) \/ ClearAllReinit(c)
    \/ ClearAllFails(c)
    \/ RebuildGuard(c) \/ clear_group_for_rebuild(c) \/ ClearedPosition(c)
    \/ RebuildAdmit(c) \/ RebuildSpawn(c)

TaskStep(t) == TaskLock(t) \/ ReplayBatch(t) \/ ReplayFinish(t) \/ ReplayFails(t)
               \/ JobStatus(t)

Request(c) ==
    \/ \E op \in Requests, g \in Groups :
         \/ BeginWrite(c, op, g)
         \/ \E stream \in BOOLEAN : BeginRebuild(c, op, g, stream)
    \/ \E op \in Requests : BeginClearAll(c, op)

\* Nobody has anything left to do: the service waits for requests.
Idle ==
    /\ \A c \in Clients : pc[c] = "idle"
    /\ \A t \in Tasks : task[t] = None
    /\ lock = None
    /\ UNCHANGED vars

Next ==
    \/ \E c \in Clients : Request(c) \/ ClientStep(c)
    \/ \E t \in Tasks : TaskStep(t) \/ Disconnect(t)
    \/ Crash
    \/ Restart
    \/ Idle

Spec == Init /\ [][Next]_vars

-----------------------------------------------------------------------------
(* Properties.                                                             *)

PCs == {"idle", "down", "start", "lock_wait", "committed", "flushed", "clear_wait", "wiping",
        "wiping_log", "reinit", "rb_guard", "rb_clear", "rb_reset", "rb_admit", "rb_stream", "rb_spawn"}
Request_ == [op : Requests \cup {"none"}, g : Groups, from : Nat, force : BOOLEAN,
             stream : BOOLEAN, gen : Nat \cup {None}, row : Nat]
Task_ == [g : Groups, from : Nat, gen : Nat \cup {None}, h : Insts, owner : Clients \cup {None},
          i : Nat \ {0}, last : Nat \cup {None}, clean : BOOLEAN,
          pc : {"queued", "done"} \cup Replays]

\* The types of the service's state: handles, positions, streams, writers, jobs.
TypeOK ==
    /\ lock \in Clients \cup Tasks \cup {None}
    /\ live \in Insts \cup {None} /\ disk \in Insts \cup {None} /\ inst \in Insts
    /\ rows \in [Insts -> [Groups -> SUBSET Nat]]
    /\ posn \in [Insts -> [Groups -> Position \cup {None}]]
    /\ wal \in [Groups -> Seq(Line)]
    /\ gen \in [Groups -> Nat \cup {None}] /\ nextGen \in Nat
    /\ writer \in [Groups -> Position \cup {None}]
    /\ row \in Nat /\ crashes \in Nat /\ drops \in Nat
    /\ pc \in [Clients -> PCs] /\ req \in [Clients -> Request_]
    /\ handle \in [Clients -> Insts \cup {None}]
    /\ flushed \in [Clients -> Position \cup {None}]
    /\ job \in [Tasks -> {"none", "running"}]
    /\ task \in [Tasks -> Task_ \cup {None}]
    /\ applied \in [Insts -> [Groups -> SUBSET Nat]]
    /\ behind \in [Insts -> SUBSET Groups]
    /\ cleared \subseteq Groups /\ lost \subseteq Nat /\ severed \subseteq Groups
    /\ named \subseteq [g : Groups, gen : Nat \cup {None}, seq : Nat, row : Nat]

\* The write_lock excludes: whoever is between a commit and its flush, in a clear_all or
\* in a replay holds it, so no two handlers, jobs or streaming rebuilds ever are; the one
\* exception is the rest of a replay whose client disconnected.
Critical == {"committed", "flushed", "wiping", "wiping_log", "reinit", "rb_reset"}
LockHeld ==
    /\ \A c \in Clients : pc[c] \in Critical => lock = c
    /\ \A t \in Tasks : (task[t] # None /\ task[t].pc = "replay") => lock = t

\* The streams are deleted only when no cached writer points into them, unless the rest of
\* an abandoned replay re-created one without the lock.
WipeHasNoWriter ==
    drops = 0 =>
      \A c \in Clients :
        (pc[c] = "wiping_log" \/ (pc[c] = "wiping" /\ ~Preserves(c)))
          => \A g \in Groups : writer[g] = None

\* The seqs of a stream are strictly increasing, so no seq names two mutations:
\* through failed appends (which burn a seq), writers dropped by knowledge_clear_all
\* or a crash and re-created from a scan, and rebuilds that resync the counter.
SeqsIncrease ==
    \A g \in Groups : \A j, k \in DOMAIN wal[g] : j < k => wal[g][j].seq < wal[g][k].seq

\* A cached writer's next seq is beyond everything its stream holds, always; and it carries
\* the stream's own generation unless an abandoned replay created it during a clear_all. So
\* what it returns to advance_wal_position is never a seq or a generation of another stream.
WriterAhead ==
    \A g \in Groups :
      writer[g] # None => /\ \A x \in Seqs(wal[g]) : x < writer[g].seq
                          /\ drops = 0 => writer[g].gen = gen[g]

\* A position of the database at db_path recorded under the stream's current generation
\* points into the stream (or is the reset value 0), whichever handler, job or restart
\* wrote it.
PositionWithinLog ==
    disk # None =>
      \A g \in Groups :
        LET p == posn[disk][g]
        IN  (p # None /\ gen[g] # None /\ p.gen = gen[g] /\ p.seq # 0)
              => p.seq \in Seqs(wal[g])

\* Does the position of g in incarnation i claim a line that was never committed there?
\* (0 claims nothing: the code overloads it for "nothing applied".)
Leads(i, g) ==
    LET p == posn[i][g]
    IN  /\ p # None /\ p.seq > 0 /\ gen[g] # None /\ p.gen = gen[g]
        /\ \E k \in DOMAIN wal[g] : wal[g][k].seq <= p.seq /\ wal[g][k].row \notin applied[i][g]

\* Every line at or below the position had its mutation committed, unless the database was
\* made to lack lines of the stream and no complete clean replay has brought them since: by
\* clear_group_for_rebuild, by being created over a log that was kept, or by a write that
\* reached the log and a database swapped away. Nothing else ever opens a gap: ingest,
\* deletes, failed flushes, replays from a stale from_seq, rolled-back batches, cancellations
\* and crashes at any step keep the position behind the content, and a complete clean
\* rebuild re-establishes that.
NeverLeads == disk # None => \A g \in Groups \ behind[disk] : ~Leads(disk, g)

\* A (generation, seq) pair names one mutation for ever, so a position recorded under the
\* stream's generation, here or by a consumer of a copy, keeps meaning what it meant; a
\* stream that starts over gets another generation. A clear_all that fails or dies between
\* a log and its record leaves the old generation to a stream that starts at 0 again, and
\* an abandoned replay may write on in a generation that was wiped.
GenerationNamesOne ==
    drops = 0 =>
      \A a, b \in named :
        (a.g = b.g /\ a.g \notin severed /\ a.gen = b.gen /\ a.gen # None /\ a.seq = b.seq)
          => a.row = b.row

\* What a recorded position means: it points into the stream of its generation, the pair
\* names one mutation for ever, and everything up to it was committed.
PositionHonest == PositionWithinLog /\ GenerationNamesOne /\ NeverLeads

-----------------------------------------------------------------------------
(* Liveness: tokio schedules every task, and its RwLock queues in FIFO     *)
(* order, so a handler that waits for the lock gets it.                    *)
Fairness ==
    /\ \A c \in Clients : SF_vars(ClientStep(c))
    /\ \A t \in Tasks : SF_vars(TaskStep(t))
FairSpec == Spec /\ Fairness

\* Every request is answered: no interleaving of writers, clear_all and rebuilds leaves
\* a handler waiting for ever for the lock or for a replay.
HandlersFinish ==
    \A c \in Clients : pc[c] \notin {"idle", "down"} ~> pc[c] \in {"idle", "down"}

\* A job whose task was spawned leaves the running state: a replay that fails, a handle
\* swapped away and a lock everybody waits for do not keep its entry there.
SpawnedJobsFinish ==
    \A t \in Tasks : (job[t] = "running" /\ task[t] # None) ~> job[t] # "running"

\* What rebuild_status promises (specs/29-tier-2-wal-admin/spec.md:78): a job that the
\* table calls running ends there, as completed or as failed. The code does not keep it:
\* between the entry and the task load_db may fail (handlers.rs:3342).
JobsFinish == \A t \in Tasks : job[t] = "running" ~> job[t] # "running"

-----------------------------------------------------------------------------
(* What docs and comments of the repository say and the code does not keep:*)
(* none of these is an invariant. The README gives the behaviours.         *)

\* "applied_seq MUST NEVER exceed what is actually committed": every line at or below
\* the live database's applied_seq had its mutation committed to that database.
PositionNeverLeads == live # None => \A g \in Groups : ~Leads(live, g)

\* A streaming rebuild holds the write guard until its blocking closure has completed.
ReplayIsLocked == \A t \in Tasks : (task[t] # None /\ task[t].pc \in Replays) => lock = t

\* A job the table calls running has a task, or a handler about to spawn it.
RunningJobHasTask ==
    \A t \in Running : task[t] # None \/ \E c \in Clients : pc[c] = "rb_spawn"

\* A group purged for a rebuild is still owed a replay by somebody: the request that
\* purged it, or a run of that group.
ClearedIsReplayed ==
    \A g \in cleared :
      \/ \E c \in Clients : req[c].g = g /\ pc[c] \in {"rb_reset", "rb_admit", "rb_stream", "rb_spawn"}
      \/ \E t \in Tasks : task[t] # None /\ task[t].g = g

\* A write that was acknowledged went to the database the service serves.
AckedWritesAreLive == lost = {}

=============================================================================
