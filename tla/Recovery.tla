----------------------------- MODULE Recovery ------------------------------
(***************************************************************************)
(* The start of the service over its workspace, and how it recovers its    *)
(* database: the embedder probe, opening the database and backfilling what *)
(* older versions left out, the self-recovery that drops a torn engine log *)
(* and replays the workspace WAL (run_full_recovery_sequence), and the     *)
(* knowledge_recover handlers. The file migrations that run first are      *)
(* module Workspace; a crash may fall between any two steps.               *)
(*                                                                         *)
(* The engine keeps a checkpoint (db) and its own log (dbwal): disk is what*)
(* the two give together, ckpt what the checkpoint alone gives.            *)
(***************************************************************************)
EXTENDS Workspace, FiniteSetsExt

CONSTANTS
    Groups,        \* group_ids with a stream
    DefaultGroup,  \* wal_group::DEFAULT_GROUP_ID
    None,          \* Option::None
    EpisodeLines,  \* seqs of the lines that create an episode
    KeylessLines,  \* seqs of the lines recorded before lookup_key existed
    LinesIn,       \* LinesIn[f]: the seqs of the lines in WAL file f
    MaxWrites,     \* bound: writes after a start
    MaxCrashes,    \* bound: crashes
    MaxProbes      \* bound: embedder probes until the retry deadline

Seqs == 0..(3 + MaxWrites)

ASSUME RecoveryAssumption ==
    /\ DefaultGroup \in Groups
    /\ None \notin {"boot", "full", "rebuild_from_workspace_wal"}
    /\ EpisodeLines \subseteq Nat /\ KeylessLines \subseteq Nat
    /\ \A f \in WalFiles : LinesIn[f] \subseteq Seqs
    /\ \E f \in WalFiles : LinesIn[f] # {}
    /\ MaxWrites \in Nat /\ MaxCrashes \in Nat /\ MaxProbes \in Nat \ {0}

VARIABLES
    disk,      \* the database as the next open would find it, or None
    ckpt,      \* the same without the engine's own log
    backup,    \* the newest *.pre-*-backup file, or None
    stream,    \* stream[g]: the seqs written to the stream of another group
    live,      \* AppState::db is Some
    degraded,  \* AppState::degraded_reason
    indices,   \* AppState::indices_built
    probes,    \* embedder probes of this start
    caller,    \* who runs the recovery: "boot", "full", a strategy, or None
    work,      \* work[g]: the lines of g the running replay has still to apply
    done,      \* positions collected or written by the running replay
    healed,    \* history: the last start went through the self-recovery
    overtaken, \* history: groups written, or replayed, past lines that were missing
    cutShort,  \* history: a replay ended before the lookup_key backfill that follows it
    writes, crashes

dbVars == <<disk, ckpt, backup, stream>>
stateVars == <<live, degraded, indices>>
runVars == <<caller, work, done>>
histVars == <<healed, overtaken>>
recoveryVars == <<dbVars, stateVars, runVars, histVars, probes, writes, crashes, cutShort>>
vars == <<workspaceVars, recoveryVars>>

NoPositions == [g \in Groups |-> None]

(* rows[g]: the lines of g applied; posn: WalPosition rows, with the       *)
(* pre-378 row 'singleton'; nullKeys: entities without a lookup_key;       *)
(* keyState: SchemaState of the lookup_key backfill.                       *)
EmptyDb == [rows |-> [g \in Groups |-> {}], posn |-> NoPositions,
            singleton |-> None, nullKeys |-> {}, keyState |-> None]

(* list_group_wal_dirs: the lines replay finds on disk for each group.     *)
Lines(g) == IF g = DefaultGroup
            THEN UNION {LinesIn[f] : f \in {w \in WalFiles : at["group"][w] = "ours"}}
            ELSE stream[g]

-----------------------------------------------------------------------------
(* Backfills.                                                              *)

(* run_lookup_key_backfill_and_record_status, or its failure.              *)
Keyed(d) == [d EXCEPT !.nullKeys = {}, !.keyState = "complete"]
(* Mutant: a failed backfill is recorded like a complete one.              *)
KeyedOrSwallowed(d) == {Keyed(d), [d EXCEPT !.keyState = "complete"]}

KeyedOrFailed(d) == {Keyed(d), [d EXCEPT !.keyState = "failed"]}

(* ensure_lookup_key_backfill, at every open: trusts a "complete" marker.  *)
InitSchema(d) == IF d.keyState = "complete" THEN {d} ELSE KeyedOrFailed(d)

Episodes(d, g) == d.rows[g] \cap EpisodeLines

(* derive_episode_cursor: the line of the episode with the latest          *)
(* reference time, which the client chooses; 0 when there is none or its   *)
(* line is not on disk.                                                    *)
derive_episode_cursor(d, g) ==
    IF Episodes(d, g) = {} THEN {0}
    ELSE {IF e \in Lines(g) THEN e ELSE 0 : e \in Episodes(d, g)}

(* Mutant: the position is backfilled from the stream, not from the graph. *)
backfill_from_stream(d, g) ==
    {IF d.posn[g] # None THEN d.posn[g]
     ELSE IF Lines(g) = {} THEN 0 ELSE Max(Lines(g))}

(* backfill_applied_seq_if_absent: the positions it may leave.             *)
backfill_applied_seq_if_absent(d, g) ==
    CASE d.posn[g] # None -> {d.posn[g]}
      [] d.posn[g] = None /\ d.rows[g] = {} -> {0}
      [] d.posn[g] = None /\ d.rows[g] # {} /\ Episodes(d, g) = {} -> {None}
      [] OTHER -> {IF e \in Lines(g) THEN e ELSE None : e \in Episodes(d, g)}

(* migrate_legacy_singleton_wal_position.                                  *)
MigrateSingleton(d) ==
    IF d.singleton = None THEN d
    ELSE [d EXCEPT !.singleton = None,
            !.posn[DefaultGroup] = IF @ = None THEN d.singleton ELSE @]

-----------------------------------------------------------------------------
(* The start.                                                              *)

(* The engine's log is found beside the database only if it was moved with *)
(* it.                                                                     *)
Opened ==
    CASE at["lcg"]["db"] = Absent -> EmptyDb
      [] at["lcg"]["db"] # Absent /\ at["lcg"]["dbwal"] = Absent -> ckpt
      [] OTHER -> disk

(* Opening creates what is missing.                                        *)
Created == [at EXCEPT !["lcg"]["db"] = IF @ = Absent THEN "fresh" ELSE @,
                      !["lcg"]["dbwal"] = IF @ = Absent THEN "fresh" ELSE @]

Start ==
    /\ boot = "down"
    /\ boot' = "migrate" /\ outcome' = Absent
    /\ probes' = 0 /\ healed' = FALSE
    /\ UNCHANGED <<fileVars, envVars, faults, dbVars, stateVars, runVars,
                   overtaken, writes, crashes, cutShort>>

PreMigration == IF outcome = "failed" THEN "migration_failed" ELSE None

(* resolve_and_probe_embedder: which transport, and whether it answers.    *)
ProbeOutcome == {"ready", "fatal", "retryable"}

(* Mutant: no deadline.                                                    *)
ProbeForever ==
    /\ boot = "probe"
    /\ \E o \in ProbeOutcome :
         \/ o = "ready" /\ boot' = "walroot" /\ UNCHANGED <<probes, stateVars>>
         \/ o # "ready" /\ boot' = "exited" /\ UNCHANGED <<probes, stateVars>>
         \/ o = "retryable" /\ probes' = 1 - probes /\ UNCHANGED <<boot, stateVars>>
    /\ UNCHANGED <<fileVars, outcome, envVars, faults, dbVars, runVars, histVars,
                   writes, crashes, cutShort>>

(* A retryable outcome is fatal in socket mode; in standalone MCP mode it  *)
(* is retried until the deadline, then the service starts degraded and     *)
(* without a database.                                                     *)
ProbeEmbedder ==
    /\ boot = "probe"
    /\ \E o \in ProbeOutcome :
         \/ o = "ready" /\ boot' = "walroot" /\ UNCHANGED <<probes, stateVars>>
         \/ o # "ready" /\ boot' = "exited" /\ UNCHANGED <<probes, stateVars>>
         \/ /\ o = "retryable" /\ probes < MaxProbes
            /\ probes' = probes + 1
            /\ UNCHANGED <<boot, stateVars>>
         \/ /\ o = "retryable" /\ probes = MaxProbes
            /\ boot' = "ready" /\ live' = FALSE /\ indices' = FALSE
            /\ degraded' = IF PreMigration # None THEN PreMigration
                           ELSE "embedder_unreachable"
            /\ UNCHANGED probes
    /\ UNCHANGED <<fileVars, outcome, envVars, faults, dbVars, runVars, histVars,
                   writes, crashes, cutShort>>

(* Db::open, init_schema, ensure_ingested_at_backfill and the indices.     *)
OpenDb ==
    /\ boot = "open"
    /\ ~TornLog
    /\ disk' \in InitSchema(Opened)
    /\ ckpt' = IF at["lcg"]["db"] = Absent THEN EmptyDb ELSE ckpt
    /\ at' = Created
    /\ boot' = "position"
    /\ UNCHANGED <<dirs, outcome, envVars, faults, backup, stream, stateVars,
                   runVars, histVars, probes, writes, crashes, cutShort>>

(* A torn engine log is recoverable by its message; anything else is fatal.*)
OpenDbFails ==
    /\ boot = "open"
    /\ \/ TornLog /\ boot' = "drop" /\ caller' = "boot" /\ healed' = TRUE
          /\ UNCHANGED faults
       \/ /\ faults < MaxFaults /\ faults' = faults + 1
          /\ boot' = "exited" /\ UNCHANGED <<caller, healed>>
    /\ UNCHANGED <<fileVars, outcome, envVars, dbVars, stateVars, work, done,
                   overtaken, probes, writes, crashes, cutShort>>

BackfillPosition ==
    /\ boot = "position"
    /\ \E p \in backfill_applied_seq_if_absent(MigrateSingleton(disk), DefaultGroup) :
         disk' = [MigrateSingleton(disk) EXCEPT !.posn[DefaultGroup] = p]
    /\ boot' = "ready" /\ live' = TRUE /\ indices' = TRUE
    /\ degraded' = PreMigration
    /\ UNCHANGED <<fileVars, outcome, envVars, faults, ckpt, backup, stream,
                   runVars, histVars, probes, writes, crashes, cutShort>>

-----------------------------------------------------------------------------
(* run_full_recovery_sequence, for a start or for knowledge_recover_full.  *)

(* Files of the default stream a failed relocation left out of its         *)
(* directory are invisible to a replay.                                    *)
ReplaysPast ==
    IF \A f \in origin.entries \cap WalFiles : at["group"][f] = "ours"
    THEN overtaken ELSE overtaken \cup {DefaultGroup}

Recovering(step) == boot = step /\ caller \in {"boot", "full"}

(* Mutant: the checkpoint is taken for complete.                           *)
NoTail(c, g) == {}
Tail(c, g) == {s \in Lines(g) : s >= c}

(* attempt_checkpoint_drop and the cursor: only the default group is       *)
(* replayed.                                                               *)
CheckpointDrop ==
    /\ Recovering("drop")
    /\ \E d \in InitSchema(ckpt) :
         /\ disk' = d
         /\ \E c \in derive_episode_cursor(d, DefaultGroup) :
              work' = [g \in Groups |-> IF g = DefaultGroup THEN Tail(c, g) ELSE {}]
    /\ at' = Put(at, "lcg", "dbwal", "fresh")
    /\ done' = NoPositions /\ overtaken' = ReplaysPast
    /\ boot' = "replay"
    /\ UNCHANGED <<dirs, outcome, envVars, faults, ckpt, backup, stream, stateVars,
                   caller, healed, probes, writes, crashes, cutShort>>

(* The checkpoint does not open: full_rebuild removes the database, and    *)
(* every group is replayed from the first line.                            *)
FullRebuild ==
    /\ Recovering("drop")
    /\ faults < MaxFaults /\ faults' = faults + 1
    /\ \E d \in InitSchema(EmptyDb) : disk' = d
    /\ ckpt' = EmptyDb
    /\ at' = Put(Put(at, "lcg", "db", "fresh"), "lcg", "dbwal", "fresh")
    /\ work' = [g \in Groups |-> Lines(g)]
    /\ done' = NoPositions /\ overtaken' = ReplaysPast
    /\ boot' = "replay"
    /\ UNCHANGED <<dirs, outcome, envVars, backup, stream, stateVars, caller,
                   healed, probes, writes, crashes, cutShort>>

(* replay_opts applies a group's lines in order, group after group; an     *)
(* entity of an old line has no lookup_key.                                *)
Apply(d, g, s) ==
    [d EXCEPT !.rows[g] = @ \cup {s},
              !.nullKeys = IF s \in KeylessLines THEN @ \cup {<<g, s>>} ELSE @]

ReplayLine ==
    /\ boot = "replay"
    /\ \E g \in Groups :
         /\ work[g] # {}
         /\ \A h \in Groups : done[h] # None /\ h # g => work[h] = {}
         /\ LET s == Min(work[g]) IN
            /\ disk' = Apply(disk, g, s)
            /\ work' = [work EXCEPT ![g] = @ \ {s}]
            /\ done' = [done EXCEPT ![g] = s]
    /\ UNCHANGED <<workspaceVars, ckpt, backup, stream, stateVars, caller,
                   histVars, probes, writes, crashes, cutShort>>

(* knowledge_recover's rebuild writes a group's position once its replay   *)
(* is over; the self-recovery keeps the positions for the end.             *)
ReplayGroupDone ==
    /\ boot = "replay" /\ caller = "rebuild_from_workspace_wal"
    /\ \E g \in Groups : /\ work[g] = {} /\ done[g] # None
                         /\ disk.posn[g] = None
                         /\ disk' = [disk EXCEPT !.posn[g] = done[g]]
    /\ UNCHANGED <<workspaceVars, ckpt, backup, stream, stateVars, runVars,
                   histVars, probes, writes, crashes, cutShort>>

(* Mutant: the migration's outcome is stored for the degraded reason.      *)
SettleOutcome(reason) ==
    /\ boot' = "ready" /\ live' = TRUE /\ indices' = TRUE /\ degraded' = outcome
    /\ caller' = None /\ work' = [g \in Groups |-> {}] /\ done' = NoPositions

(* Zero-fills, the forced lookup_key and ingested_at backfills, indices.   *)
PostReplay ==
    /\ boot = "replay" /\ \A g \in Groups : work[g] = {}
    /\ caller = "rebuild_from_workspace_wal" =>
         \A g \in Groups : done[g] # None => disk.posn[g] # None
    /\ disk' \in KeyedOrFailed(disk)
    /\ boot' = "persist"
    /\ UNCHANGED <<at, dirs, outcome, envVars, faults, ckpt, backup, stream,
                   stateVars, runVars, histVars, probes, writes, crashes, cutShort>>

Settle(reason) ==
    /\ boot' = "ready" /\ live' = TRUE /\ indices' = TRUE /\ degraded' = reason
    /\ caller' = None /\ work' = [g \in Groups |-> {}] /\ done' = NoPositions

PersistPositions ==
    /\ boot = "persist"
    /\ disk' = [disk EXCEPT !.posn = [g \in Groups |->
                  IF done[g] # None THEN done[g] ELSE @[g]]]
    /\ Settle(IF caller = "boot" THEN PreMigration ELSE None)
    /\ UNCHANGED <<at, dirs, outcome, envVars, faults, ckpt, backup, stream,
                   histVars, probes, writes, crashes, cutShort>>

(* A replay or an index build fails. A start ends degraded, without a      *)
(* database; a handler leaves the state as it was.                         *)
RecoveryFails ==
    /\ boot \in {"replay", "persist"}
    /\ faults < MaxFaults /\ faults' = faults + 1
    /\ boot' = "ready"
    /\ IF caller = "boot"
       THEN /\ live' = FALSE /\ indices' = FALSE
            /\ degraded' = IF PreMigration # None THEN PreMigration
                           ELSE "lbug_wal_corrupt"
       ELSE UNCHANGED stateVars
    /\ caller' = None /\ work' = [g \in Groups |-> {}] /\ done' = NoPositions
    /\ cutShort' = (cutShort \/ boot = "replay")
    /\ UNCHANGED <<fileVars, outcome, envVars, dbVars, histVars, probes, writes,
                   crashes>>

-----------------------------------------------------------------------------
(* knowledge_recover and knowledge_recover_full: try_write on the lock, so *)
(* one at a time.                                                          *)

RecoverAllowed == /\ boot = "ready" /\ caller = None
                  /\ degraded # "embedder_unreachable"

handle_knowledge_recover_full ==
    /\ RecoverAllowed /\ ~live
    /\ caller' = "full" /\ boot' = "drop" /\ indices' = FALSE
    /\ UNCHANGED <<fileVars, outcome, envVars, faults, dbVars, live, degraded,
                   work, done, histVars, probes, writes, crashes, cutShort>>

recover_rebuild_from_workspace_wal ==
    /\ RecoverAllowed
    /\ caller' = "rebuild_from_workspace_wal" /\ boot' = "replay"
    /\ indices' = FALSE
    /\ \E d \in InitSchema(EmptyDb) : disk' = d
    /\ ckpt' = EmptyDb
    /\ at' = Put(Put(at, "lcg", "db", "fresh"), "lcg", "dbwal", "fresh")
    /\ work' = [g \in Groups |-> Lines(g)]
    /\ done' = NoPositions /\ healed' = FALSE /\ overtaken' = ReplaysPast
    /\ UNCHANGED <<dirs, outcome, envVars, faults, backup, stream, live, degraded,
                   probes, writes, crashes, cutShort>>

RollBack(d) ==
    /\ RecoverAllowed
    /\ \E k \in KeyedOrFailed(d) : disk' = k /\ ckpt' = k
    /\ at' = Put(Put(at, "lcg", "db", "ours"), "lcg", "dbwal", "fresh")
    /\ healed' = FALSE
    /\ Settle(None)
    /\ UNCHANGED <<dirs, outcome, envVars, faults, backup, stream, overtaken, probes,
                   writes, crashes, cutShort>>

recover_drop_lbug_wal == at["lcg"]["db"] # Absent /\ RollBack(ckpt)
recover_restore_from_backup == backup # None /\ RollBack(backup)

-----------------------------------------------------------------------------
(* Around it: a write of another group (module GraphService has the whole  *)
(* handler), the engine's checkpoint, the first writer of the default      *)
(* group minting its generation, and a crash that may tear the engine log. *)

Write(g) ==
    /\ boot = "ready" /\ caller = None /\ live /\ writes < MaxWrites
    /\ LET s == IF stream[g] = {} THEN 0 ELSE Max(stream[g]) + 1 IN
       /\ stream' = [stream EXCEPT ![g] = @ \cup {s}]
       /\ disk' = [disk EXCEPT !.rows[g] = @ \cup {s}, !.posn[g] = s]
    /\ overtaken' = IF stream[g] \subseteq disk.rows[g]
                    THEN overtaken ELSE overtaken \cup {g}
    /\ writes' = writes + 1
    /\ UNCHANGED <<workspaceVars, ckpt, backup, stateVars, runVars, healed,
                   probes, crashes, cutShort>>

Checkpoint ==
    /\ boot = "ready" /\ caller = None /\ live /\ ckpt # disk
    /\ ckpt' = disk
    /\ UNCHANGED <<workspaceVars, disk, backup, stream, stateVars, runVars,
                   histVars, probes, writes, crashes, cutShort>>

WriterOpens ==
    /\ boot = "ready" /\ caller = None /\ live
    /\ at' = Ensured /\ at' # at
    /\ dirs' = dirs \cup {"wal_root", "group"}
    /\ UNCHANGED <<boot, outcome, envVars, faults, recoveryVars>>

(* A crash with anything in the engine's log may tear it.                  *)
Crash ==
    /\ boot \notin {"down", "exited"}
    /\ crashes < MaxCrashes /\ crashes' = crashes + 1
    /\ boot' = "down"
    /\ \/ UNCHANGED at
       \/ /\ at["lcg"]["dbwal"] # Absent /\ ckpt # disk
          /\ at' = Put(at, "lcg", "dbwal", "torn")
    /\ live' = FALSE /\ indices' = FALSE /\ degraded' = None
    /\ caller' = None /\ work' = [g \in Groups |-> {}] /\ done' = NoPositions
    /\ cutShort' = (cutShort \/ boot = "replay")
    /\ UNCHANGED <<dirs, outcome, envVars, faults, disk, ckpt, backup, stream,
                   histVars, probes, writes>>

Restart ==
    /\ boot = "exited"
    /\ crashes < MaxCrashes /\ crashes' = crashes + 1
    /\ boot' = "down"
    /\ UNCHANGED <<fileVars, outcome, envVars, faults, dbVars, stateVars, runVars,
                   histVars, probes, writes, cutShort>>

-----------------------------------------------------------------------------
(* A workspace with data: the checkpoint may lag behind, the position may  *)
(* be known, under its pre-378 name, or unknown.                           *)

DefaultLines == UNION {LinesIn[f] : f \in WalFiles}

DataDb(n, p, sg, ks) ==
    [rows |-> [g \in Groups |-> IF g = DefaultGroup
                                THEN {s \in DefaultLines : s < n} ELSE {}],
     posn |-> [NoPositions EXCEPT ![DefaultGroup] = p],
     singleton |-> sg, nullKeys |-> {}, keyState |-> ks]

Full == Cardinality(DefaultLines)

(* A .graphiti workspace predates positions, lookup keys and backups.      *)
InitDbs == IF "legacy" \in dirs THEN {DataDb(Full, None, None, None)}
           ELSE {DataDb(Full, Full - 1, None, "complete"),
                 DataDb(Full, None, Full - 1, "complete")}

Init ==
    /\ WorkspaceInit
    /\ IF at = Nothing
       THEN disk = None /\ ckpt = None /\ backup = None
       ELSE /\ disk \in InitDbs
            /\ ckpt \in {disk, [DataDb(1, None, None, disk.keyState)
                                  EXCEPT !.posn[DefaultGroup] =
                                         IF disk.posn[DefaultGroup] = None
                                         THEN None ELSE 0]}
            /\ backup = IF "legacy" \in dirs THEN None
                        ELSE DataDb(1, 0, None, "complete")
    /\ stream = [g \in Groups |-> {}]
    /\ live = FALSE /\ degraded = None /\ indices = FALSE
    /\ probes = 0 /\ caller = None
    /\ work = [g \in Groups |-> {}] /\ done = NoPositions
    /\ healed = FALSE /\ overtaken = {}
    /\ cutShort = FALSE /\ writes = 0 /\ crashes = 0

BootStep ==
    \/ WorkspaceStep /\ UNCHANGED recoveryVars
    \/ Start \/ ProbeEmbedder \/ OpenDb \/ OpenDbFails \/ BackfillPosition
    \/ CheckpointDrop \/ FullRebuild \/ ReplayLine \/ ReplayGroupDone
    \/ PostReplay \/ PersistPositions \/ RecoveryFails

Next ==
    \/ BootStep
    \/ handle_knowledge_recover_full \/ recover_rebuild_from_workspace_wal
    \/ recover_drop_lbug_wal \/ recover_restore_from_backup
    \/ \E g \in Groups \ {DefaultGroup} : Write(g)
    \/ Checkpoint \/ WriterOpens \/ Crash \/ Restart

Spec == Init /\ [][Next]_vars

(* The start is one sequential task: it does not stop between two steps,   *)
(* and a probe that keeps failing runs into the retry deadline.            *)
FairSpec == Spec /\ WF_vars(BootStep)

-----------------------------------------------------------------------------
TypeOK ==
    /\ at \in [Places -> [Entries -> Contents]]
    /\ live \in BOOLEAN /\ indices \in BOOLEAN
    /\ degraded \in {None, "migration_failed", "embedder_unreachable", "lbug_wal_corrupt"}
    /\ caller \in {None, "boot", "full", "rebuild_from_workspace_wal"}
    /\ \A g \in Groups : work[g] \subseteq Seqs /\ done[g] \in Seqs \cup {None}
    /\ \A d \in {disk, ckpt, backup} \ {None} :
         \A g \in Groups : d.rows[g] \subseteq Seqs /\ d.posn[g] \in Seqs \cup {None}

(* No file the workspace came with is ever gone from every place it could  *)
(* be in, whatever call fails and wherever the process dies in the         *)
(* migrations (the database and its log, which a rebuild removes, apart).  *)
NothingLost ==
    \A e \in origin.entries \ {"db", "dbwal", "gen"} :
      \E p \in Places : at[p][e] = "ours"

(* Data left behind in .graphiti (a failed move, a WAL collision, a        *)
(* database stranded beside a fresh one) makes migrate_workspace fail at   *)
(* this start and at every later one. It leaves .graphiti unreported in    *)
(* one way only: LCG_MIGRATION_KEEP_BACKUP is set, and the rename to       *)
(* .graphiti.bak takes the leftovers along under the outcome "migrated".   *)
LeftoverReportedOrKept ==
    /\ boot \in {"walroot", "open", "position", "ready"} /\ Held("legacy") # {} =>
         outcome = "failed"
    /\ Held("bak") # {} => keepBackup

(* Files moved out of the flat WAL root end in a stream that carries the   *)
(* generation they came with, never a freshly minted one.                  *)
StreamKeepsGeneration ==
    origin.gen # Absent /\ (\E f \in WalFiles : at["root"][f] = Absent) =>
      at["group"]["gen"] = origin.gen

Honest(g) ==
    disk # None /\ disk.posn[g] # None /\ disk.posn[g] > 0 =>
      \A s \in Lines(g) : s <= disk.posn[g] => s \in disk.rows[g]

(* A persisted position never leads the graph: every line of the stream up *)
(* to it is applied, through crashes, rollbacks, replays and backfills, as *)
(* long as no write or replay goes past lines that are missing.            *)
PositionHonest == \A g \in Groups \ overtaken : Honest(g)

(* After a self-recovery the default group is complete: the cursor never   *)
(* skips a line the dropped engine log held, unless a relocation that      *)
(* failed half way hid files from an earlier replay.                       *)
SelfHealComplete ==
    (/\ boot = "ready" /\ live /\ healed /\ caller = None
     /\ DefaultGroup \notin overtaken) =>
      Lines(DefaultGroup) \subseteq disk.rows[DefaultGroup]

(* Under a lookup_key backfill recorded as complete, which later opens     *)
(* trust, the database that is served has an entity without its key only   *)
(* after a replay that failed, or whose process died, before its backfill: *)
(* no other crash, fault, rollback or rebuild leads there.                 *)
KeysTrusted ==
    (boot = "ready" /\ live /\ disk.keyState = "complete" /\ ~cutShort)
      => disk.nullKeys = {}

(* A migration loses no file and leaves none behind unreported, but in a   *)
(* backup that was asked for; a backfill recorded as complete is complete, *)
(* but after a replay that was cut short.                                  *)
MigrationSafe == TypeOK /\ NothingLost /\ LeftoverReportedOrKept /\ KeysTrusted

(* Every start settles: the service is up, or it has exited.               *)
BootSettles == boot = "migrate" ~> boot \in {"ready", "exited", "down"}

=============================================================================
