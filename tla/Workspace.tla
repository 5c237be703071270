----------------------------- MODULE Workspace -----------------------------
(***************************************************************************)
(* The files of a workspace and the two migrations a start runs over them  *)
(* before the database is opened:                                          *)
(*   - migrate_workspace: .graphiti (legacy) to .lcg, and the repair of a  *)
(*     .lcg whose db is still a flat file;                                 *)
(*   - migrate_wal_root_if_needed: a flat WAL root into <root>/liminis,    *)
(*     with the generation record adopted or minted first.                 *)
(* Every action is one system call that changes the file tree, so a crash  *)
(* (in the composing module) may fall between any two of them.             *)
(***************************************************************************)
EXTENDS Naturals, FiniteSets

CONSTANTS
    WalFiles,    \* WAL files of the default stream
    Absent,      \* no such file
    MaxFaults    \* bound: system calls that fail, over the whole behaviour

(* Single files; "gen" is .wal-generation.json.                            *)
Items == {"db", "dbwal", "ontology", "hash", "other"}
Entries == Items \cup WalFiles \cup {"gen"}

(* legacy: .graphiti; flat: .lcg with db as a file; tmp: _db_migrate_tmp;  *)
(* lcg: its place in .lcg; bak: .graphiti.bak; root: the WAL root itself;  *)
(* group: <root>/liminis.                                                  *)
Places == {"legacy", "flat", "tmp", "lcg", "bak", "root", "group"}
Contents == {"ours", "theirs", "torn", "fresh", "minted", Absent}

ASSUME WorkspaceAssumption ==
    /\ IsFiniteSet(WalFiles) /\ WalFiles \cap (Items \cup {"gen"}) = {}
    /\ Absent \notin {"ours", "theirs", "torn", "fresh", "minted"}
    /\ MaxFaults \in Nat

VARIABLES
    at,           \* at[p][e]: what is stored for entry e in place p
    dirs,         \* the directories that exist
    boot,         \* where the start is
    outcome,      \* what migrate_workspace returned
    keepBackup,   \* LCG_MIGRATION_KEEP_BACKUP
    crossDevice,  \* rename between .graphiti and the WAL root fails with EXDEV
    faults,       \* system calls that failed so far
    origin        \* history: the entries the workspace came with, and its loose generation

fileVars == <<at, dirs>>
envVars == <<keepBackup, crossDevice, origin>>
workspaceVars == <<fileVars, boot, outcome, envVars, faults>>

Held(p) == {e \in Entries : at[p][e] # Absent}
Put(a, p, e, c) == [a EXCEPT ![p][e] = c]
Move(a, from, to, e) == Put(Put(a, to, e, a[from][e]), from, e, Absent)

(* The engine's log beside the database in its final place does not open.  *)
TornLog == at["lcg"]["dbwal"] = "torn"

Fail(next) ==
    /\ faults < MaxFaults
    /\ faults' = faults + 1
    /\ boot' = next
    /\ UNCHANGED <<fileVars, envVars>>

FailMigration == Fail("parent") /\ outcome' = "failed"

-----------------------------------------------------------------------------
(* migrate_workspace.                                                      *)

Decide(next, result) ==
    /\ boot' = next /\ outcome' = result
    /\ UNCHANGED <<fileVars, envVars, faults>>

(* Mutant: a workspace with its database in place counts as migrated.      *)
migrate_unless_marked ==
    /\ boot = "migrate"
    /\ IF at["lcg"]["db"] # Absent THEN Decide("parent", "already")
       ELSE IF at["flat"]["db"] # Absent THEN Decide("fix_rename", Absent)
       ELSE IF "legacy" \in dirs THEN Decide("mkdir", Absent)
       ELSE Decide("parent", "nothing")

(* The four cases of (.graphiti exists, .lcg exists). The partial-migration *)
(* marker is the database in its final place. A schism is fatal.           *)
migrate_workspace ==
    /\ boot = "migrate"
    /\ \/ /\ {"legacy", "lcg"} \cap dirs = {}
          /\ Decide("parent", "nothing")
       \/ /\ "legacy" \notin dirs /\ "lcg" \in dirs
          /\ IF at["flat"]["db"] # Absent
             THEN Decide("fix_rename", Absent)
             ELSE Decide("parent", "already")
       \/ /\ {"legacy", "lcg"} \subseteq dirs
          /\ IF at["lcg"]["db"] = Absent
             THEN Decide("exited", "schism")
             ELSE Decide("mkdir", Absent)
       \/ /\ "legacy" \in dirs /\ "lcg" \notin dirs
          /\ Decide("mkdir", Absent)

CreateDbDir ==
    /\ boot = "mkdir"
    /\ dirs' = dirs \cup {"lcg", "lcg_db"}
    /\ boot' = "move_db"
    /\ UNCHANGED <<at, outcome, envVars, faults>>

(* The moves in the order of the code, each one skipped when the source is *)
(* gone or the destination is taken.                                       *)
NextMove == [move_db |-> "move_dbwal", move_dbwal |-> "wal",
             move_ontology |-> "move_hash", move_hash |-> "move_other"]
Moved == [move_db |-> "db", move_dbwal |-> "dbwal",
          move_ontology |-> "ontology", move_hash |-> "hash"]

MoveItem ==
    /\ boot \in DOMAIN Moved
    /\ LET e == Moved[boot] IN
       at' = IF at["legacy"][e] # Absent /\ at["lcg"][e] = Absent
             THEN Move(at, "legacy", "lcg", e) ELSE at
    /\ boot' = NextMove[boot]
    /\ UNCHANGED <<dirs, outcome, envVars, faults>>

MoveItemFails ==
    /\ boot \in DOMAIN Moved
    /\ at["legacy"][Moved[boot]] # Absent /\ at["lcg"][Moved[boot]] = Absent
    /\ FailMigration

(* Unrecognised entries go to .lcg/_unrecognized, over whatever is there.  *)
MoveUnrecognized ==
    /\ boot = "move_other"
    /\ at' = IF at["legacy"]["other"] # Absent
             THEN Move(at, "legacy", "lcg", "other") ELSE at
    /\ boot' = "validate"
    /\ UNCHANGED <<dirs, outcome, envVars, faults>>

(* The legacy WAL directory: moved whole when there is no WAL root yet     *)
(* (copied file by file across devices), else merged entry by entry.       *)
MoveWalDir ==
    /\ boot = "wal"
    /\ \/ /\ "legacy_wal" \notin dirs
          /\ boot' = "move_ontology" /\ UNCHANGED fileVars
       \/ /\ "legacy_wal" \in dirs /\ "wal_root" \notin dirs /\ ~crossDevice
          /\ at' = [at EXCEPT !["root"] = [e \in Entries |->
                        IF e \in WalFiles THEN at["legacy"][e] ELSE @[e]],
                    !["legacy"] = [e \in Entries |->
                        IF e \in WalFiles THEN Absent ELSE @[e]]]
          /\ dirs' = (dirs \ {"legacy_wal"}) \cup {"wal_root"}
          /\ boot' = "move_ontology"
       \/ /\ "legacy_wal" \in dirs /\ "wal_root" \notin dirs /\ crossDevice
          /\ dirs' = dirs \cup {"wal_root"}
          /\ boot' = "wal_copy" /\ UNCHANGED at
       \/ /\ {"legacy_wal", "wal_root"} \subseteq dirs
          /\ boot' = "wal_merge" /\ UNCHANGED fileVars
    /\ UNCHANGED <<outcome, envVars, faults>>

(* fs::copy of one file is visible half written: it is torn first.         *)
copy_and_remove_cross_device ==
    /\ boot = "wal_copy"
    /\ \/ \E f \in WalFiles :
            /\ at["legacy"][f] # Absent /\ at["root"][f] # at["legacy"][f]
            /\ \A g \in WalFiles \ {f} : at["root"][g] # "torn"
            /\ at' = Put(at, "root", f,
                         IF at["root"][f] = "torn" THEN at["legacy"][f] ELSE "torn")
            /\ UNCHANGED <<boot, dirs>>
       \/ /\ \A f \in WalFiles : at["root"][f] = at["legacy"][f]
          /\ at' = [at EXCEPT !["legacy"] =
                       [e \in Entries |-> IF e \in WalFiles THEN Absent ELSE @[e]]]
          /\ dirs' = dirs \ {"legacy_wal"}
          /\ boot' = "move_ontology"
    /\ UNCHANGED <<outcome, envVars, faults>>

Mergeable(f) ==
    at["legacy"][f] # Absent /\ at["root"][f] \in {Absent, at["legacy"][f]}

(* A file of the same contents at the destination is removed at the source,*)
(* a different one is a collision and stays. Across devices a file is      *)
(* copied first, and removed at the source in a second step.               *)
merge_wal_dir_into_root ==
    /\ boot = "wal_merge"
    /\ \/ \E f \in WalFiles :
            /\ Mergeable(f)
            /\ at' = IF crossDevice /\ at["root"][f] = Absent
                     THEN Put(at, "root", f, at["legacy"][f])
                     ELSE Move(at, "legacy", "root", f)
            /\ UNCHANGED <<boot, dirs>>
       \/ /\ \A f \in WalFiles : ~Mergeable(f)
          /\ dirs' = IF Held("legacy") \cap WalFiles = {}
                     THEN dirs \ {"legacy_wal"} ELSE dirs
          /\ boot' = "move_ontology" /\ UNCHANGED at
    /\ UNCHANGED <<outcome, envVars, faults>>

MoveWalFails ==
    /\ boot \in {"wal", "wal_copy", "wal_merge"} /\ "legacy_wal" \in dirs
    /\ FailMigration

(* A copy of the merge that fails, or dies, half way: the torn file at the *)
(* destination is a collision to every later start.                        *)
MergeCopyTorn ==
    /\ boot = "wal_merge" /\ crossDevice
    /\ \E f \in WalFiles :
         /\ at["legacy"][f] # Absent /\ at["root"][f] = Absent
         /\ at' = Put(at, "root", f, "torn")
    /\ faults < MaxFaults /\ faults' = faults + 1
    /\ boot' = "parent" /\ outcome' = "failed"
    /\ UNCHANGED <<dirs, envVars>>

(* Db::open on the moved database; a torn engine log fails it.             *)
ValidateDb ==
    /\ boot = "validate" /\ ~TornLog
    /\ boot' = "retire"
    /\ UNCHANGED <<fileVars, outcome, envVars, faults>>

ValidateDbFails ==
    /\ boot \in {"validate", "fix_validate"} /\ at["lcg"]["db"] # Absent
    /\ \/ FailMigration
       \/ TornLog /\ Decide("parent", "failed")

(* Mutant: remove_dir_all.                                                 *)
RemoveLegacyTree ==
    /\ boot = "retire"
    /\ at' = [at EXCEPT !["legacy"] = [e \in Entries |-> Absent]]
    /\ dirs' = dirs \ {"legacy", "legacy_wal"}
    /\ outcome' = "migrated" /\ boot' = "parent"
    /\ UNCHANGED <<envVars, faults>>

(* .graphiti is renamed aside, or removed when nothing is left in it.      *)
RetireLegacy ==
    /\ boot = "retire"
    /\ \/ /\ keepBackup
          /\ at' = [at EXCEPT !["bak"] = at["legacy"],
                              !["legacy"] = [e \in Entries |-> Absent]]
          /\ dirs' = dirs \ {"legacy", "legacy_wal"}
          /\ outcome' = "migrated"
       \/ /\ ~keepBackup /\ Held("legacy") = {} /\ "legacy_wal" \notin dirs
          /\ dirs' = dirs \ {"legacy"}
          /\ outcome' = "migrated" /\ UNCHANGED at
       \/ /\ ~keepBackup /\ (Held("legacy") # {} \/ "legacy_wal" \in dirs)
          /\ outcome' = "failed" /\ UNCHANGED fileVars
    /\ boot' = "parent"
    /\ UNCHANGED <<envVars, faults>>

-----------------------------------------------------------------------------
(* fix_broken_lcg_layout: .lcg/db is a file where a directory is expected. *)

fix_broken_lcg_layout ==
    /\ \/ /\ boot = "fix_rename"
          /\ at' = Move(at, "flat", "tmp", "db")
          /\ boot' = "fix_mkdir" /\ UNCHANGED <<dirs, outcome>>
       \/ /\ boot = "fix_mkdir"
          /\ dirs' = dirs \cup {"lcg_db"}
          /\ boot' = "fix_place" /\ UNCHANGED <<at, outcome>>
       \/ /\ boot = "fix_place"
          /\ at' = Move(at, "tmp", "lcg", "db")
          /\ boot' = "fix_dbwal" /\ UNCHANGED <<dirs, outcome>>
       \/ /\ boot = "fix_dbwal"
          /\ at' = IF at["flat"]["dbwal"] # Absent /\ at["lcg"]["dbwal"] = Absent
                   THEN Move(at, "flat", "lcg", "dbwal") ELSE at
          /\ boot' = "fix_validate" /\ UNCHANGED <<dirs, outcome>>
       \/ /\ boot = "fix_validate" /\ ~TornLog
          /\ outcome' = "migrated"
          /\ boot' = "parent" /\ UNCHANGED <<at, dirs>>
    /\ UNCHANGED <<envVars, faults>>

FixLayoutFails ==
    /\ boot \in {"fix_rename", "fix_mkdir", "fix_place"}
    /\ FailMigration

(* create_dir_all of the database's parent: fatal over a flat .lcg/db.     *)
CreateDbParent ==
    /\ boot = "parent"
    /\ IF at["flat"]["db"] # Absent
       THEN boot' = "exited" /\ UNCHANGED dirs
       ELSE boot' = "probe" /\ dirs' = dirs \cup {"lcg", "lcg_db"}
    /\ UNCHANGED <<at, outcome, envVars, faults>>

-----------------------------------------------------------------------------
(* migrate_wal_root_if_needed; a failure is not fatal to the start.        *)

LooseWal == Held("root")

(* Mutant: the generation is minted before a loose one is adopted.         *)
mint_before_adopting ==
    /\ boot = "walroot"
    /\ boot' = IF "wal_root" \notin dirs \/ LooseWal = {} THEN "open" ELSE "ensure"
    /\ UNCHANGED <<at, dirs, outcome, envVars, faults>>

migrate_wal_root_if_needed ==
    /\ boot = "walroot"
    /\ boot' = CASE "wal_root" \notin dirs \/ LooseWal = {} -> "open"
                 [] OTHER -> IF at["root"]["gen"] # Absent
                             THEN "adopt" ELSE "ensure"
    /\ dirs' = IF boot' = "open" THEN dirs ELSE dirs \cup {"group"}
    /\ UNCHANGED <<at, outcome, envVars, faults>>

(* hard_link then remove_file; two different records are a conflict, and   *)
(* nothing is relocated.                                                   *)
AdoptGeneration ==
    /\ \/ /\ boot = "adopt" /\ at["group"]["gen"] = Absent
          /\ at' = Put(at, "group", "gen", at["root"]["gen"])
          /\ boot' = "unlink"
       \/ /\ boot = "adopt" /\ at["group"]["gen"] = at["root"]["gen"]
          /\ boot' = "unlink" /\ UNCHANGED at
       \/ /\ boot = "adopt" /\ at["group"]["gen"] \notin {Absent, at["root"]["gen"]}
          /\ boot' = "open" /\ UNCHANGED at
       \/ /\ boot = "unlink"
          /\ at' = Put(at, "root", "gen", Absent)
          /\ boot' = "ensure"
    /\ UNCHANGED <<dirs, outcome, envVars, faults>>

(* ensure_generation: an existing record is kept, an unreadable one is     *)
(* removed and minted again.                                               *)
Ensured == IF at["group"]["gen"] \in {Absent, "torn"}
           THEN Put(at, "group", "gen", "minted") ELSE at

ensure_generation ==
    /\ boot = "ensure"
    /\ at' = Ensured
    /\ boot' = "relocate"
    /\ UNCHANGED <<dirs, outcome, envVars, faults>>

RelocateLoose ==
    /\ boot = "relocate"
    /\ \/ \E f \in WalFiles :
            /\ at["root"][f] # Absent /\ at["group"][f] = Absent
            /\ at' = Move(at, "root", "group", f)
            /\ UNCHANGED boot
       \/ /\ \A f \in WalFiles : at["root"][f] # Absent => at["group"][f] # Absent
          /\ boot' = "open" /\ UNCHANGED at
    /\ UNCHANGED <<dirs, outcome, envVars, faults>>

WalRootFails ==
    /\ boot \in {"adopt", "unlink", "ensure", "relocate"}
    /\ Fail("open") /\ UNCHANGED outcome

-----------------------------------------------------------------------------
(* The workspaces a start can find.                                        *)

Nothing == [p \in Places |-> [e \in Entries |-> Absent]]
Ours(a, p, es) == [a EXCEPT ![p] = [e \in Entries |-> IF e \in es THEN "ours" ELSE @[e]]]

(* A legacy workspace, beside a WAL root that may already hold a file of   *)
(* the same name; a .lcg with a flat db; a .lcg with a flat WAL root, with *)
(* or without a loose generation record or the wreckage of one.            *)
Layouts ==
    { [at |-> Ours(Nothing, "legacy", Items \cup WalFiles),
       dirs |-> {"legacy", "legacy_wal"}] } \cup
    { [at |-> Put(Ours(Nothing, "legacy", Items \cup WalFiles), "root", f, c),
       dirs |-> {"legacy", "legacy_wal", "wal_root"}]
        : f \in {CHOOSE w \in WalFiles : TRUE}, c \in {"ours", "theirs"} } \cup
    { [at |-> Ours(Ours(Nothing, "flat", {"db", "dbwal"}), "group", WalFiles),
       dirs |-> {"lcg", "wal_root"}] } \cup
    { [at |-> Put(Put(Ours(Ours(Nothing, "lcg", {"db", "dbwal"}), "root", WalFiles),
                      "root", "gen", r), "group", "gen", g),
       dirs |-> {"lcg", "lcg_db", "wal_root"}]
        : r \in {Absent, "ours"}, g \in {Absent, "torn"} } \cup
    { [at |-> Nothing, dirs |-> {}] }

(* The engine's log is whole or torn.                                      *)
WithLog(a, c) == [p \in Places |-> [e \in Entries |->
                    IF e = "dbwal" /\ a[p][e] = "ours" THEN c ELSE a[p][e]]]

(* The WAL root may be another volume than .graphiti. A root that already  *)
(* has a file of the legacy stream is the trace of a copy across devices   *)
(* that died before it removed the source; one that has another's file is  *)
(* taken on the same device (bound).                                       *)
CrossDevices ==
    CASE "legacy" \notin dirs -> {FALSE}
      [] {"legacy", "wal_root"} \subseteq dirs -> {\E f \in WalFiles : at["root"][f] = "ours"}
      [] OTHER -> BOOLEAN

WorkspaceInit ==
    /\ \E l \in Layouts, c \in {"ours", "torn"} :
         /\ at = WithLog(l.at, c) /\ dirs = l.dirs
         /\ origin = [entries |-> {e \in Entries : \E p \in Places : l.at[p][e] = "ours"},
                      gen |-> l.at["root"]["gen"]]
    /\ keepBackup \in (IF "legacy" \in dirs THEN BOOLEAN ELSE {FALSE})
    /\ crossDevice \in CrossDevices
    /\ boot = "down" /\ outcome = Absent /\ faults = 0

WorkspaceStep ==
    \/ migrate_workspace \/ CreateDbDir \/ MoveItem \/ MoveItemFails
    \/ MoveUnrecognized \/ MoveWalDir \/ copy_and_remove_cross_device
    \/ merge_wal_dir_into_root \/ MoveWalFails \/ MergeCopyTorn \/ ValidateDb \/ ValidateDbFails
    \/ RetireLegacy \/ fix_broken_lcg_layout \/ FixLayoutFails \/ CreateDbParent
    \/ migrate_wal_root_if_needed \/ AdoptGeneration \/ ensure_generation
    \/ RelocateLoose \/ WalRootFails

=============================================================================
