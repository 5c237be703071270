--------------------------- MODULE RecoveryProofs ---------------------------
(***************************************************************************)
(* For every set of groups, WAL files and lines, and every number of       *)
(* faults, crashes and writes: the migrations lose nothing and report      *)
(* leftovers, a stream keeps its generation, a recorded position never     *)
(* leads the graph, and a self-recovery leaves no line of the default      *)
(* group out.                                                              *)
(*                                                                         *)
(* Two arguments, on top of one another. Tree is about the files: what a   *)
(* place holds at each step of the two migrations, and what a start that   *)
(* went on has reported. Data is about the databases (on disk, in the      *)
(* engine's checkpoint, in the backup): the lines a database has applied   *)
(* are a prefix of its stream, and a replay under way still has ahead of   *)
(* it every line its database lacks. So a position taken from any applied  *)
(* line is honest, and a cursor taken from any surviving episode is early  *)
(* enough.                                                                 *)
(***************************************************************************)
EXTENDS Recovery, FiniteSetTheorems, TLAPS

USE WorkspaceAssumption, RecoveryAssumption

Moving == {"mkdir", "move_db", "move_dbwal", "wal", "wal_copy", "wal_merge", "move_ontology",
           "move_hash", "move_other", "validate", "retire"}
Fixing == {"fix_rename", "fix_mkdir", "fix_place", "fix_dbwal", "fix_validate"}
Relocating == {"unlink", "ensure", "relocate"}
Replaying == {"drop", "replay", "persist"}
Decided == {"parent", "probe", "walroot", "adopt", "open", "position", "ready"} \cup Relocating \cup Replaying
Steps == {"down", "migrate", "exited"} \cup Moving \cup Fixing \cup Decided

-----------------------------------------------------------------------------
(* The files.                                                              *)

Legacy == "legacy" \in dirs

\* What each place may hold.
Stored ==
    /\ at \in [Places -> [Entries -> Contents]] /\ origin.entries \subseteq Entries
    /\ \A e \in Entries : ~Legacy => at["legacy"][e] = Absent
    /\ \A e \in Entries : Legacy \/ ~keepBackup => at["bak"][e] = Absent
    /\ \A e \in Entries \ {"dbwal"} : at["legacy"][e] \in {"ours", Absent}
    /\ \A f \in WalFiles : "wal_root" \notin dirs => at["root"][f] = Absent
    /\ \A f \in WalFiles, p \in Places : at[p][f] = "ours" => f \in origin.entries

\* Where a start is, and what it has reported.
Reported ==
    /\ boot \in Steps /\ faults \in Nat
    /\ boot \in Moving => Legacy
    /\ boot \in Fixing => ~Legacy
    /\ boot \in Decided /\ Legacy => outcome = "failed"
    /\ boot \in {"wal_copy", "wal_merge"} => "wal_root" \in dirs

\* A stream that came with a generation is moved only once its group has it.
Adopted ==
    /\ origin.gen \in {Absent, "ours"}
    /\ origin.gen # Absent =>
         /\ ~Legacy
         /\ \/ at["group"]["gen"] = "ours"
            \/ /\ at["root"]["gen"] = "ours" /\ boot \notin Relocating
               /\ \A f \in WalFiles : at["root"][f] # Absent

Tree == Stored /\ Reported /\ Adopted /\ NothingLost

-----------------------------------------------------------------------------
(* The databases.                                                          *)

Dbs == [rows : [Groups -> SUBSET Seqs], posn : [Groups -> Seqs \cup {None}],
        singleton : Seqs \cup {None}, nullKeys : SUBSET (Groups \X Seqs),
        keyState : {None, "complete", "failed"}]

\* The lines of every stream, wherever their files are.
Written == [g \in Groups |-> IF g = DefaultGroup
                             THEN UNION {LinesIn[f] : f \in origin.entries \cap WalFiles}
                             ELSE stream[g]]

HonestAt(d, log, g, p) == p # None /\ p > 0 => \A s \in log[g] : s <= p => s \in d.rows[g]
Prefix(d, log, g) == \A e \in d.rows[g], s \in log[g] : s < e => s \in d.rows[g]

\* A database the service may open, beside a log, but for the groups in past.
Sound(d, log, past) ==
    /\ d \in Dbs
    /\ \A g \in Groups : d.rows[g] \subseteq log[g]
    /\ \A g \in Groups \ past : Prefix(d, log, g) /\ HonestAt(d, log, g, d.posn[g])
    /\ \A g \in Groups \ {DefaultGroup} : d.posn[g] # None => d.posn[g] \in d.rows[g]
    /\ DefaultGroup \notin past => HonestAt(d, log, DefaultGroup, d.singleton)

\* Its record of the lookup keys.
Trusted(d) == d.keyState = "complete" => d.nullKeys = {}
Calm == ~cutShort

\* A workspace that had nothing in it, before its database is created.
Blank ==
    /\ disk = None /\ ckpt = None /\ ~Legacy /\ ~live
    /\ at["flat"]["db"] = Absent /\ at["lcg"]["db"] = Absent /\ at["lcg"]["dbwal"] = Absent
    /\ boot \notin Moving \cup Fixing \cup Replaying \cup {"position"}
    /\ boot \in Decided => outcome # "failed"
    /\ boot = "ready" => degraded = "embedder_unreachable"

Filled ==
    /\ Sound(disk, Written, overtaken) /\ (Calm /\ boot # "replay" => Trusted(disk))
    /\ Sound(ckpt, Written, overtaken) /\ (Calm => Trusted(ckpt))

Saved == backup = None \/ (Sound(backup, Written, overtaken) /\ (Calm => Trusted(backup)))

\* The lines of g that database d lacks are ahead of the replay.
Ahead(d, log, todo, g) == \A s \in log[g] : s \in d.rows[g] \/ s \in todo[g]
Complete(d, log) == log[DefaultGroup] \subseteq d.rows[DefaultGroup]

Replayed ==
    /\ work \in [Groups -> SUBSET Seqs] /\ done \in [Groups -> Seqs \cup {None}]
    /\ boot = "replay" =>
         /\ \A g \in Groups : work[g] \subseteq Written[g]
         /\ \A g \in Groups \ overtaken : (g = DefaultGroup \/ work[g] # {}) => Ahead(disk, Written, work, g)
    /\ boot \in {"replay", "persist"} =>
         \A g \in Groups : done[g] # None => done[g] \in disk.rows[g]
    /\ boot = "persist" /\ DefaultGroup \notin overtaken => Complete(disk, Written)

Running ==
    /\ live \in BOOLEAN /\ indices \in BOOLEAN /\ healed \in BOOLEAN
    /\ degraded \in {None, "migration_failed", "embedder_unreachable", "lbug_wal_corrupt"}
    /\ caller \in {None, "boot", "full", "rebuild_from_workspace_wal"}
    /\ crashes \in Nat /\ writes \in Nat /\ writes <= MaxWrites
    /\ stream \in [Groups -> SUBSET Nat]
    /\ \A g \in Groups : \A s \in stream[g] : s < writes

Healed ==
    /\ boot \in Replaying => caller # None
    /\ boot \in Replaying /\ caller = "full" => ~live
    /\ boot \in Replaying /\ caller = "rebuild_from_workspace_wal" => ~healed
    /\ healed => boot \in {"down", "ready"} \cup Replaying
    /\ boot = "ready" /\ live /\ healed /\ DefaultGroup \notin overtaken => Complete(disk, Written)

Data == (Blank \/ Filled) /\ Saved /\ Replayed /\ Running /\ Healed

Inv == Tree /\ Data

-----------------------------------------------------------------------------
(* What the operations on one database keep.                               *)

\* A smallest line is one of the lines, when there is one.
LEMMA Smallest ==
  ASSUME NEW T \in SUBSET Nat, T # {}
  PROVE  Min(T) \in T /\ \A x \in T : Min(T) <= x
<1>1. \E m \in T : \A x \in T : ~(<<x, m>> \in OpToRel(<, Nat))
  BY NatLessThanWellFounded, WFMin
<1>2. PICK m \in T : \A x \in T : m <= x
  <2>1. PICK m \in T : \A x \in T : ~(<<x, m>> \in OpToRel(<, Nat))
    BY <1>1
  <2>2. ASSUME NEW x \in T PROVE m <= x
    <3>1. x \in Nat /\ m \in Nat
      OBVIOUS
    <3>2. ~(x < m)
      BY <2>1, <3>1 DEF OpToRel
    <3>3. QED
      BY <3>1, <3>2
  <2>3. QED
    BY <2>2
<1>3. QED
  BY <1>2 DEF Min

\* The log of every stream is made of seqs.
Logs == [Groups -> SUBSET Seqs]

\* Every stream is a set of seqs, also after the writes of this run.
LEMMA WrittenLogs ==
  ASSUME Running
  PROVE  Written \in Logs /\ MaxWrites \in Nat
<1>1. \A g \in Groups : stream[g] \subseteq Seqs
  BY DEF Running, Seqs
<1>2. \A f \in WalFiles : LinesIn[f] \subseteq Seqs
  OBVIOUS
<1>3. ASSUME NEW g \in Groups PROVE Written[g] \subseteq Seqs
  BY <1>1, <1>2 DEF Written
<1>4. QED
  BY <1>3 DEF Written, Logs

\* Replayed past more groups, a database has less to answer for.
LEMMA SoundPast ==
  ASSUME NEW d, NEW log, NEW past, NEW more, Sound(d, log, past), past \subseteq more
  PROVE  Sound(d, log, more)
  BY DEF Sound

\* The schema backfills change neither lines nor positions.
LEMMA SoundKeyed ==
  ASSUME NEW d, NEW log, NEW past, Sound(d, log, past), NEW k \in KeyedOrFailed(d)
  PROVE  Sound(k, log, past) /\ Trusted(k) /\ k.rows = d.rows
<1>1. /\ d \in Dbs /\ k \in Dbs
      /\ k.rows = d.rows /\ k.posn = d.posn /\ k.singleton = d.singleton
      /\ k.keyState = "complete" => k.nullKeys = {}
  <2>1. d \in Dbs
    BY DEF Sound
  <2>2. CASE k = [d EXCEPT !.nullKeys = {}, !.keyState = "complete"]
    BY <2>1, <2>2 DEF Dbs
  <2>3. CASE k = [d EXCEPT !.keyState = "failed"]
    BY <2>1, <2>3 DEF Dbs
  <2>4. QED
    BY <2>2, <2>3 DEF KeyedOrFailed, Keyed
<1>2. Trusted(k) /\ k.rows = d.rows
  BY <1>1 DEF Trusted
<1>3. Sound(k, log, past)
  BY <1>1 DEF Sound, Prefix, HonestAt
<1>4. QED
  BY <1>2, <1>3

\* Opening a database, with the backfill of ensure_lookup_key_backfill, keeps it sound.
LEMMA SoundSchema ==
  ASSUME NEW d, NEW log, NEW past, Sound(d, log, past), NEW k \in InitSchema(d)
  PROVE  Sound(k, log, past) /\ (Trusted(d) => Trusted(k)) /\ k.rows = d.rows
  BY SoundKeyed DEF InitSchema

\* A new database has nothing to answer for.
LEMMA SoundEmpty ==
  ASSUME NEW log, NEW past
  PROVE  Sound(EmptyDb, log, past) /\ Trusted(EmptyDb) /\ \A g \in Groups : EmptyDb.rows[g] = {}
<1>1. EmptyDb \in Dbs
  BY DEF EmptyDb, Dbs, NoPositions
<1>2. /\ \A g \in Groups : EmptyDb.rows[g] = {} /\ EmptyDb.posn[g] = None
      /\ EmptyDb.singleton = None /\ EmptyDb.nullKeys = {}
  BY DEF EmptyDb, NoPositions
<1>3. QED
  BY <1>1, <1>2 DEF Sound, Prefix, HonestAt, Trusted

\* A position becomes one that is honest.
LEMMA SoundAt ==
  ASSUME NEW d, NEW log, NEW past, Sound(d, log, past), NEW g \in Groups, NEW p \in Seqs \cup {None},
         g \notin past => HonestAt(d, log, g, p), g = DefaultGroup \/ (p # None => p \in d.rows[g])
  PROVE  LET k == [d EXCEPT !.posn[g] = p]
         IN  Sound(k, log, past) /\ (Trusted(d) <=> Trusted(k)) /\ k.rows = d.rows
<1> DEFINE k == [d EXCEPT !.posn[g] = p]
<1>1. /\ d \in Dbs /\ k \in Dbs
      /\ k.rows = d.rows /\ k.singleton = d.singleton /\ k.keyState = d.keyState /\ k.nullKeys = d.nullKeys
      /\ \A h \in Groups : k.posn[h] = IF h = g THEN p ELSE d.posn[h]
  BY DEF Sound, Dbs
<1> HIDE DEF k
<1>2. Sound(k, log, past) /\ (Trusted(d) <=> Trusted(k)) /\ k.rows = d.rows
  BY <1>1 DEF Sound, Prefix, HonestAt, Trusted
<1>3. QED
  BY <1>2 DEF k

\* The pre-378 position becomes that of the default group.
LEMMA SoundMigrated ==
  ASSUME NEW d, NEW log, NEW past, Sound(d, log, past)
  PROVE  Sound(MigrateSingleton(d), log, past) /\ (Trusted(d) <=> Trusted(MigrateSingleton(d)))
         /\ MigrateSingleton(d).rows = d.rows
<1> DEFINE k == MigrateSingleton(d)
<1>1. /\ d \in Dbs /\ k \in Dbs
      /\ k.rows = d.rows /\ k.keyState = d.keyState /\ k.nullKeys = d.nullKeys
      /\ k.singleton = None
      /\ \A h \in Groups : k.posn[h] = IF h = DefaultGroup /\ d.posn[h] = None THEN d.singleton ELSE d.posn[h]
  BY DEF Sound, Dbs, MigrateSingleton
<1> HIDE DEF k
<1>2. Sound(k, log, past) /\ (Trusted(d) <=> Trusted(k)) /\ k.rows = d.rows
  BY <1>1 DEF Sound, Prefix, HonestAt, Trusted
<1>3. QED
  BY <1>2 DEF k

\* A position taken from an applied line is honest.
LEMMA Taken ==
  ASSUME NEW d, NEW log \in Logs, NEW past, Sound(d, log, past), NEW g \in Groups \ past, NEW s \in d.rows[g]
  PROVE  HonestAt(d, log, g, s) /\ s \in Seqs
<1>1. s \in Seqs /\ log[g] \subseteq Seqs /\ Prefix(d, log, g)
  BY DEF Sound, Logs
<1>2. ASSUME NEW r \in log[g], r <= s PROVE r \in d.rows[g]
  <2>1. r \in Nat /\ s \in Nat
    BY <1>1 DEF Seqs
  <2>2. r = s \/ r < s
    BY <1>2, <2>1
  <2>3. QED
    BY <1>1, <2>2 DEF Prefix
<1>3. QED
  BY <1>1, <1>2 DEF HonestAt

\* s is a line of g, and the earlier ones are among the rows already.
NextFor(d, log, past, g, s) ==
    s \in log[g] /\ (g \notin past => \A r \in log[g] : r < s => r \in d.rows[g])

\* A line joins the rows, and all earlier ones are there already.
LEMMA SoundLine ==
  ASSUME NEW d, NEW log \in Logs, NEW past, Sound(d, log, past), NEW g \in Groups, NEW s, NextFor(d, log, past, g, s),
         NEW k, k = Apply(d, g, s)
  PROVE  /\ Sound(k, log, past)
         /\ \A h \in Groups : k.rows[h] = IF h = g THEN d.rows[h] \cup {s} ELSE d.rows[h]
<1> USE DEF NextFor
<1>1. s \in Seqs
  BY DEF Logs
<1>2. /\ d \in Dbs /\ k \in Dbs /\ k.posn = d.posn /\ k.singleton = d.singleton
      /\ \A h \in Groups : k.rows[h] = IF h = g THEN d.rows[h] \cup {s} ELSE d.rows[h]
  <2>1. d \in Dbs
    BY DEF Sound
  <2>2. PICK n : n = IF s \in KeylessLines THEN d.nullKeys \cup {<<g, s>>} ELSE d.nullKeys
    OBVIOUS
  <2>3. PICK r : r = [d.rows EXCEPT ![g] = @ \cup {s}]
    OBVIOUS
  <2>4. n \in SUBSET (Groups \X Seqs)
    BY <1>1, <2>1, <2>2 DEF Dbs
  <2>5. r \in [Groups -> SUBSET Seqs] /\ \A h \in Groups : r[h] = IF h = g THEN d.rows[h] \cup {s} ELSE d.rows[h]
    BY <1>1, <2>1, <2>3 DEF Dbs
  <2>6. k = [d EXCEPT !.rows = r, !.nullKeys = n]
    BY <2>1, <2>2, <2>3 DEF Apply, Dbs
  <2>7. QED
    BY <2>1, <2>4, <2>5, <2>6 DEF Dbs
<1>3. \A h \in Groups : k.rows[h] \subseteq log[h]
  BY <1>2 DEF Sound
<1>4. ASSUME NEW h \in Groups \ past PROVE Prefix(k, log, h) /\ HonestAt(k, log, h, k.posn[h])
  <2>a. Prefix(d, log, h) /\ HonestAt(d, log, h, d.posn[h])
    BY DEF Sound
  <2>b. d.rows[h] \subseteq k.rows[h] /\ k.posn[h] = d.posn[h]
    BY <1>2
  <2>h. HonestAt(k, log, h, k.posn[h])
    BY <2>a, <2>b DEF HonestAt
  <2>1. CASE h = g
    <3>1. k.rows[h] = d.rows[h] \cup {s} /\ \A r \in log[h] : r < s => r \in d.rows[h]
      BY <1>2, <2>1
    <3>2. \A e \in d.rows[h], r \in log[h] : r < e => r \in d.rows[h]
      BY <2>a DEF Prefix
    <3>3. \A e \in k.rows[h], r \in log[h] : r < e => r \in k.rows[h]
      BY <3>1, <3>2
    <3>4. QED
      BY <2>h, <3>3 DEF Prefix
  <2>2. CASE h # g
    <3>1. k.rows[h] = d.rows[h]
      BY <1>2, <2>2
    <3>2. QED
      BY <2>a, <2>h, <3>1 DEF Prefix
  <2>3. QED
    BY <2>1, <2>2
<1>5. DefaultGroup \notin past => HonestAt(k, log, DefaultGroup, k.singleton)
  BY <1>2 DEF Sound, HonestAt
<1>8. \A h \in Groups \ {DefaultGroup} : k.posn[h] # None => k.posn[h] \in k.rows[h]
  BY <1>2 DEF Sound
<1>6. Sound(k, log, past)
  BY <1>2, <1>8, <1>3, <1>4, <1>5 DEF Sound
<1>7. QED
  BY <1>2, <1>6

\* A stream that grows at its end leaves every database sound.
LEMMA SoundGrown ==
  ASSUME NEW d, NEW log \in Logs, NEW past, Sound(d, log, past), NEW g \in Groups, g # DefaultGroup, NEW s \in Seqs,
         \A r \in log[g] : r < s, NEW new, new = [log EXCEPT ![g] = @ \cup {s}]
  PROVE  Sound(d, new, past)
<1>1. \A h \in Groups : new[h] = IF h = g THEN log[h] \cup {s} ELSE log[h]
  BY DEF Logs
<1>2. d \in Dbs /\ \A h \in Groups : d.rows[h] \subseteq new[h]
  BY <1>1 DEF Sound
<1>3. ASSUME NEW h \in Groups \ past PROVE Prefix(d, new, h) /\ HonestAt(d, new, h, d.posn[h])
  <2>1. CASE h = g
    <3>1. \A e \in d.rows[h] : e \in Nat /\ e < s
      BY <2>1 DEF Sound, Logs, Seqs
    <3>2. s \in Nat
      BY DEF Seqs
    <3>3. Prefix(d, new, h)
      BY <1>1, <2>1, <3>1, <3>2 DEF Sound, Prefix
    <3>4. d.posn[h] # None => d.posn[h] \in Nat /\ d.posn[h] < s
      BY <2>1, <3>1 DEF Sound
    <3>5. HonestAt(d, new, h, d.posn[h])
      BY <1>1, <2>1, <3>2, <3>4 DEF Sound, HonestAt
    <3>6. QED
      BY <3>3, <3>5
  <2>2. CASE h # g
    BY <1>1, <2>2 DEF Sound, Prefix, HonestAt
  <2>3. QED
    BY <2>1, <2>2
<1>4. DefaultGroup \notin past => HonestAt(d, new, DefaultGroup, d.singleton)
  BY <1>1 DEF Sound, HonestAt
<1>5. QED
  BY <1>2, <1>3, <1>4 DEF Sound

\* What the backfill of a position may leave is honest.
LEMMA SoundBackfill ==
  ASSUME NEW d, NEW log \in Logs, NEW past, Sound(d, log, past), NEW g \in Groups,
         NEW p \in backfill_applied_seq_if_absent(d, g)
  PROVE  p \in Seqs \cup {None} /\ (g \notin past => HonestAt(d, log, g, p))
<1>1. d \in Dbs /\ d.posn[g] \in Seqs \cup {None} /\ d.rows[g] \subseteq Seqs /\ 0 \in Seqs
  BY DEF Sound, Dbs, Seqs
<1>2. CASE p = d.posn[g]
  BY <1>1, <1>2 DEF Sound
<1>3. CASE p = 0 \/ p = None
  BY <1>1, <1>3 DEF HonestAt
<1>4. CASE p \in d.rows[g]
  BY <1>1, <1>4, Taken
<1>5. p = d.posn[g] \/ p = 0 \/ p = None \/ p \in d.rows[g]
  BY DEF backfill_applied_seq_if_absent, Episodes
<1>6. QED
  BY <1>2, <1>3, <1>4, <1>5

\* The lines before the recovery's cursor survived.
LEMMA CursorEarly ==
  ASSUME NEW d, NEW log \in Logs, NEW past, Sound(d, log, past), NEW g \in Groups,
         Lines(g) \subseteq log[g], NEW c \in derive_episode_cursor(d, g)
  PROVE  Tail(c, g) \subseteq log[g]
         /\ (g \notin past /\ Lines(g) = log[g] => \A s \in log[g] : s \in d.rows[g] \/ s \in Tail(c, g))
<1>1. Tail(c, g) \subseteq log[g] /\ log[g] \subseteq Nat /\ d.rows[g] \subseteq Nat
  BY DEF Tail, Logs, Seqs, Sound, Dbs
<1>2. c = 0 \/ c \in d.rows[g]
  BY DEF derive_episode_cursor, Episodes
<1>3. ASSUME g \notin past, Lines(g) = log[g], NEW s \in log[g], s \notin d.rows[g] PROVE s \in Tail(c, g)
  <2>1. Prefix(d, log, g) /\ s \in Nat /\ c \in Nat
    BY <1>1, <1>2, <1>3 DEF Sound
  <2>2. s >= c
    BY <1>2, <1>3, <2>1 DEF Prefix
  <2>3. QED
    BY <1>3, <2>2 DEF Tail
<1>4. QED
  BY <1>1, <1>3

\* Where replay finds lines, they are lines of the stream; and all of them when no file is
\* hidden from it.
LEMMA Found ==
  ASSUME Tree, NEW g \in Groups
  PROVE  /\ Lines(g) \subseteq Written[g]
         /\ (g # DefaultGroup \/ DefaultGroup \notin ReplaysPast) => Lines(g) = Written[g]
<1>1. CASE g # DefaultGroup
  BY <1>1 DEF Lines, Written
<1>2. CASE g = DefaultGroup
  <2>1. PICK F : F = {w \in WalFiles : at["group"][w] = "ours"}
    OBVIOUS
  <2>2. F \subseteq origin.entries \cap WalFiles
    BY <2>1 DEF Tree, Stored, Places
  <2>3. Lines(g) = UNION {LinesIn[f] : f \in F} /\ Written[g] = UNION {LinesIn[f] : f \in origin.entries \cap WalFiles}
    BY <1>2, <2>1 DEF Lines, Written
  <2>4. DefaultGroup \notin ReplaysPast => F = origin.entries \cap WalFiles
    BY <2>1, <2>2 DEF ReplaysPast
  <2>5. QED
    BY <1>2, <2>2, <2>3, <2>4
<1>3. QED
  BY <1>1, <1>2

-----------------------------------------------------------------------------
(* The file tree.                                                          *)

Trees == [Places -> [Entries -> Contents]]

\* One entry of one place is stored.
LEMMA PutAt ==
  ASSUME NEW a \in Trees, NEW p \in Places, NEW e \in Entries, NEW c \in Contents
  PROVE  /\ Put(a, p, e, c) \in Trees
         /\ \A q \in Places, x \in Entries : Put(a, p, e, c)[q][x] = IF q = p /\ x = e THEN c ELSE a[q][x]
  BY DEF Trees, Put

\* One entry moves from one place to another.
LEMMA MoveAt ==
  ASSUME NEW a \in Trees, NEW p \in Places, NEW q \in Places, p # q, NEW e \in Entries
  PROVE  /\ Move(a, p, q, e) \in Trees
         /\ \A r \in Places, x \in Entries : Move(a, p, q, e)[r][x] =
               IF x # e THEN a[r][x] ELSE IF r = q THEN a[p][e] ELSE IF r = p THEN Absent ELSE a[r][x]
<1>1. a[p][e] \in Contents /\ Absent \in Contents
  BY DEF Trees, Contents
<1>2. PICK b : b = Put(a, q, e, a[p][e])
  OBVIOUS
<1>a. PICK v \in Contents : v = a[p][e]
  BY <1>1
<1>b. b = Put(a, q, e, v)
  BY <1>2, <1>a
<1>c. Put(a, q, e, v) \in Trees
      /\ \A r \in Places, x \in Entries : Put(a, q, e, v)[r][x] = IF r = q /\ x = e THEN v ELSE a[r][x]
  BY PutAt
<1>3. b \in Trees /\ \A r \in Places, x \in Entries : b[r][x] = IF r = q /\ x = e THEN a[p][e] ELSE a[r][x]
  BY <1>a, <1>b, <1>c
<1>d. b \in Trees /\ Absent \in Contents
  BY <1>1, <1>3
<1>4. /\ Put(b, p, e, Absent) \in Trees
      /\ \A r \in Places, x \in Entries : Put(b, p, e, Absent)[r][x] = IF r = p /\ x = e THEN Absent ELSE b[r][x]
  BY <1>d, PutAt
<1>5. Move(a, p, q, e) = Put(b, p, e, Absent)
  BY <1>2 DEF Move
<1>6. QED
  BY <1>3, <1>4, <1>5

\* What a step may do to the files without losing one.
Careful(a) ==
    /\ a \in Trees
    /\ \A e \in Entries : a["legacy"][e] \in {at["legacy"][e], Absent} /\ a["bak"][e] = at["bak"][e]
    /\ \A p \in Places, f \in WalFiles : a[p][f] = "ours" => \E q \in Places : at[q][f] = "ours"
    /\ \A p \in Places, e \in Entries \ {"db", "dbwal", "gen"} :
          at[p][e] = "ours" => \E q \in Places : a[q][e] = "ours"

\* What it may do to the directories and the course of the start.
Orderly ==
    /\ envVars' = envVars /\ (Legacy' <=> Legacy)
    /\ "wal_root" \in dirs => "wal_root" \in dirs'
    /\ \A f \in WalFiles : "wal_root" \notin dirs' => at'["root"][f] = Absent
    /\ boot' \in Steps /\ faults' \in Nat
    /\ boot' \in Moving => Legacy
    /\ boot' \in Fixing => ~Legacy
    /\ boot' \in Decided /\ Legacy => outcome' = "failed"
    /\ boot' \in {"wal_copy", "wal_merge"} => "wal_root" \in dirs'

\* And to the generation record of a stream that came with one.
Faithful ==
    origin.gen # Absent =>
      \/ at'["group"]["gen"] = "ours"
      \/ /\ at'["root"]["gen"] = "ours" /\ boot' \notin Relocating
         /\ \A f \in WalFiles : at'["root"][f] # Absent

\* A careful, orderly and faithful step keeps the files accounted for.
LEMMA FileStep ==
  ASSUME Tree, Careful(at'), Orderly, Faithful
  PROVE  Tree'
<1>a. origin' = origin /\ keepBackup' = keepBackup /\ Stored /\ (Legacy' <=> Legacy)
  BY DEF Orderly, envVars, Tree
<1>1. Stored'
  <2>1. at' \in [Places -> [Entries -> Contents]] /\ origin'.entries \subseteq Entries
    BY <1>a DEF Careful, Trees, Stored
  <2>2. \A e \in Entries : ~Legacy => at'["legacy"][e] = Absent
    BY <1>a DEF Careful, Stored
  <2>3. \A e \in Entries : Legacy \/ ~keepBackup => at'["bak"][e] = Absent
    BY <1>a DEF Careful, Stored
  <2>4. \A e \in Entries \ {"dbwal"} : at'["legacy"][e] \in {"ours", Absent}
    BY <1>a DEF Careful, Stored
  <2>5. \A f \in WalFiles, p \in Places : at'[p][f] = "ours" => f \in origin.entries
    BY <1>a DEF Careful, Stored
  <2>6. \A f \in WalFiles : "wal_root" \notin dirs' => at'["root"][f] = Absent
    BY DEF Orderly
  <2>7. QED
    BY <1>a, <2>1, <2>2, <2>3, <2>4, <2>5, <2>6 DEF Stored
<1>2. Reported'
  BY DEF Orderly, Reported
<1>3. Adopted'
  BY DEF Tree, Adopted, Orderly, Faithful, envVars
<1>4. NothingLost'
  <2>1. NothingLost
    BY DEF Tree
  <2>2. SUFFICES ASSUME NEW e \in origin.entries \ {"db", "dbwal", "gen"}
                 PROVE  \E p \in Places : at'[p][e] = "ours"
    BY <1>a DEF NothingLost
  <2>3. PICK p \in Places : at[p][e] = "ours"
    BY <2>1 DEF NothingLost
  <2>4. e \in Entries
    BY <1>a DEF Stored
  <2>5. QED
    BY <2>3, <2>4 DEF Careful
<1>5. QED
  BY <1>1, <1>2, <1>3, <1>4 DEF Tree

\* A step that leaves the files alone.
LEMMA Untouched ==
  ASSUME Tree, at' = at, Orderly, boot' \in Relocating => boot \in Relocating \/ origin.gen = Absent \/ at["group"]["gen"] = "ours"
  PROVE  Tree'
<1>1. Careful(at')
  BY DEF Careful, Tree, Stored, Trees
<1>2. Faithful
  BY DEF Faithful, Tree, Adopted
<1>3. QED
  BY <1>1, <1>2, FileStep

-----------------------------------------------------------------------------
(* The migrations, call by call.                                           *)

\* What every case uses of the tree.
LEMMA Known ==
  ASSUME Tree
  PROVE  /\ at \in Trees /\ boot \in Steps /\ faults \in Nat /\ Absent \in Contents
         /\ \A f \in WalFiles : f \in Entries /\ f \notin {"db", "dbwal", "ontology", "hash", "other", "gen"}
         /\ {"db", "dbwal", "ontology", "hash", "other", "gen"} \subseteq Entries
         /\ {"legacy", "flat", "tmp", "lcg", "bak", "root", "group"} = Places
         /\ \A e \in Entries \ {"dbwal"} : at["legacy"][e] \in {"ours", Absent}
  BY DEF Tree, Stored, Reported, Trees, Contents, Entries, Items, Places

\* migrate_workspace decides.
LEMMA migrateTree == ASSUME Tree, migrate_workspace PROVE Tree'
<1>1. Orderly /\ at' = at /\ boot' \notin Relocating
  BY DEF migrate_workspace, Decide, Orderly, Tree, Reported, Stored, fileVars, envVars, Legacy,
         Steps, Moving, Fixing, Decided, Relocating, Replaying
<1>2. QED
  BY <1>1, Untouched

\* The directories of the new layout are created.
LEMMA CreateDbDirTree == ASSUME Tree, CreateDbDir PROVE Tree'
<1>1. Orderly /\ at' = at /\ boot' \notin Relocating
  BY DEF CreateDbDir, Orderly, Tree, Reported, Stored, fileVars, envVars, Legacy,
         Steps, Moving, Fixing, Decided, Relocating, Replaying
<1>2. QED
  BY <1>1, Untouched

\* A call of the migration fails, and the start goes on.
LEMMA FailsTree ==
  ASSUME Tree, MoveItemFails \/ MoveWalFails \/ ValidateDb \/ ValidateDbFails \/ FixLayoutFails
  PROVE  Tree'
<1>1. Orderly /\ at' = at /\ boot' \notin Relocating
  BY DEF MoveItemFails, MoveWalFails, ValidateDb, ValidateDbFails, FixLayoutFails, FailMigration, Fail, Decide,
         Orderly, Tree, Reported, Stored, fileVars, envVars, Legacy, Moved,
         Steps, Moving, Fixing, Decided, Relocating, Replaying
<1>2. QED
  BY <1>1, Untouched

\* The database's parent directory is created, or the start exits over a flat .lcg/db.
LEMMA CreateDbParentTree == ASSUME Tree, CreateDbParent PROVE Tree'
<1>1. Orderly /\ at' = at /\ boot' \notin Relocating
  BY DEF CreateDbParent, Orderly, Tree, Reported, Stored, fileVars, envVars, Legacy,
         Steps, Moving, Fixing, Decided, Relocating, Replaying
<1>2. QED
  BY <1>1, Untouched

\* migrate_wal_root_if_needed looks for loose files, or one of its calls fails.
LEMMA WalRootTree == ASSUME Tree, migrate_wal_root_if_needed \/ WalRootFails PROVE Tree'
<1>1. CASE migrate_wal_root_if_needed
  <2>1. boot = "walroot" /\ at' = at /\ boot' \in {"open", "adopt", "ensure"} /\ outcome' = outcome
        /\ UNCHANGED envVars /\ faults' = faults /\ dirs' \in {dirs, dirs \cup {"group"}}
        /\ (boot' = "ensure" => boot' \notin {"open", "adopt"})
        /\ (at["root"]["gen"] # Absent => boot' # "ensure")
    BY <1>1 DEF migrate_wal_root_if_needed
  <2>2. Orderly
    BY <2>1 DEF Orderly, Tree, Reported, Stored, envVars, Legacy,
         Steps, Moving, Fixing, Decided, Relocating, Replaying
  <2>3. boot' \in Relocating => origin.gen = Absent \/ at["group"]["gen"] = "ours"
    BY <2>1 DEF Tree, Adopted, Relocating
  <2>4. QED
    BY <2>1, <2>2, <2>3, Untouched
<1>2. CASE WalRootFails
  <2>1. Orderly /\ at' = at /\ boot' \notin Relocating
    BY <1>2 DEF WalRootFails, Fail, Orderly, Tree, Reported, Stored, fileVars, envVars, Legacy,
         Steps, Moving, Fixing, Decided, Relocating, Replaying
  <2>2. QED
    BY <2>1, Untouched
<1>3. QED
  BY <1>1, <1>2

\* One entry moves where nothing of its name is.
LEMMA MovedOver ==
  ASSUME Tree, NEW p \in Places, NEW q \in Places, p # q, NEW e \in Entries,
         at[p][e] # Absent, at[q][e] # "ours" \/ at[p][e] = "ours", q \notin {"legacy", "bak"}, p # "bak"
  PROVE  Careful(Move(at, p, q, e))
<1>1. PICK a : a = Move(at, p, q, e)
  OBVIOUS
<1>2. /\ a \in Trees /\ at \in Trees
      /\ \A r \in Places, x \in Entries : a[r][x] =
            IF x # e THEN at[r][x] ELSE IF r = q THEN at[p][e] ELSE IF r = p THEN Absent ELSE at[r][x]
  <2>1. at \in Trees
    BY Known
  <2>2. QED
    BY <1>1, <2>1, MoveAt
<1>3. \A x \in Entries : a["legacy"][x] \in {at["legacy"][x], Absent} /\ a["bak"][x] = at["bak"][x]
  BY <1>2, Known
<1>4. ASSUME NEW r \in Places, NEW f \in WalFiles, a[r][f] = "ours" PROVE \E s \in Places : at[s][f] = "ours"
  <2>1. f \in Entries /\ Absent # "ours"
    BY Known
  <2>2. QED
    BY <1>2, <1>4, <2>1
<1>5. ASSUME NEW r \in Places, NEW x \in Entries \ {"db", "dbwal", "gen"}, at[r][x] = "ours"
      PROVE  \E s \in Places : a[s][x] = "ours"
  <2>1. CASE x # e \/ r \notin {p, q}
    BY <1>2, <1>5, <2>1
  <2>2. CASE x = e /\ r \in {p, q}
    BY <1>2, <1>5, <2>2
  <2>3. QED
    BY <2>1, <2>2
<1>6. QED
  BY <1>1, <1>2, <1>3, <1>4, <1>5 DEF Careful

\* The database, its log, the ontology and its hash move out of .graphiti.
LEMMA MoveItemTree == ASSUME Tree, MoveItem PROVE Tree'
<1>1. PICK e \in {"db", "dbwal", "ontology", "hash"} : e = Moved[boot]
  BY DEF MoveItem, Moved
<1>2. /\ boot \in Moving /\ boot' \in Moving \ {"wal_copy", "wal_merge"} /\ UNCHANGED <<dirs, outcome, envVars, faults>>
      /\ at' = IF at["legacy"][e] # Absent /\ at["lcg"][e] = Absent THEN Move(at, "legacy", "lcg", e) ELSE at
  BY <1>1 DEF MoveItem, Moved, NextMove, Moving
<1>3. e \in Entries /\ "legacy" \in Places /\ "lcg" \in Places /\ Absent # "ours"
  BY Known
<1>4. Careful(at')
  <2>1. CASE at' = at
    BY <2>1, Known DEF Careful
  <2>2. CASE at["legacy"][e] # Absent /\ at["lcg"][e] = Absent
    BY <1>2, <1>3, <2>2, MovedOver
  <2>3. QED
    BY <1>2, <2>1, <2>2
<1>5. \A x \in Entries : at'["root"][x] = at["root"][x]
  <2>1. at \in Trees /\ "root" \in Places
    BY Known
  <2>2. \A x \in Entries : Move(at, "legacy", "lcg", e)["root"][x] = at["root"][x]
    BY <1>3, <2>1, MoveAt
  <2>3. QED
    BY <1>2, <2>2
<1>6. origin.gen = Absent
  BY <1>2 DEF Tree, Reported, Adopted
<1>7. Orderly
  BY <1>2, <1>5, Known DEF Orderly, Tree, Reported, Stored, envVars, Legacy,
     Steps, Moving, Fixing, Decided, Relocating, Replaying
<1>8. QED
  BY <1>4, <1>6, <1>7, FileStep DEF Faithful

\* What the migration does not recognise moves to .lcg/_unrecognized.
LEMMA MoveUnrecognizedTree == ASSUME Tree, MoveUnrecognized PROVE Tree'
<1>2. /\ boot \in Moving /\ boot' = "validate" /\ UNCHANGED <<dirs, outcome, envVars, faults>>
      /\ at' = IF at["legacy"]["other"] # Absent THEN Move(at, "legacy", "lcg", "other") ELSE at
  BY DEF MoveUnrecognized, Moving
<1>3. "other" \in Entries /\ "legacy" \in Places /\ "lcg" \in Places /\ Absent # "ours"
  BY Known
<1>4. Careful(at')
  <2>1. CASE at["legacy"]["other"] = Absent
    BY <1>2, <2>1, Known DEF Careful
  <2>2. CASE at["legacy"]["other"] # Absent
    <3>1. at["legacy"]["other"] = "ours"
      BY <1>3, <2>2, Known
    <3>2. QED
      BY <1>2, <1>3, <2>2, <3>1, MovedOver
  <2>3. QED
    BY <2>1, <2>2
<1>5. \A x \in Entries : at'["root"][x] = at["root"][x]
  <2>1. at \in Trees /\ "root" \in Places
    BY Known
  <2>2. \A x \in Entries : Move(at, "legacy", "lcg", "other")["root"][x] = at["root"][x]
    BY <1>3, <2>1, MoveAt
  <2>3. QED
    BY <1>2, <2>2
<1>6. origin.gen = Absent
  BY <1>2 DEF Tree, Reported, Adopted
<1>7. Orderly
  BY <1>2, <1>5, Known DEF Orderly, Tree, Reported, Stored, envVars, Legacy,
     Steps, Moving, Fixing, Decided, Relocating, Replaying
<1>8. QED
  BY <1>4, <1>6, <1>7, FileStep DEF Faithful

\* The legacy WAL directory is moved whole, or its move begins.
LEMMA MoveWalDirTree == ASSUME Tree, MoveWalDir PROVE Tree'
<1>1. /\ boot \in Moving /\ boot' \in Moving /\ UNCHANGED <<outcome, envVars, faults>> /\ (Legacy' <=> Legacy)
      /\ "wal_root" \in dirs => "wal_root" \in dirs'
      /\ boot' \in {"wal_copy", "wal_merge"} => "wal_root" \in dirs'
  BY DEF MoveWalDir, Moving, fileVars, Legacy
<1>2. origin.gen = Absent
  BY <1>1 DEF Tree, Reported, Adopted
<1>3. CASE at' = at
  <2>1. Orderly
    BY <1>1, <1>3 DEF Orderly, Tree, Reported, Stored, envVars, Steps, Moving, Fixing, Decided, Relocating, Replaying
  <2>2. QED
    BY <1>2, <1>3, <2>1, Untouched
<1>4. CASE at' # at
  <2>1. PICK a : a = [at EXCEPT !["root"] = [e \in Entries |-> IF e \in WalFiles THEN at["legacy"][e] ELSE @[e]],
                        !["legacy"] = [e \in Entries |-> IF e \in WalFiles THEN Absent ELSE @[e]]]
    OBVIOUS
  <2>2. a = at' /\ "wal_root" \notin dirs /\ "wal_root" \in dirs'
    BY <1>4, <2>1 DEF MoveWalDir, fileVars
  <2>3. /\ a \in Trees
        /\ \A p \in Places, e \in Entries :
              a[p][e] = IF e \notin WalFiles THEN at[p][e] ELSE IF p = "root" THEN at["legacy"][e]
                        ELSE IF p = "legacy" THEN Absent ELSE at[p][e]
    <3>1. at \in Trees /\ "root" \in Places /\ "legacy" \in Places /\ Absent \in Contents
      BY Known
    <3>2. PICK r, l : /\ r = [e \in Entries |-> IF e \in WalFiles THEN at["legacy"][e] ELSE at["root"][e]]
                      /\ l = [e \in Entries |-> IF e \in WalFiles THEN Absent ELSE at["legacy"][e]]
      OBVIOUS
    <3>3. a = [at EXCEPT !["root"] = r, !["legacy"] = l]
      BY <2>1, <3>1, <3>2 DEF Trees
    <3>4. r \in [Entries -> Contents] /\ l \in [Entries -> Contents]
      BY <3>1, <3>2 DEF Trees
    <3>5. a \in Trees
      BY <3>1, <3>3, <3>4 DEF Trees
    <3>6. \A p \in Places : a[p] = IF p = "legacy" THEN l ELSE IF p = "root" THEN r ELSE at[p]
      BY <3>1, <3>3 DEF Trees
    <3>7. QED
      BY <3>2, <3>5, <3>6
  <2>4. \A f \in WalFiles : f \in Entries /\ at["root"][f] = Absent /\ Absent # "ours"
    BY <2>2, Known DEF Tree, Stored
  <2>5. Careful(a)
    <3>1. \A e \in Entries : a["legacy"][e] \in {at["legacy"][e], Absent} /\ a["bak"][e] = at["bak"][e]
      BY <2>3, Known
    <3>2. "root" \in Places /\ "legacy" \in Places
      BY Known
    <3>3. ASSUME NEW p \in Places, NEW f \in WalFiles, a[p][f] = "ours" PROVE \E q \in Places : at[q][f] = "ours"
      BY <2>3, <2>4, <3>2, <3>3
    <3>4. ASSUME NEW p \in Places, NEW e \in Entries \ {"db", "dbwal", "gen"}, at[p][e] = "ours"
          PROVE  \E q \in Places : a[q][e] = "ours"
      <4>1. CASE e \notin WalFiles \/ p \notin {"root", "legacy"}
        BY <2>3, <3>4, <4>1
      <4>2. CASE e \in WalFiles /\ p = "legacy"
        BY <2>3, <3>2, <3>4, <4>2
      <4>3. CASE e \in WalFiles /\ p = "root"
        BY <2>4, <3>4, <4>3
      <4>4. QED
        BY <4>1, <4>2, <4>3
    <3>5. QED
      BY <2>3, <3>1, <3>3, <3>4 DEF Careful
  <2>6. Orderly
    BY <1>1, <2>2 DEF Orderly, Tree, Reported, Steps, Moving, Fixing, Decided, Relocating, Replaying
  <2>7. QED
    BY <1>2, <2>2, <2>5, <2>6, FileStep DEF Faithful
<1>5. QED
  BY <1>3, <1>4

\* One file of the legacy WAL directory is copied, or they are all removed at the source.
LEMMA CopyTree == ASSUME Tree, copy_and_remove_cross_device PROVE Tree'
<1>1. /\ boot \in Moving /\ boot' \in Moving /\ UNCHANGED <<outcome, envVars, faults>> /\ (Legacy' <=> Legacy)
      /\ "wal_root" \in dirs /\ "wal_root" \in dirs'
  BY DEF copy_and_remove_cross_device, Moving, Legacy, Tree, Reported
<1>2. origin.gen = Absent
  BY <1>1 DEF Tree, Reported, Adopted
<1>k. at \in Trees /\ "root" \in Places /\ "legacy" \in Places /\ Absent \in Contents /\ Absent # "ours" /\ "torn" \in Contents
  BY Known DEF Contents
<1>l. \A e \in WalFiles : e \in Entries /\ e \notin {"db", "dbwal", "gen"} /\ at["legacy"][e] \in {"ours", Absent}
  BY Known
<1>3. CASE \E f \in WalFiles :
              /\ at["legacy"][f] # Absent /\ at["root"][f] # at["legacy"][f]
              /\ at' = Put(at, "root", f, IF at["root"][f] = "torn" THEN at["legacy"][f] ELSE "torn")
              /\ dirs' = dirs
  <2>1. PICK f \in WalFiles : /\ at["legacy"][f] # Absent /\ at["root"][f] # at["legacy"][f]
                              /\ at' = Put(at, "root", f, IF at["root"][f] = "torn" THEN at["legacy"][f] ELSE "torn")
    BY <1>3
  <2>2. at["legacy"][f] = "ours" /\ f \in Entries
    BY <1>l, <2>1
  <2>3. PICK c : c = IF at["root"][f] = "torn" THEN at["legacy"][f] ELSE "torn"
    OBVIOUS
  <2>4. c \in Contents
    BY <1>k, <2>2, <2>3 DEF Contents
  <2>5. at' \in Trees /\ \A q \in Places, x \in Entries : at'[q][x] = IF q = "root" /\ x = f THEN c ELSE at[q][x]
    <3>1. at' = Put(at, "root", f, c)
      BY <2>1, <2>3
    <3>2. at \in Trees
      BY <1>k
    <3>3. /\ Put(at, "root", f, c) \in Trees
          /\ \A q \in Places, x \in Entries : Put(at, "root", f, c)[q][x] = IF q = "root" /\ x = f THEN c ELSE at[q][x]
      BY <1>k, <2>2, <2>4, <3>2, PutAt
    <3>4. QED
      BY <3>1, <3>3
  <2>6. Careful(at')
    <3>1. \A e \in Entries : at'["legacy"][e] = at["legacy"][e] /\ at'["bak"][e] = at["bak"][e]
      BY <2>5, Known
    <3>2. ASSUME NEW p \in Places, NEW w \in WalFiles, at'[p][w] = "ours" PROVE \E q \in Places : at[q][w] = "ours"
      <4>1. CASE w = f
        BY <1>k, <2>2, <4>1
      <4>2. CASE w # f
        BY <1>l, <2>5, <3>2, <4>2
      <4>3. QED
        BY <4>1, <4>2
    <3>3. ASSUME NEW p \in Places, NEW e \in Entries \ {"db", "dbwal", "gen"}, at[p][e] = "ours"
          PROVE  \E q \in Places : at'[q][e] = "ours"
      <4>1. CASE e = f
        BY <1>k, <2>2, <2>5, <4>1
      <4>2. CASE e # f
        BY <2>5, <3>3, <4>2
      <4>3. QED
        BY <4>1, <4>2
    <3>4. QED
      BY <2>5, <3>1, <3>2, <3>3 DEF Careful
  <2>8. Orderly
    BY <1>1 DEF Orderly, Tree, Reported, Steps, Moving, Fixing, Decided, Relocating, Replaying
  <2>9. QED
    BY <1>2, <2>6, <2>8, FileStep DEF Faithful
<1>4. CASE /\ \A f \in WalFiles : at["root"][f] = at["legacy"][f]
           /\ at' = [at EXCEPT !["legacy"] = [e \in Entries |-> IF e \in WalFiles THEN Absent ELSE @[e]]]
  <2>1. at' \in Trees /\ \A p \in Places, e \in Entries :
           at'[p][e] = IF p = "legacy" /\ e \in WalFiles THEN Absent ELSE at[p][e]
    <3>1. PICK l : l = [e \in Entries |-> IF e \in WalFiles THEN Absent ELSE at["legacy"][e]]
      OBVIOUS
    <3>2. at' = [at EXCEPT !["legacy"] = l] /\ l \in [Entries -> Contents]
      BY <1>k, <1>4, <3>1 DEF Trees
    <3>3. at' \in Trees /\ \A p \in Places : at'[p] = IF p = "legacy" THEN l ELSE at[p]
      BY <1>k, <3>2 DEF Trees
    <3>4. QED
      BY <3>1, <3>3
  <2>2. Careful(at')
    <3>1. \A e \in Entries : at'["legacy"][e] \in {at["legacy"][e], Absent} /\ at'["bak"][e] = at["bak"][e]
      BY <2>1, Known
    <3>2. ASSUME NEW p \in Places, NEW f \in WalFiles, at'[p][f] = "ours" PROVE \E q \in Places : at[q][f] = "ours"
      BY <1>k, <1>l, <2>1, <3>2
    <3>3. ASSUME NEW p \in Places, NEW e \in Entries \ {"db", "dbwal", "gen"}, at[p][e] = "ours"
          PROVE  \E q \in Places : at'[q][e] = "ours"
      <4>1. CASE p = "legacy" /\ e \in WalFiles
        <5>1. at'["root"][e] = "ours"
          BY <1>k, <1>l, <1>4, <2>1, <3>3, <4>1
        <5>2. QED
          BY <1>k, <5>1
      <4>2. CASE ~(p = "legacy" /\ e \in WalFiles)
        BY <2>1, <3>3, <4>2
      <4>3. QED
        BY <4>1, <4>2
    <3>4. QED
      BY <2>1, <3>1, <3>2, <3>3 DEF Careful
  <2>3. Orderly
    <3>1. boot' = "move_ontology"
      BY <1>1, <1>4, <1>k, <1>l DEF copy_and_remove_cross_device
    <3>2. QED
      BY <1>1, <3>1 DEF Orderly, Tree, Reported, Steps, Moving, Fixing, Decided, Relocating, Replaying
  <2>4. QED
    BY <1>2, <2>2, <2>3, FileStep DEF Faithful
<1>5. QED
  BY <1>3, <1>4 DEF copy_and_remove_cross_device

\* Steps that touch only the database, its log and the generation record, outside the
\* legacy directory and its backup.
LEMMA Aside ==
  ASSUME Tree, NEW a \in Trees,
         \A p \in Places, e \in Entries :
           a[p][e] # at[p][e] => p \notin {"legacy", "bak"} /\ e \in {"db", "dbwal", "gen"}
  PROVE  Careful(a) /\ \A f \in WalFiles, p \in Places : a[p][f] = at[p][f]
<1>1. \A f \in WalFiles, p \in Places : a[p][f] = at[p][f]
  BY Known
<1>2. \A e \in Entries : a["legacy"][e] = at["legacy"][e] /\ a["bak"][e] = at["bak"][e]
  BY Known
<1>3. \A p \in Places, e \in Entries \ {"db", "dbwal", "gen"} : a[p][e] = at[p][e]
  OBVIOUS
<1>4. QED
  BY <1>1, <1>2, <1>3 DEF Careful

\* A file of the legacy WAL directory is written where nothing of its name is, whole or torn.
LEMMA Copied ==
  ASSUME Tree, NEW f \in WalFiles, NEW c \in {"ours", "torn"}, at["legacy"][f] = "ours", at["root"][f] = Absent
  PROVE  Careful(Put(at, "root", f, c))
<1>1. PICK a : a = Put(at, "root", f, c)
  OBVIOUS
<1>2. at \in Trees /\ "root" \in Places /\ "legacy" \in Places /\ f \in Entries /\ c \in Contents /\ Absent # "ours"
  BY Known DEF Contents
<1>3. a \in Trees /\ \A q \in Places, x \in Entries : a[q][x] = IF q = "root" /\ x = f THEN c ELSE at[q][x]
  BY <1>1, <1>2, PutAt
<1>4. \A e \in Entries : a["legacy"][e] = at["legacy"][e] /\ a["bak"][e] = at["bak"][e]
  BY <1>3, Known
<1>5. ASSUME NEW p \in Places, NEW g \in WalFiles, a[p][g] = "ours" PROVE \E q \in Places : at[q][g] = "ours"
  <2>1. g \in Entries
    BY Known
  <2>2. CASE p = "root" /\ g = f
    BY <1>2, <2>2
  <2>3. CASE ~(p = "root" /\ g = f)
    BY <1>3, <1>5, <2>1, <2>3
  <2>4. QED
    BY <2>2, <2>3
<1>6. ASSUME NEW p \in Places, NEW e \in Entries, at[p][e] = "ours" PROVE a[p][e] = "ours"
  BY <1>2, <1>3, <1>6
<1>7. QED
  BY <1>1, <1>3, <1>4, <1>5, <1>6 DEF Careful

\* A copy of the merge ends half way.
LEMMA TornTree == ASSUME Tree, MergeCopyTorn PROVE Tree'
<1>1. PICK f \in WalFiles : at["legacy"][f] # Absent /\ at["root"][f] = Absent /\ at' = Put(at, "root", f, "torn")
  BY DEF MergeCopyTorn
<1>2. /\ boot = "wal_merge" /\ boot' = "parent" /\ outcome' = "failed" /\ faults' = faults + 1
      /\ UNCHANGED <<dirs, envVars>>
  BY DEF MergeCopyTorn
<1>3. at["legacy"][f] = "ours"
  BY <1>1, Known
<1>4. Careful(at')
  BY <1>1, <1>3, Copied
<1>5. origin.gen = Absent /\ "wal_root" \in dirs /\ Legacy
  BY <1>2 DEF Tree, Reported, Adopted, Moving
<1>6. Orderly
  BY <1>2, <1>5, Known DEF Orderly, Legacy, Steps, Moving, Fixing, Decided, Relocating, Replaying
<1>7. QED
  BY <1>4, <1>5, <1>6, FileStep DEF Faithful

\* A file of the legacy WAL directory is merged into the root, or stays as a collision.
LEMMA MergeTree == ASSUME Tree, merge_wal_dir_into_root PROVE Tree'
<1>1. /\ boot \in Moving /\ boot' \in Moving /\ UNCHANGED <<outcome, envVars, faults>> /\ (Legacy' <=> Legacy)
      /\ "wal_root" \in dirs /\ "wal_root" \in dirs'
  BY DEF merge_wal_dir_into_root, Moving, Legacy, Tree, Reported
<1>2. origin.gen = Absent
  BY <1>1 DEF Tree, Reported, Adopted
<1>3. Orderly
  BY <1>1 DEF Orderly, Tree, Reported, Steps, Moving, Fixing, Decided, Relocating, Replaying
<1>4. CASE at' = at
  BY <1>2, <1>3, <1>4, Untouched
<1>5. CASE at' # at
  <2>1. PICK f \in WalFiles :
           /\ Mergeable(f)
           /\ at' = IF crossDevice /\ at["root"][f] = Absent THEN Put(at, "root", f, at["legacy"][f])
                    ELSE Move(at, "legacy", "root", f)
    BY <1>5 DEF merge_wal_dir_into_root
  <2>2. at["legacy"][f] = "ours" /\ f \in Entries /\ "legacy" \in Places /\ "root" \in Places /\ Absent # "ours"
    BY <2>1, Known DEF Mergeable
  <2>a. Careful(Move(at, "legacy", "root", f))
    BY <2>1, <2>2, MovedOver
  <2>b. at["root"][f] = Absent => Careful(Put(at, "root", f, "ours"))
    BY <2>2, Copied DEF Contents
  <2>3. Careful(at')
    BY <2>1, <2>2, <2>a, <2>b
  <2>4. QED
    BY <1>2, <1>3, <2>3, FileStep DEF Faithful
<1>6. QED
  BY <1>4, <1>5

\* The legacy directory is renamed aside or removed.
LEMMA RetireTree == ASSUME Tree, RetireLegacy PROVE Tree'
<1>1. /\ boot = "retire" /\ boot' = "parent" /\ UNCHANGED <<envVars, faults>> /\ Legacy
      /\ ("wal_root" \in dirs <=> "wal_root" \in dirs')
  BY DEF RetireLegacy, Tree, Reported, Moving, fileVars
<1>2. origin.gen = Absent /\ origin' = origin /\ keepBackup' = keepBackup
  BY <1>1 DEF Tree, Adopted, envVars
<1>k. at \in Trees /\ {"legacy", "bak", "root"} \subseteq Places /\ Absent \in Contents /\ Absent # "ours"
  BY Known
<1>3. CASE dirs' = dirs
  <2>1. at' = at /\ (Legacy' <=> Legacy) /\ outcome' = "failed"
    BY <1>1, <1>3 DEF RetireLegacy, fileVars, Legacy
  <2>2. Orderly
    BY <1>1, <2>1 DEF Orderly, Tree, Stored, Reported, Steps, Moving, Fixing, Decided, Relocating, Replaying
  <2>3. QED
    BY <1>2, <2>1, <2>2, Untouched
<1>4. CASE ~Legacy' /\ at' = at /\ Held("legacy") = {}
  <2>1. \A e \in Entries : at["legacy"][e] = Absent
    BY <1>4 DEF Held
  <2>2. Stored'
    BY <1>1, <1>2, <1>4, <2>1 DEF Tree, Stored
  <2>3. Reported'
    BY <1>1, <1>4 DEF Tree, Reported, Steps, Moving, Fixing, Decided, Relocating, Replaying
  <2>4. QED
    BY <1>2, <1>4, <2>2, <2>3 DEF Tree, Adopted, NothingLost
<1>5. CASE ~Legacy' /\ keepBackup /\ at' = [at EXCEPT !["bak"] = at["legacy"], !["legacy"] = [e \in Entries |-> Absent]]
  <2>1. at' \in Trees /\ \A p \in Places, e \in Entries :
           at'[p][e] = IF p = "legacy" THEN Absent ELSE IF p = "bak" THEN at["legacy"][e] ELSE at[p][e]
    <3>1. PICK l : l = [e \in Entries |-> Absent]
      OBVIOUS
    <3>2. at' = [at EXCEPT !["bak"] = at["legacy"], !["legacy"] = l] /\ l \in [Entries -> Contents]
      BY <1>k, <1>5, <3>1
    <3>3. at' \in Trees /\ \A p \in Places : at'[p] = IF p = "legacy" THEN l ELSE IF p = "bak" THEN at["legacy"] ELSE at[p]
      BY <1>k, <3>2 DEF Trees
    <3>4. QED
      BY <3>1, <3>3
  <2>2. \A f \in WalFiles : f \in Entries
    BY Known
  <2>3. Stored'
    <3>1. at' \in [Places -> [Entries -> Contents]] /\ origin'.entries \subseteq Entries
      BY <1>2, <2>1 DEF Tree, Stored, Trees
    <3>2. \A e \in Entries : at'["legacy"][e] = Absent
      BY <1>k, <2>1
    <3>3. \A f \in WalFiles : "wal_root" \notin dirs' => at'["root"][f] = Absent
      BY <1>k, <1>1, <2>1, <2>2 DEF Tree, Stored
    <3>4. ASSUME NEW f \in WalFiles, NEW p \in Places, at'[p][f] = "ours" PROVE f \in origin'.entries
      <4>1. \E q \in Places : at[q][f] = "ours"
        BY <1>k, <2>1, <2>2, <3>4
      <4>2. QED
        BY <1>2, <4>1 DEF Tree, Stored
    <3>5. QED
      BY <1>2, <1>5, <3>1, <3>2, <3>3, <3>4 DEF Stored
  <2>4. Reported'
    BY <1>1, <1>5 DEF Tree, Reported, Steps, Moving, Fixing, Decided, Relocating, Replaying
  <2>5. NothingLost'
    <3>1. SUFFICES ASSUME NEW e \in origin.entries \ {"db", "dbwal", "gen"}
                   PROVE  \E p \in Places : at'[p][e] = "ours"
      BY <1>2 DEF NothingLost
    <3>2. PICK p \in Places : at[p][e] = "ours"
      BY DEF Tree, NothingLost
    <3>3. e \in Entries /\ at["bak"][e] = Absent
      BY <1>1 DEF Tree, Stored
    <3>4. CASE p = "legacy"
      BY <1>k, <2>1, <3>2, <3>3, <3>4
    <3>5. CASE p # "legacy"
      BY <1>k, <2>1, <3>2, <3>3, <3>5
    <3>6. QED
      BY <3>4, <3>5
  <2>6. QED
    BY <1>2, <2>3, <2>4, <2>5 DEF Tree, Adopted
<1>6. QED
  BY <1>1, <1>3, <1>4, <1>5 DEF RetireLegacy, fileVars, Legacy

\* The database or its log moves between places that are not the legacy directory.
LEMMA MovedDb ==
  ASSUME Tree, NEW p \in {"flat", "tmp"}, NEW q \in {"tmp", "lcg"}, p # q, NEW e \in {"db", "dbwal"}
  PROVE  /\ Careful(Move(at, p, q, e))
         /\ \A x \in Entries, r \in {"root", "group"} : Move(at, p, q, e)[r][x] = at[r][x]
<1>1. at \in Trees /\ e \in Entries /\ p \in Places /\ q \in Places /\ {"root", "group"} \subseteq Places
  BY Known
<1>2. PICK a : a = Move(at, p, q, e)
  OBVIOUS
<1>3. a \in Trees /\ \A r \in Places, x \in Entries : a[r][x] =
        IF x # e THEN at[r][x] ELSE IF r = q THEN at[p][e] ELSE IF r = p THEN Absent ELSE at[r][x]
  <2>1. at \in Trees /\ p \in Places /\ q \in Places /\ e \in Entries
    BY <1>1
  <2>2. /\ Move(at, p, q, e) \in Trees
        /\ \A r \in Places, x \in Entries : Move(at, p, q, e)[r][x] =
              IF x # e THEN at[r][x] ELSE IF r = q THEN at[p][e] ELSE IF r = p THEN Absent ELSE at[r][x]
    BY <2>1, MoveAt
  <2>3. QED
    BY <1>2, <2>2
<1>4. Careful(a)
  BY <1>3, Aside
<1>5. QED
  BY <1>1, <1>2, <1>3, <1>4

\* fix_broken_lcg_layout moves the flat database into its directory.
LEMMA FixTree == ASSUME Tree, fix_broken_lcg_layout PROVE Tree'
<1>1. /\ boot \in Fixing /\ boot' \in Fixing \cup {"parent"} /\ UNCHANGED <<envVars, faults>> /\ (Legacy' <=> Legacy)
      /\ ~Legacy /\ ("wal_root" \in dirs <=> "wal_root" \in dirs')
  BY DEF fix_broken_lcg_layout, Fixing, Legacy, Tree, Reported
<1>2. Careful(at') /\ \A x \in Entries, r \in {"root", "group"} : at'[r][x] = at[r][x]
  <2>1. CASE at' = at
    BY <2>1, Known DEF Careful
  <2>2. CASE at' = Move(at, "flat", "tmp", "db") \/ at' = Move(at, "tmp", "lcg", "db") \/ at' = Move(at, "flat", "lcg", "dbwal")
    BY <2>2, MovedDb
  <2>3. QED
    BY <2>1, <2>2 DEF fix_broken_lcg_layout
<1>3. Orderly
  BY <1>1, <1>2, Known DEF Orderly, Tree, Stored, Reported, Steps, Moving, Fixing, Decided, Relocating, Replaying
<1>4. Faithful
  BY <1>1, <1>2, Known DEF Faithful, Tree, Adopted, Fixing, Relocating
<1>5. QED
  BY <1>2, <1>3, <1>4, FileStep

\* The loose generation is linked into the group, then unlinked.
LEMMA AdoptTree == ASSUME Tree, AdoptGeneration PROVE Tree'
<1>1. /\ boot \in {"adopt", "unlink"} /\ boot' \in {"unlink", "open", "ensure"}
      /\ UNCHANGED <<dirs, outcome, envVars, faults>>
  BY DEF AdoptGeneration
<1>k. at \in Trees /\ {"root", "group"} \subseteq Places /\ "gen" \in Entries /\ Absent \in Contents
      /\ \A f \in WalFiles : f \in Entries /\ f # "gen"
  BY Known
<1>2. CASE at' = at
  <2>1. Orderly
    BY <1>1, <1>2 DEF Orderly, Legacy, Tree, Stored, Reported, Steps, Moving, Fixing, Decided, Relocating, Replaying
  <2>2. boot' \in Relocating => boot \in Relocating \/ origin.gen = Absent \/ at["group"]["gen"] = "ours"
    <3>1. CASE boot = "unlink"
      BY <3>1 DEF Relocating
    <3>2. CASE at["group"]["gen"] = Absent /\ at' = Put(at, "group", "gen", at["root"]["gen"])
      <4>1. at["root"]["gen"] \in Contents /\ at \in Trees
        BY <1>k DEF Trees
      <4>2. Put(at, "group", "gen", at["root"]["gen"])["group"]["gen"] = at["root"]["gen"]
        BY <1>k, <4>1, PutAt
      <4>3. at["root"]["gen"] = at["group"]["gen"]
        BY <1>2, <3>2, <4>2
      <4>4. QED
        BY <4>3 DEF Tree, Adopted
    <3>3. CASE at["group"]["gen"] = at["root"]["gen"]
      BY <3>3 DEF Tree, Adopted
    <3>4. CASE boot' = "open"
      BY <3>4 DEF Relocating
    <3>5. QED
      BY <3>1, <3>2, <3>3, <3>4 DEF AdoptGeneration
  <2>3. QED
    BY <1>2, <2>1, <2>2, Untouched
<1>3. CASE at' # at
  <2>1. PICK p \in {"root", "group"}, c \in Contents : at' = Put(at, p, "gen", c)
    <3>1. at["root"]["gen"] \in Contents
      BY <1>k DEF Trees
    <3>2. at' = Put(at, "group", "gen", at["root"]["gen"]) \/ at' = Put(at, "root", "gen", Absent)
      BY <1>3 DEF AdoptGeneration
    <3>3. QED
      BY <1>k, <3>1, <3>2
  <2>2. at' \in Trees /\ \A r \in Places, x \in Entries : at'[r][x] = IF r = p /\ x = "gen" THEN c ELSE at[r][x]
    <3>1. Put(at, p, "gen", c) \in Trees /\ \A r \in Places, x \in Entries :
            Put(at, p, "gen", c)[r][x] = IF r = p /\ x = "gen" THEN c ELSE at[r][x]
      <4>1. at \in Trees /\ p \in Places
        BY <1>k
      <4>2. QED
        BY <1>k, <4>1, PutAt
    <3>2. QED
      BY <2>1, <3>1
  <2>3. Careful(at') /\ \A f \in WalFiles, r \in Places : at'[r][f] = at[r][f]
    BY <2>2, Aside
  <2>4. Orderly
    BY <1>k, <1>1, <2>3 DEF Orderly, Legacy, Tree, Stored, Reported, Steps, Moving, Fixing, Decided, Relocating, Replaying
  <2>5. CASE boot = "adopt"
    <3>1. at["group"]["gen"] = Absent /\ at' = Put(at, "group", "gen", at["root"]["gen"])
      BY <1>3, <2>5 DEF AdoptGeneration
    <3>2. at["root"]["gen"] \in Contents
      BY <1>k DEF Trees
    <3>3. at'["group"]["gen"] = at["root"]["gen"]
      <4>1. Put(at, "group", "gen", at["root"]["gen"])["group"]["gen"] = at["root"]["gen"]
        BY <1>k, <3>2, PutAt
      <4>2. QED
        BY <3>1, <4>1
    <3>4. Faithful
      BY <3>1, <3>3 DEF Faithful, Tree, Adopted
    <3>5. QED
      BY <2>3, <2>4, <3>4, FileStep
  <2>6. CASE boot = "unlink"
    <3>1. at' = Put(at, "root", "gen", Absent)
      BY <2>6 DEF AdoptGeneration
    <3>2. at'["group"]["gen"] = at["group"]["gen"]
      <4>1. Put(at, "root", "gen", Absent)["group"]["gen"] = at["group"]["gen"]
        BY <1>k, PutAt
      <4>2. QED
        BY <3>1, <4>1
    <3>3. Faithful
      BY <2>6, <3>2 DEF Faithful, Tree, Adopted, Relocating
    <3>4. QED
      BY <2>3, <2>4, <3>3, FileStep
  <2>7. QED
    BY <1>1, <2>5, <2>6
<1>4. QED
  BY <1>2, <1>3

\* A generation is minted over an absent or unreadable record only.
LEMMA EnsuredAt ==
  ASSUME Tree, at' = Ensured
  PROVE  /\ Careful(at') /\ \A f \in WalFiles, r \in Places : at'[r][f] = at[r][f]
         /\ at["group"]["gen"] = "ours" => at'["group"]["gen"] = "ours"
         /\ at'["root"]["gen"] = at["root"]["gen"]
         /\ \A p \in Places \ {"group"}, e \in Entries : at'[p][e] = at[p][e]
<1>1. at \in Trees /\ {"root", "group"} \subseteq Places /\ "gen" \in Entries /\ "minted" \in Contents /\ Absent # "ours"
      /\ \A f \in WalFiles : f \in Entries
  BY Known DEF Contents
<1>2. CASE at' = at
  <2>1. Careful(at')
    BY <1>2, Known DEF Careful
  <2>2. QED
    BY <1>2, <2>1
<1>3. CASE at' # at
  <2>1. at' = Put(at, "group", "gen", "minted") /\ at["group"]["gen"] # "ours"
    BY <1>1, <1>3 DEF Ensured
  <2>2. Put(at, "group", "gen", "minted") \in Trees /\ \A r \in Places, x \in Entries :
          Put(at, "group", "gen", "minted")[r][x] = IF r = "group" /\ x = "gen" THEN "minted" ELSE at[r][x]
    BY <1>1, PutAt
  <2>3. at' \in Trees /\ \A r \in Places, x \in Entries : at'[r][x] = IF r = "group" /\ x = "gen" THEN "minted" ELSE at[r][x]
    BY <2>1, <2>2
  <2>4. Careful(at') /\ \A f \in WalFiles, r \in Places : at'[r][f] = at[r][f]
    BY <2>3, Aside
  <2>5. QED
    BY <1>1, <2>1, <2>3, <2>4
<1>4. QED
  BY <1>2, <1>3

\* ensure_generation keeps a record that can be read, and mints one otherwise.
LEMMA EnsureTree == ASSUME Tree, ensure_generation PROVE Tree'
<1>1. boot = "ensure" /\ boot' = "relocate" /\ UNCHANGED <<dirs, outcome, envVars, faults>> /\ at' = Ensured
  BY DEF ensure_generation
<1>2. /\ Careful(at') /\ \A f \in WalFiles, r \in Places : at'[r][f] = at[r][f]
      /\ at["group"]["gen"] = "ours" => at'["group"]["gen"] = "ours"
  BY <1>1, EnsuredAt
<1>3. Orderly
  BY <1>1, <1>2, Known DEF Orderly, Legacy, Tree, Stored, Reported, Steps, Moving, Fixing, Decided, Relocating, Replaying
<1>4. Faithful
  BY <1>1, <1>2 DEF Faithful, Tree, Adopted, Relocating
<1>5. QED
  BY <1>2, <1>3, <1>4, FileStep

\* A loose file moves into the group's directory.
LEMMA RelocateTree == ASSUME Tree, RelocateLoose PROVE Tree'
<1>1. boot = "relocate" /\ boot' \in {"relocate", "open"} /\ UNCHANGED <<dirs, outcome, envVars, faults>>
  BY DEF RelocateLoose
<1>2. CASE at' = at
  <2>1. Orderly
    BY <1>1, <1>2 DEF Orderly, Legacy, Tree, Stored, Reported, Steps, Moving, Fixing, Decided, Relocating, Replaying
  <2>2. QED
    BY <1>1, <1>2, <2>1, Untouched DEF Relocating
<1>3. CASE at' # at
  <2>1. PICK f \in WalFiles : /\ at["root"][f] # Absent /\ at["group"][f] = Absent
                              /\ at' = Move(at, "root", "group", f)
    BY <1>3 DEF RelocateLoose
  <2>2. at \in Trees /\ f \in Entries /\ {"root", "group"} \subseteq Places /\ Absent # "ours" /\ "gen" \in Entries /\ f # "gen"
    BY Known
  <2>3. Careful(at')
    BY <2>1, <2>2, MovedOver
  <2>4. \A r \in Places, x \in Entries : Move(at, "root", "group", f)[r][x] =
           IF x # f THEN at[r][x] ELSE IF r = "group" THEN at["root"][f] ELSE IF r = "root" THEN Absent ELSE at[r][x]
    <3>1. PICK p, q : p = "root" /\ q = "group"
      OBVIOUS
    <3>2. PICK a : a = at
      OBVIOUS
    <3>3. a \in Trees /\ p \in Places /\ q \in Places /\ p # q /\ f \in Entries
      BY <2>2, <3>1, <3>2
    <3>4. \A r \in Places, x \in Entries : Move(a, p, q, f)[r][x] =
             IF x # f THEN a[r][x] ELSE IF r = q THEN a[p][f] ELSE IF r = p THEN Absent ELSE a[r][x]
      BY <3>3, MoveAt
    <3>5. QED
      BY <3>1, <3>2, <3>4
  <2>5. \A x \in Entries : at'["root"][x] \in {at["root"][x], Absent} /\ (x = "gen" => at'["group"][x] = at["group"][x])
    BY <2>1, <2>2, <2>4
  <2>6. Orderly
    BY <1>1, <2>5, Known DEF Orderly, Legacy, Tree, Stored, Reported, Steps, Moving, Fixing, Decided, Relocating, Replaying
  <2>7. Faithful
    BY <1>1, <2>2, <2>5 DEF Faithful, Tree, Adopted, Relocating
  <2>8. QED
    BY <2>3, <2>6, <2>7, FileStep
<1>4. QED
  BY <1>2, <1>3

\* Every call of the two migrations keeps the files accounted for.
LEMMA WorkspaceTree == ASSUME Tree, WorkspaceStep PROVE Tree'
  BY migrateTree, CreateDbDirTree, FailsTree, CreateDbParentTree, WalRootTree, MoveItemTree, MoveUnrecognizedTree,
     MoveWalDirTree, CopyTree, MergeTree, TornTree, RetireTree, FixTree, AdoptTree, EnsureTree, RelocateTree DEF WorkspaceStep

-----------------------------------------------------------------------------
(* The files, under everything else a start and the handlers do.           *)

\* Only the database in its final place, and its log, are written.
LcgOnly(a) == /\ a \in Trees
              /\ \A p \in Places, e \in Entries : a[p][e] # at[p][e] => p = "lcg" /\ e \in {"db", "dbwal"}

\* Nothing is written.
LEMMA LcgKept == ASSUME Tree PROVE LcgOnly(at)
  BY Known DEF LcgOnly

\* One more file of the database is written.
LEMMA LcgPut ==
  ASSUME NEW a, LcgOnly(a), NEW e \in {"db", "dbwal"}, NEW c \in Contents
  PROVE  LcgOnly(Put(a, "lcg", e, c))
<1>0. a \in Trees
  BY DEF LcgOnly
<1>1. "lcg" \in Places /\ e \in Entries
  BY DEF Places, Entries, Items
<1>2. Put(a, "lcg", e, c) \in Trees /\ \A q \in Places, x \in Entries :
         Put(a, "lcg", e, c)[q][x] = IF q = "lcg" /\ x = e THEN c ELSE a[q][x]
  BY <1>0, <1>1, PutAt
<1>3. QED
  BY <1>2 DEF LcgOnly

\* Db::open creates the files that are missing.
LEMMA LcgCreated == ASSUME Tree PROVE LcgOnly(Created)
<1>1. at \in Trees /\ "lcg" \in Places /\ {"db", "dbwal"} \subseteq Entries /\ "fresh" \in Contents
  BY Known DEF Contents
<1>2. PICK c, w : /\ c = IF at["lcg"]["db"] = Absent THEN "fresh" ELSE at["lcg"]["db"]
                  /\ w = IF at["lcg"]["dbwal"] = Absent THEN "fresh" ELSE at["lcg"]["dbwal"]
  OBVIOUS
<1>3. c \in Contents /\ w \in Contents
  BY <1>1, <1>2 DEF Trees
<1>4. Created = Put(Put(at, "lcg", "db", c), "lcg", "dbwal", w)
  BY <1>1, <1>2 DEF Created, Put, Trees
<1>5. QED
  BY <1>3, <1>4, LcgKept, LcgPut

\* A step beyond the migrations, on the files of the database only.
LEMMA LcgTree ==
  ASSUME Tree, LcgOnly(at'), dirs' = dirs, UNCHANGED envVars, faults' \in Nat,
         boot' \in {"down", "migrate", "exited"} \/ (boot \in Decided /\ outcome' = outcome /\ boot' \in Decided \ Relocating)
  PROVE  Tree'
<1>1. Careful(at') /\ \A f \in WalFiles, p \in Places : at'[p][f] = at[p][f]
  BY Aside DEF LcgOnly
<1>2. \A e \in Entries : at'["root"][e] = at["root"][e] /\ at'["group"][e] = at["group"][e]
  BY Known DEF LcgOnly
<1>3. Orderly
  BY <1>1, <1>2, Known DEF Orderly, Legacy, Tree, Stored, Reported, Steps, Moving, Fixing, Decided, Relocating, Replaying
<1>4. Faithful
  BY <1>2, Known DEF Faithful, Tree, Adopted, Decided, Relocating, Replaying
<1>5. QED
  BY <1>1, <1>3, <1>4, FileStep

\* The start before and after its migrations.
LEMMA StartTree ==
  ASSUME Tree, Start \/ ProbeEmbedder \/ OpenDb \/ OpenDbFails \/ BackfillPosition
  PROVE  Tree'
<1>1. LcgOnly(at')
  BY LcgKept, LcgCreated DEF Start, ProbeEmbedder, OpenDb, OpenDbFails, BackfillPosition, fileVars
<1>2. dirs' = dirs /\ UNCHANGED envVars /\ faults' \in Nat
  BY Known DEF Start, ProbeEmbedder, OpenDb, OpenDbFails, BackfillPosition, fileVars
<1>3. boot' \in {"down", "migrate", "exited"} \/ (boot \in Decided /\ outcome' = outcome /\ boot' \in Decided \ Relocating)
  BY DEF Start, ProbeEmbedder, OpenDb, OpenDbFails, BackfillPosition, Decided, Relocating, Replaying
<1>4. QED
  BY <1>1, <1>2, <1>3, LcgTree

\* The self-recovery, step by step.
LEMMA RecoveryTree ==
  ASSUME Tree, CheckpointDrop \/ FullRebuild \/ ReplayLine \/ ReplayGroupDone \/ PostReplay \/ PersistPositions
               \/ RecoveryFails
  PROVE  Tree'
<1>0. "fresh" \in Contents
  BY DEF Contents
<1>1. LcgOnly(at')
  <2>1. LcgOnly(at) /\ LcgOnly(Put(at, "lcg", "dbwal", "fresh"))
    BY <1>0, LcgKept, LcgPut
  <2>2. LcgOnly(Put(at, "lcg", "db", "fresh"))
    BY <1>0, <2>1, LcgPut
  <2>3. LcgOnly(Put(Put(at, "lcg", "db", "fresh"), "lcg", "dbwal", "fresh"))
    BY <1>0, <2>2, LcgPut
  <2>4. QED
    BY <2>1, <2>3 DEF CheckpointDrop, FullRebuild, ReplayLine, ReplayGroupDone, PostReplay, PersistPositions, RecoveryFails,
       workspaceVars, fileVars
<1>2. dirs' = dirs /\ UNCHANGED envVars /\ faults' \in Nat
  BY Known DEF CheckpointDrop, FullRebuild, ReplayLine, ReplayGroupDone, PostReplay, PersistPositions, RecoveryFails,
       workspaceVars, fileVars
<1>3. boot \in Decided /\ outcome' = outcome /\ boot' \in Decided \ Relocating
  BY DEF CheckpointDrop, FullRebuild, ReplayLine, ReplayGroupDone, PostReplay, PersistPositions, RecoveryFails,
       workspaceVars, Recovering, Settle, Decided, Relocating, Replaying
<1>4. QED
  BY <1>1, <1>2, <1>3, LcgTree

\* The knowledge_recover handlers.
LEMMA HandlerTree ==
  ASSUME Tree, \/ handle_knowledge_recover_full \/ recover_rebuild_from_workspace_wal
               \/ recover_drop_lbug_wal \/ recover_restore_from_backup
  PROVE  Tree'
<1>0. "fresh" \in Contents /\ "ours" \in Contents
  BY DEF Contents
<1>1. LcgOnly(at')
  <2>1. LcgOnly(at)
    BY LcgKept
  <2>2. LcgOnly(Put(at, "lcg", "db", "fresh")) /\ LcgOnly(Put(at, "lcg", "db", "ours"))
    BY <1>0, <2>1, LcgPut
  <2>3. /\ LcgOnly(Put(Put(at, "lcg", "db", "fresh"), "lcg", "dbwal", "fresh"))
        /\ LcgOnly(Put(Put(at, "lcg", "db", "ours"), "lcg", "dbwal", "fresh"))
    BY <1>0, <2>2, LcgPut
  <2>4. QED
    BY <2>1, <2>3 DEF handle_knowledge_recover_full, recover_rebuild_from_workspace_wal, recover_drop_lbug_wal,
       recover_restore_from_backup, RollBack, fileVars
<1>2. dirs' = dirs /\ UNCHANGED envVars /\ faults' \in Nat
  BY Known DEF handle_knowledge_recover_full, recover_rebuild_from_workspace_wal, recover_drop_lbug_wal,
       recover_restore_from_backup, RollBack, fileVars
<1>3. boot \in Decided /\ outcome' = outcome /\ boot' \in Decided \ Relocating
  BY DEF handle_knowledge_recover_full, recover_rebuild_from_workspace_wal, recover_drop_lbug_wal,
       recover_restore_from_backup, RollBack, RecoverAllowed, Settle, Decided, Relocating, Replaying
<1>4. QED
  BY <1>1, <1>2, <1>3, LcgTree

\* Writes, checkpoints, the first writer of a stream, crashes and restarts.
LEMMA AroundTree ==
  ASSUME Tree, (\E g \in Groups : Write(g)) \/ Checkpoint \/ WriterOpens \/ Crash \/ Restart
  PROVE  Tree'
<1>1. CASE WriterOpens
  <2>1. at' = Ensured /\ boot = "ready" /\ boot' = boot /\ UNCHANGED <<outcome, envVars, faults>>
        /\ dirs' = dirs \cup {"wal_root", "group"}
    BY <1>1 DEF WriterOpens
  <2>2. /\ Careful(at')
        /\ at["group"]["gen"] = "ours" => at'["group"]["gen"] = "ours"
        /\ at'["root"]["gen"] = at["root"]["gen"]
        /\ \A f \in WalFiles : at'["root"][f] = at["root"][f]
    BY <2>1, EnsuredAt DEF Places
  <2>3. Orderly
    BY <2>1, <2>2 DEF Orderly, Legacy, Tree, Stored, Reported, Steps, Moving, Fixing, Decided, Relocating, Replaying
  <2>4. Faithful
    BY <2>1, <2>2 DEF Faithful, Tree, Adopted, Relocating
  <2>5. QED
    BY <2>2, <2>3, <2>4, FileStep
<1>2. CASE (\E g \in Groups : Write(g)) \/ Checkpoint \/ Crash \/ Restart
  <2>1. LcgOnly(at')
    <3>1. LcgOnly(Put(at, "lcg", "dbwal", "torn"))
      BY LcgKept, LcgPut DEF Contents
    <3>2. QED
      BY <1>2, <3>1, LcgKept DEF Write, Checkpoint, Crash, Restart, workspaceVars, fileVars
  <2>2. dirs' = dirs /\ UNCHANGED envVars /\ faults' \in Nat
    BY <1>2, Known DEF Write, Checkpoint, Crash, Restart, workspaceVars, fileVars
  <2>3. boot' \in {"down", "migrate", "exited"} \/ (boot \in Decided /\ outcome' = outcome /\ boot' \in Decided \ Relocating)
    BY <1>2 DEF Write, Checkpoint, Crash, Restart, workspaceVars, Decided, Relocating, Replaying
  <2>4. QED
    BY <2>1, <2>2, <2>3, LcgTree
<1>3. QED
  BY <1>1, <1>2

\* Every step keeps the files accounted for.
LEMMA TreeStep == Tree /\ [Next]_vars => Tree'
<1>1. ASSUME Tree, UNCHANGED vars PROVE Tree'
  BY <1>1 DEF Tree, Stored, Reported, Adopted, NothingLost, Legacy, vars, workspaceVars, fileVars, envVars
<1>2. QED
  BY <1>1, WorkspaceTree, StartTree, RecoveryTree, HandlerTree, AroundTree DEF Next, BootStep

-----------------------------------------------------------------------------
(* The databases.                                                          *)

\* The streams are the same while nothing is written to them.
LEMMA SameLog == ASSUME origin' = origin, stream' = stream PROVE Written' = Written
  BY DEF Written

\* A database that is not touched stays sound.
LEMMA Kept ==
  ASSUME Data, UNCHANGED dbVars, origin' = origin, overtaken \subseteq overtaken', Calm' => Calm
  PROVE  /\ Written' = Written /\ Saved'
         /\ Filled /\ (boot = "replay" => boot' = "replay" \/ ~Calm') => Filled'
<1>1. Written' = Written /\ disk' = disk /\ ckpt' = ckpt /\ backup' = backup
  BY SameLog DEF dbVars
<1>2. ASSUME NEW d, Sound(d, Written, overtaken) PROVE Sound(d, Written', overtaken')
  BY <1>1, <1>2, SoundPast
<1>3. Saved'
  <2>1. Saved
    BY DEF Data
  <2>2. QED
    BY <1>1, <1>2, <2>1 DEF Saved
<1>4. ASSUME Filled, boot = "replay" => boot' = "replay" \/ ~Calm' PROVE Filled'
  <2>1. Sound(disk, Written', overtaken') /\ Sound(ckpt, Written', overtaken')
    BY <1>2, <1>4 DEF Filled
  <2>2. QED
    BY <1>1, <1>4, <2>1 DEF Filled
<1>5. QED
  BY <1>1, <1>3, <1>4

Cleared == work' = [g \in Groups |-> {}] /\ done' = NoPositions

\* No replay is under way after the step.
LEMMA Idle ==
  ASSUME Replayed, boot' \notin {"replay", "persist"}, UNCHANGED <<work, done>> \/ Cleared
  PROVE  Replayed'
  BY DEF Replayed, Cleared, NoPositions

\* A step that leaves the databases alone.
LEMMA Quiet ==
  ASSUME Data, UNCHANGED <<dbVars, overtaken, writes>>, origin' = origin, crashes' \in Nat, Calm' => Calm,
         boot' \notin {"replay", "persist"}, boot = "replay" => ~Calm', UNCHANGED <<work, done>> \/ Cleared,
         live' \in BOOLEAN, indices' \in BOOLEAN, healed' \in BOOLEAN,
         degraded' \in {None, "migration_failed", "embedder_unreachable", "lbug_wal_corrupt"},
         caller' \in {None, "boot", "full", "rebuild_from_workspace_wal"}, Healed', Blank => Blank'
  PROVE  Data'
<1>1. Saved' /\ (Filled => Filled')
  BY Kept
<1>2. Replayed'
  BY Idle DEF Data
<1>3. Running'
  BY DEF Data, Running, dbVars
<1>4. QED
  BY <1>1, <1>2, <1>3 DEF Data

\* Where the migrations are while they run.
Migrating == {"migrate", "parent", "walroot", "adopt"} \cup Moving \cup Fixing \cup Relocating

\* The migrations run between the start and the opening of the database.
LEMMA WhereMigrating ==
  ASSUME WorkspaceStep
  PROVE  /\ boot \in Migrating /\ boot' \in Migrating \cup {"probe", "open", "exited"}
         /\ UNCHANGED envVars /\ faults' \in {faults, faults + 1}
<1>1. CASE migrate_workspace \/ CreateDbDir \/ MoveUnrecognized \/ MoveWalDir \/ copy_and_remove_cross_device
           \/ merge_wal_dir_into_root
  BY <1>1 DEF migrate_workspace, Decide, CreateDbDir, MoveUnrecognized, MoveWalDir, copy_and_remove_cross_device,
     merge_wal_dir_into_root, Migrating, Moving, Fixing, Relocating
<1>2. CASE MoveItem \/ MoveItemFails
  BY <1>2 DEF MoveItem, MoveItemFails, FailMigration, Fail, Moved, NextMove, Migrating, Moving, Fixing, Relocating
<1>3. CASE \/ MoveWalFails \/ MergeCopyTorn \/ ValidateDb \/ ValidateDbFails \/ RetireLegacy
           \/ fix_broken_lcg_layout \/ FixLayoutFails
  BY <1>3 DEF MoveWalFails, MergeCopyTorn, ValidateDb, ValidateDbFails, RetireLegacy, fix_broken_lcg_layout, FixLayoutFails,
     FailMigration, Fail, Decide, Migrating, Moving, Fixing, Relocating
<1>4. CASE CreateDbParent \/ migrate_wal_root_if_needed \/ AdoptGeneration \/ ensure_generation \/ RelocateLoose
           \/ WalRootFails
  BY <1>4 DEF CreateDbParent, migrate_wal_root_if_needed, AdoptGeneration, ensure_generation, RelocateLoose,
     WalRootFails, Fail, Migrating, Moving, Fixing, Relocating
<1>5. QED
  BY <1>1, <1>2, <1>3, <1>4 DEF WorkspaceStep

\* An empty workspace is not migrated, only given its directories.
LEMMA BlankMigrated ==
  ASSUME Tree, Blank, WorkspaceStep, UNCHANGED recoveryVars
  PROVE  Blank'
<1>1. boot \notin Moving \cup Fixing
  BY DEF Blank
<1>2. migrate_workspace \/ CreateDbParent \/ migrate_wal_root_if_needed \/ AdoptGeneration \/ ensure_generation
      \/ RelocateLoose \/ WalRootFails
  BY <1>1 DEF WorkspaceStep, CreateDbDir, MoveItem, MoveItemFails, MoveUnrecognized, MoveWalDir, copy_and_remove_cross_device,
     merge_wal_dir_into_root, MoveWalFails, MergeCopyTorn, ValidateDb, ValidateDbFails, RetireLegacy, fix_broken_lcg_layout, FixLayoutFails,
     Moved, Moving, Fixing
<1>3. disk' = None /\ ckpt' = None /\ ~live'
  BY DEF Blank, recoveryVars, dbVars, stateVars
<1>4. ~Legacy' /\ boot' \notin Moving \cup Fixing \cup Replaying \cup {"position"} /\ boot' # "ready"
  BY <1>2 DEF Blank, Legacy, migrate_workspace, Decide, CreateDbParent, migrate_wal_root_if_needed, AdoptGeneration,
     ensure_generation, RelocateLoose, WalRootFails, Fail, fileVars, Moving, Fixing, Replaying
<1>5. boot' \in Decided => outcome' # "failed"
  BY <1>2 DEF Blank, Legacy, migrate_workspace, Decide, CreateDbParent, migrate_wal_root_if_needed, AdoptGeneration,
     ensure_generation, RelocateLoose, WalRootFails, Fail, fileVars, Decided, Relocating, Replaying
<1>6. at'["flat"]["db"] = at["flat"]["db"] /\ at'["lcg"]["db"] = at["lcg"]["db"] /\ at'["lcg"]["dbwal"] = at["lcg"]["dbwal"]
  <2>1. at \in Trees /\ {"flat", "lcg", "root", "group"} \subseteq Places /\ {"db", "dbwal", "gen"} \subseteq Entries
        /\ Absent \in Contents /\ at["root"]["gen"] \in Contents
    BY Known DEF Trees
  <2>0. at \in Trees
    BY <2>1
  <2>2. CASE at' = at
    BY <2>2
  <2>3. CASE \E r \in {"root", "group"}, c \in Contents : at' = Put(at, r, "gen", c)
    <3>1. PICK r \in {"root", "group"}, c \in Contents : at' = Put(at, r, "gen", c)
      BY <2>3
    <3>2. r \in Places /\ "gen" \in Entries
      BY <2>1
    <3>3. \A q \in Places, x \in Entries : Put(at, r, "gen", c)[q][x] = IF q = r /\ x = "gen" THEN c ELSE at[q][x]
      BY <2>0, <3>2, PutAt
    <3>4. QED
      BY <2>1, <3>1, <3>3
  <2>4. CASE at' = Put(at, "group", "gen", at["root"]["gen"]) \/ at' = Put(at, "root", "gen", Absent)
    BY <2>1, <2>3, <2>4
  <2>5. CASE at' = Ensured
    BY <2>1, <2>5, EnsuredAt
  <2>6. CASE \E f \in WalFiles : at' = Move(at, "root", "group", f)
    <3>1. PICK f \in WalFiles : at' = Move(at, "root", "group", f)
      BY <2>6
    <3>2. f \in Entries /\ f # "db" /\ f # "dbwal" /\ "root" \in Places /\ "group" \in Places
      BY Known
    <3>3. \A r \in Places, x \in Entries : Move(at, "root", "group", f)[r][x] =
             IF x # f THEN at[r][x] ELSE IF r = "group" THEN at["root"][f] ELSE IF r = "root" THEN Absent ELSE at[r][x]
      BY <2>0, <3>2, MoveAt
    <3>4. QED
      BY <2>1, <3>1, <3>2, <3>3
  <2>7. QED
    BY <1>2, <2>2, <2>3, <2>4, <2>5, <2>6 DEF migrate_workspace, Decide, CreateDbParent, migrate_wal_root_if_needed,
       AdoptGeneration, ensure_generation, RelocateLoose, WalRootFails, Fail, fileVars
<1>7. QED
  BY <1>3, <1>4, <1>5, <1>6 DEF Blank

\* The migrations leave the databases alone.
LEMMA WorkspaceData == ASSUME Tree, Data, WorkspaceStep, UNCHANGED recoveryVars PROVE Data'
<1>1. /\ boot \in Migrating /\ boot' \in Migrating \cup {"probe", "open", "exited"}
      /\ origin' = origin /\ faults' \in {faults, faults + 1} /\ faults \in Nat
  BY WhereMigrating, Known DEF envVars
<1>2. boot \notin {"down", "ready", "replay"} \cup Replaying /\ boot' \notin {"ready"} \cup Replaying
  BY <1>1 DEF Migrating, Moving, Fixing, Relocating, Replaying
<1>3. UNCHANGED <<dbVars, stateVars, runVars, histVars, writes, crashes, cutShort>>
  BY DEF recoveryVars
<1>4. Healed'
  BY <1>2, <1>3 DEF Data, Healed, histVars
<1>5. QED
  BY <1>1, <1>2, <1>3, <1>4, BlankMigrated, Quiet
     DEF Data, Running, Calm, stateVars, runVars, histVars, Replaying

\* A start begins, probes its embedder, or does not open its database.
LEMMA StartData == ASSUME Tree, Data, Start PROVE Data'
<1>1. Blank => Blank'
  BY DEF Start, Blank, Legacy, fileVars, dbVars, stateVars, Moving, Fixing, Replaying, Decided, Relocating
<1>2. QED
  BY <1>1, Quiet DEF Start, Data, Running, Healed, Calm, fileVars, envVars, dbVars, stateVars, runVars, Replaying

\* The embedder answers, fails, or is probed until the deadline.
LEMMA ProbeData == ASSUME Tree, Data, ProbeEmbedder PROVE Data'
<1>1. /\ boot = "probe" /\ boot' \in {"probe", "walroot", "exited", "ready"}
      /\ UNCHANGED <<fileVars, outcome, envVars, faults, dbVars, runVars, histVars, writes, crashes, cutShort>>
      /\ UNCHANGED stateVars \/ (live' = FALSE /\ indices' = FALSE /\ degraded' \in {PreMigration, "embedder_unreachable"})
      /\ boot' = "ready" => live' = FALSE /\ degraded' = IF PreMigration # None THEN PreMigration ELSE "embedder_unreachable"
  BY DEF ProbeEmbedder, stateVars
<1>2. Blank => Blank'
  BY <1>1 DEF Blank, Legacy, PreMigration, fileVars, dbVars, stateVars, Moving, Fixing, Replaying, Decided, Relocating
<1>3. Healed'
  BY <1>1 DEF Data, Healed, histVars, runVars, Replaying
<1>4. live' \in BOOLEAN /\ indices' \in BOOLEAN
      /\ degraded' \in {None, "migration_failed", "embedder_unreachable", "lbug_wal_corrupt"}
  BY <1>1 DEF Data, Running, stateVars, PreMigration
<1>5. QED
  BY <1>1, <1>2, <1>3, <1>4, Quiet DEF Data, Running, Calm, envVars, histVars, runVars

\* Db::open fails: with a torn log the self-recovery begins.
LEMMA OpenFailsData == ASSUME Tree, Data, OpenDbFails PROVE Data'
<1>1. /\ boot = "open" /\ boot' \in {"drop", "exited"} /\ faults' \in {faults, faults + 1} /\ faults \in Nat
      /\ UNCHANGED <<fileVars, outcome, envVars, dbVars, stateVars, work, done, overtaken, writes, crashes, cutShort>>
      /\ \/ boot' = "drop" /\ caller' = "boot" /\ healed' = TRUE /\ TornLog
         \/ boot' = "exited" /\ UNCHANGED <<caller, healed>>
  BY Known DEF OpenDbFails
<1>2. Blank => Blank'
  <2>1. TornLog => at["lcg"]["dbwal"] # Absent
    BY DEF TornLog
  <2>2. QED
    BY <1>1, <2>1 DEF Blank, Legacy, fileVars, dbVars, stateVars, Moving, Fixing, Replaying, Decided, Relocating
<1>3. Healed'
  <2>1. (boot' = "drop" /\ caller' = "boot") \/ (boot' = "exited" /\ ~healed')
    <3>1. ~healed
      <4>1. boot \notin {"down", "ready"} \cup Replaying
        BY <1>1 DEF Replaying
      <4>2. healed => boot \in {"down", "ready"} \cup Replaying
        BY DEF Data, Healed
      <4>3. QED
        BY <4>1, <4>2
    <3>2. CASE boot' = "drop" /\ caller' = "boot"
      BY <3>2
    <3>3. CASE boot' = "exited" /\ UNCHANGED <<caller, healed>>
      <4>1. healed' = healed
        BY <3>3
      <4>2. QED
        BY <3>1, <3>3, <4>1
    <3>4. QED
      BY <1>1, <3>2, <3>3
  <2>2. CASE boot' = "drop" /\ caller' = "boot"
    BY <2>2 DEF Healed, Replaying
  <2>3. CASE boot' = "exited" /\ ~healed'
    BY <2>3 DEF Healed, Replaying
  <2>4. QED
    BY <2>1, <2>2, <2>3
<1>4. /\ live' \in BOOLEAN /\ indices' \in BOOLEAN /\ healed' \in BOOLEAN
      /\ degraded' \in {None, "migration_failed", "embedder_unreachable", "lbug_wal_corrupt"}
      /\ caller' \in {None, "boot", "full", "rebuild_from_workspace_wal"}
  BY <1>1 DEF Data, Running, stateVars
<1>5. UNCHANGED <<dbVars, overtaken, writes>> /\ origin' = origin /\ crashes' \in Nat /\ (Calm' => Calm)
      /\ UNCHANGED <<work, done>> /\ boot' \notin {"replay", "persist"} /\ boot # "replay"
  BY <1>1 DEF envVars, Data, Running, Calm
<1>6. QED
  BY <1>2, <1>3, <1>4, <1>5, Quiet

\* knowledge_recover_full takes the handler's lock.
LEMMA FullData == ASSUME Tree, Data, handle_knowledge_recover_full PROVE Data'
<1>1. ~Blank
  BY DEF Blank, handle_knowledge_recover_full, RecoverAllowed
<1>2. Healed'
  <2>1. boot' = "drop" /\ caller' = "full" /\ ~live'
    BY DEF handle_knowledge_recover_full
  <2>2. QED
    BY <2>1 DEF Healed, Replaying
<1>3. QED
  BY <1>1, <1>2, Quiet DEF handle_knowledge_recover_full, RecoverAllowed, Data, Running, Calm, envVars, histVars

\* The replay or an index build fails: degraded at a start, unchanged in a handler.
LEMMA RecoveryFailsData == ASSUME Tree, Data, RecoveryFails PROVE Data'
<1>1. /\ boot \in {"replay", "persist"} /\ boot' = "ready" /\ faults \in Nat /\ faults' = faults + 1 /\ Cleared
      /\ caller' = None /\ UNCHANGED <<fileVars, outcome, envVars, dbVars, histVars, writes, crashes>>
      /\ IF caller = "boot" THEN live' = FALSE /\ indices' = FALSE /\ degraded' \in {PreMigration, "lbug_wal_corrupt"}
         ELSE UNCHANGED stateVars
  BY Known DEF RecoveryFails, Cleared
<1>2. ~Blank /\ (Calm' => Calm) /\ (boot = "replay" => ~Calm')
  BY <1>1 DEF RecoveryFails, Blank, Calm, Replaying
<1>3. Healed'
  BY <1>1 DEF Data, Running, Healed, histVars, stateVars, Replaying
<1>4. live' \in BOOLEAN /\ indices' \in BOOLEAN
      /\ degraded' \in {None, "migration_failed", "embedder_unreachable", "lbug_wal_corrupt"}
  BY <1>1 DEF Data, Running, stateVars, PreMigration
<1>5. QED
  BY <1>1, <1>2, <1>3, <1>4, Quiet DEF Data, Running, envVars, histVars

\* The first writer of the default group ensures its generation.
LEMMA WriterData == ASSUME Tree, Data, WriterOpens PROVE Data'
<1>1. boot = "ready" /\ boot' = boot /\ live /\ UNCHANGED <<outcome, envVars, faults, recoveryVars>>
  BY DEF WriterOpens
<1>2. ~Blank
  BY <1>1 DEF Blank
<1>3. Healed'
  <2>1. UNCHANGED <<caller, live, healed, overtaken, disk>> /\ Written' = Written
    BY <1>1, SameLog DEF recoveryVars, dbVars, stateVars, runVars, histVars, envVars
  <2>2. QED
    BY <1>1, <2>1 DEF Data, Healed, Complete
<1>4. QED
  BY <1>1, <1>2, <1>3, Quiet DEF Data, Running, Calm, envVars, recoveryVars, dbVars, stateVars, runVars, histVars

\* The process dies, or is started again.
LEMMA CrashData == ASSUME Tree, Data, Crash \/ Restart PROVE Data'
<1>1. /\ boot' = "down" /\ crashes' = crashes + 1 /\ crashes \in Nat /\ caller' \in {caller, None}
      /\ UNCHANGED <<dirs, outcome, envVars, faults, disk, ckpt, backup, stream, histVars, writes>>
      /\ live' \in {live, FALSE} /\ indices' \in {indices, FALSE} /\ degraded' \in {degraded, None}
      /\ UNCHANGED <<work, done>> \/ Cleared
  BY DEF Crash, Restart, fileVars, dbVars, stateVars, runVars, Cleared, Data, Running
<1>2. Blank => Blank'
  <2>1. Blank => at' = at
    BY DEF Crash, Restart, Blank, fileVars
  <2>2. QED
    BY <1>1, <2>1 DEF Blank, Legacy, Moving, Fixing, Replaying, Decided, Relocating
<1>3. (Calm' => Calm) /\ (boot = "replay" => ~Calm')
  <2>1. CASE Crash
    <3>1. cutShort' = (cutShort \/ boot = "replay")
      BY <2>1 DEF Crash
    <3>2. QED
      BY <3>1 DEF Calm
  <2>2. CASE Restart
    <3>1. cutShort' = cutShort /\ boot = "exited"
      BY <2>2 DEF Restart
    <3>2. QED
      BY <3>1 DEF Calm
  <2>3. QED
    BY <2>1, <2>2
<1>4. Healed'
  <2>1. boot' = "down"
    BY <1>1
  <2>2. QED
    BY <2>1 DEF Healed, Replaying
<1>5. /\ live' \in BOOLEAN /\ indices' \in BOOLEAN /\ healed' \in BOOLEAN
      /\ degraded' \in {None, "migration_failed", "embedder_unreachable", "lbug_wal_corrupt"}
      /\ caller' \in {None, "boot", "full", "rebuild_from_workspace_wal"}
  BY <1>1 DEF Data, Running, histVars
<1>6. UNCHANGED <<dbVars, overtaken, writes>> /\ origin' = origin /\ crashes' \in Nat
  BY <1>1 DEF dbVars, histVars, envVars
<1>7. boot' \notin {"replay", "persist"}
  BY <1>1
<1>8. QED
  BY <1>1, <1>2, <1>3, <1>4, <1>5, <1>6, <1>7, Quiet

\* The database opens.
LEMMA OpenData == ASSUME Tree, Data, OpenDb PROVE Data'
<1>1. /\ boot = "open" /\ boot' = "position" /\ disk' \in InitSchema(Opened)
      /\ ckpt' = IF at["lcg"]["db"] = Absent THEN EmptyDb ELSE ckpt
      /\ UNCHANGED <<envVars, faults, backup, stream, stateVars, runVars, histVars, writes, crashes, cutShort>>
  BY DEF OpenDb
<1>2. Written' = Written /\ overtaken' = overtaken /\ (Calm' <=> Calm)
  BY <1>1, SameLog DEF envVars, histVars, Calm
<1>3. PICK d : d = Opened
  OBVIOUS
<1>4. /\ Sound(d, Written, overtaken) /\ (Calm => Trusted(d))
      /\ Sound(ckpt', Written, overtaken) /\ (Calm => Trusted(ckpt'))
  <2>1. Sound(EmptyDb, Written, overtaken) /\ Trusted(EmptyDb)
    BY SoundEmpty
  <2>2. CASE at["lcg"]["db"] = Absent
    BY <1>1, <1>3, <2>1, <2>2 DEF Opened
  <2>3. CASE at["lcg"]["db"] # Absent
    <3>1. Filled
      BY <2>3 DEF Data, Blank
    <3>2. (d = ckpt \/ d = disk) /\ ckpt' = ckpt
      BY <1>1, <1>3, <2>3 DEF Opened
    <3>3. QED
      BY <1>1, <3>1, <3>2 DEF Filled
  <2>4. QED
    BY <2>2, <2>3
<1>5. Sound(disk', Written, overtaken) /\ (Calm => Trusted(disk'))
  BY <1>1, <1>3, <1>4, SoundSchema
<1>6. Filled'
  BY <1>2, <1>4, <1>5 DEF Filled
<1>7. Saved'
  BY <1>1, <1>2 DEF Data, Saved
<1>8. Replayed'
  BY <1>1, Idle DEF Data, runVars
<1>9. Running'
  BY <1>1 DEF Data, Running, stateVars, histVars, runVars
<1>10. Healed'
  <2>1. ~healed
    <3>1. boot \notin {"down", "ready"} \cup Replaying
      BY <1>1 DEF Replaying
    <3>2. healed => boot \in {"down", "ready"} \cup Replaying
      BY DEF Data, Healed
    <3>3. QED
      BY <3>1, <3>2
  <2>2. healed' = healed /\ boot' = "position"
    BY <1>1 DEF histVars
  <2>3. QED
    BY <2>1, <2>2 DEF Healed, Replaying
<1>11. QED
  BY <1>6, <1>7, <1>8, <1>9, <1>10 DEF Data

\* The position of the default group is found, and the service is up.
LEMMA BackfillData == ASSUME Tree, Data, BackfillPosition PROVE Data'
<1>1. /\ boot = "position" /\ boot' = "ready" /\ live' = TRUE /\ indices' = TRUE /\ degraded' = PreMigration
      /\ UNCHANGED <<envVars, faults, ckpt, backup, stream, runVars, histVars, writes, crashes, cutShort>>
  BY DEF BackfillPosition
<1>2. Written' = Written /\ overtaken' = overtaken /\ (Calm' <=> Calm)
  BY <1>1, SameLog DEF envVars, histVars, Calm
<1>3. Filled
  BY <1>1 DEF Data, Blank
<1>4. PICK d : d = MigrateSingleton(disk)
  OBVIOUS
<1>5. Sound(d, Written, overtaken) /\ (Trusted(disk) <=> Trusted(d))
  BY <1>3, <1>4, SoundMigrated DEF Filled
<1>6. PICK p \in backfill_applied_seq_if_absent(d, DefaultGroup) : disk' = [d EXCEPT !.posn[DefaultGroup] = p]
  BY <1>4 DEF BackfillPosition
<1>7. Written \in Logs /\ DefaultGroup \in Groups
  BY WrittenLogs DEF Data
<1>8. p \in Seqs \cup {None} /\ (DefaultGroup \notin overtaken => HonestAt(d, Written, DefaultGroup, p))
  BY <1>5, <1>7, SoundBackfill
<1>9. Sound(disk', Written, overtaken) /\ (Trusted(d) <=> Trusted(disk'))
  BY <1>5, <1>6, <1>7, <1>8, SoundAt
<1>10. Filled'
  <2>1. (Calm => Trusted(disk)) /\ Sound(ckpt, Written, overtaken) /\ (Calm => Trusted(ckpt))
    BY <1>1, <1>3 DEF Filled
  <2>2. QED
    BY <1>1, <1>2, <1>5, <1>9, <2>1 DEF Filled
<1>11. Saved'
  BY <1>1, <1>2 DEF Data, Saved
<1>12. Replayed'
  BY <1>1, Idle DEF Data, runVars
<1>13. Running'
  BY <1>1 DEF Data, Running, PreMigration, histVars, runVars
<1>14. Healed'
  <2>1. ~healed
    <3>1. boot \notin {"down", "ready"} \cup Replaying
      BY <1>1 DEF Replaying
    <3>2. healed => boot \in {"down", "ready"} \cup Replaying
      BY DEF Data, Healed
    <3>3. QED
      BY <3>1, <3>2
  <2>2. healed' = healed /\ boot' = "ready"
    BY <1>1 DEF histVars
  <2>3. QED
    BY <2>1, <2>2 DEF Healed, Replaying
<1>15. QED
  BY <1>10, <1>11, <1>12, <1>13, <1>14 DEF Data

-----------------------------------------------------------------------------
(* The self-recovery.                                                      *)

\* What hides files from a replay is remembered.
LEMMA PastGrows == overtaken \subseteq ReplaysPast /\ (DefaultGroup \notin ReplaysPast => DefaultGroup \notin overtaken)
  BY DEF ReplaysPast

\* A replay of every group begins over a new database.
LEMMA FromNothing ==
  ASSUME Tree, Data, overtaken' = ReplaysPast, disk' \in InitSchema(EmptyDb), ckpt' = EmptyDb,
         UNCHANGED <<envVars, backup, stream>>, work' = [g \in Groups |-> Lines(g)], done' = NoPositions,
         boot' = "replay", Calm' => Calm
  PROVE  Filled' /\ Saved' /\ Replayed'
<1>1. Written' = Written /\ Written \in Logs
  BY SameLog, WrittenLogs DEF envVars, Data
<1>2. Sound(ckpt', Written', overtaken') /\ Trusted(ckpt')
  BY SoundEmpty
<1>3. Sound(disk', Written', overtaken') /\ disk'.rows = EmptyDb.rows
  <2>1. PICK e : e = EmptyDb
    OBVIOUS
  <2>2. Sound(e, Written', overtaken') /\ disk' \in InitSchema(e)
    BY <2>1, SoundEmpty
  <2>3. QED
    BY <2>1, <2>2, SoundSchema
<1>4. Filled'
  BY <1>2, <1>3 DEF Filled
<1>5. Saved'
  <2>1. ASSUME backup # None PROVE Sound(backup, Written', overtaken') /\ (Calm => Trusted(backup))
    BY <1>1, <2>1, SoundPast, PastGrows DEF Data, Saved
  <2>2. QED
    BY <2>1 DEF Saved
<1>6. \A g \in Groups : /\ Lines(g) \subseteq Written[g]
                        /\ g \notin overtaken' => Lines(g) = Written[g]
  BY Found
<1>7. Replayed'
  <2>1. work' \in [Groups -> SUBSET Seqs] /\ \A g \in Groups : work'[g] = Lines(g)
    BY <1>1, <1>6 DEF Logs
  <2>2. \A g \in Groups \ overtaken' : Ahead(disk', Written', work', g)
    BY <1>1, <1>6, <2>1 DEF Ahead
  <2>3. \A g \in Groups : work'[g] \subseteq Written'[g]
    BY <1>1, <1>6, <2>1
  <2>4. done' \in [Groups -> Seqs \cup {None}] /\ \A g \in Groups : done'[g] = None
    BY DEF NoPositions
  <2>5. QED
    BY <2>1, <2>2, <2>3, <2>4 DEF Replayed
<1>8. QED
  BY <1>4, <1>5, <1>7

\* attempt_checkpoint_drop: the checkpoint is opened, and the default group is replayed from its last episode.
LEMMA DropData == ASSUME Tree, Data, CheckpointDrop PROVE Data'
<1>1. /\ boot = "drop" /\ boot' = "replay" /\ done' = NoPositions /\ overtaken' = ReplaysPast
      /\ UNCHANGED <<outcome, envVars, faults, ckpt, backup, stream, stateVars, caller, healed, writes, crashes, cutShort>>
      /\ caller \in {"boot", "full"}
  BY DEF CheckpointDrop, Recovering
<1>2. Written' = Written /\ Written \in Logs /\ (Calm' <=> Calm) /\ DefaultGroup \in Groups
  BY <1>1, SameLog, WrittenLogs DEF envVars, Data, Calm
<1>3. PICK c : /\ disk' \in InitSchema(ckpt)
               /\ c \in derive_episode_cursor(disk', DefaultGroup)
               /\ work' = [g \in Groups |-> IF g = DefaultGroup THEN Tail(c, g) ELSE {}]
  BY DEF CheckpointDrop
<1>4. Filled
  BY <1>1 DEF Data, Blank, Replaying
<1>5. Sound(disk', Written, overtaken) /\ Sound(ckpt, Written, overtaken) /\ (Calm => Trusted(ckpt))
  BY <1>3, <1>4, SoundSchema DEF Filled
<1>6. Sound(disk', Written', overtaken') /\ Sound(ckpt', Written', overtaken')
  BY <1>1, <1>2, <1>5, SoundPast, PastGrows
<1>7. Filled'
  BY <1>1, <1>2, <1>5, <1>6 DEF Filled
<1>8. Saved'
  <2>1. ASSUME backup # None PROVE Sound(backup, Written', overtaken') /\ (Calm => Trusted(backup))
    BY <1>1, <1>2, <2>1, SoundPast, PastGrows DEF Data, Saved
  <2>2. QED
    BY <1>1, <1>2, <2>1 DEF Saved
<1>9. Replayed'
  <2>1. /\ Lines(DefaultGroup) \subseteq Written[DefaultGroup]
        /\ DefaultGroup \notin overtaken' => DefaultGroup \notin overtaken /\ Lines(DefaultGroup) = Written[DefaultGroup]
    BY <1>1, Found, PastGrows
  <2>2. /\ Tail(c, DefaultGroup) \subseteq Written[DefaultGroup]
        /\ DefaultGroup \notin overtaken' =>
             \A s \in Written[DefaultGroup] : s \in disk'.rows[DefaultGroup] \/ s \in Tail(c, DefaultGroup)
    BY <1>2, <1>3, <1>5, <2>1, CursorEarly
  <2>3. work' \in [Groups -> SUBSET Seqs] /\ \A g \in Groups : work'[g] \subseteq Written[g] /\ (g # DefaultGroup => work'[g] = {})
    BY <1>2, <1>3, <2>2 DEF Logs
  <2>4. DefaultGroup \notin overtaken' => Ahead(disk', Written', work', DefaultGroup)
    BY <1>2, <1>3, <2>2 DEF Ahead
  <2>5. done' \in [Groups -> Seqs \cup {None}] /\ \A g \in Groups : done'[g] = None
    BY <1>1 DEF NoPositions
  <2>6. QED
    BY <1>1, <1>2, <2>3, <2>4, <2>5 DEF Replayed
<1>10. Running'
  BY <1>1 DEF Data, Running, stateVars
<1>11. Healed'
  <2>1. caller = "full" => ~live
    BY <1>1 DEF Data, Healed, Replaying
  <2>2. boot' = "replay" /\ caller' = caller /\ live' = live /\ caller \in {"boot", "full"}
    BY <1>1 DEF stateVars
  <2>3. QED
    BY <2>1, <2>2 DEF Healed, Replaying
<1>12. QED
  BY <1>7, <1>8, <1>9, <1>10, <1>11 DEF Data

\* full_rebuild and knowledge_recover begin again with an empty database.
LEMMA RebuildData == ASSUME Tree, Data, FullRebuild \/ recover_rebuild_from_workspace_wal PROVE Data'
<1>1. /\ boot \in {"drop", "ready"} /\ boot' = "replay" /\ ckpt' = EmptyDb /\ done' = NoPositions
      /\ work' = [g \in Groups |-> Lines(g)] /\ disk' \in InitSchema(EmptyDb) /\ overtaken' = ReplaysPast
      /\ UNCHANGED <<envVars, backup, stream, live, degraded, writes, crashes, cutShort>> /\ indices' \in {indices, FALSE}
  BY DEF FullRebuild, recover_rebuild_from_workspace_wal, Recovering, RecoverAllowed, stateVars
<1>2. Calm' => Calm
  BY Known DEF FullRebuild, recover_rebuild_from_workspace_wal, Calm
<1>3. Filled' /\ Saved' /\ Replayed'
  BY <1>1, <1>2, FromNothing
<1>4. \/ caller' = caller /\ caller \in {"boot", "full"} /\ healed' = healed /\ boot = "drop"
      \/ caller' = "rebuild_from_workspace_wal" /\ healed' = FALSE
  BY DEF FullRebuild, recover_rebuild_from_workspace_wal, Recovering
<1>5. Running'
  BY <1>1, <1>4 DEF Data, Running
<1>6. Healed'
  BY <1>1, <1>4 DEF Data, Healed, Replaying
<1>7. QED
  BY <1>3, <1>5, <1>6 DEF Data

\* The next line of a group is applied.
LEMMA LineData == ASSUME Tree, Data, ReplayLine PROVE Data'
<1>1. /\ boot = "replay" /\ boot' = boot
      /\ UNCHANGED <<envVars, faults, ckpt, backup, stream, stateVars, caller, histVars, writes, crashes, cutShort>>
  BY DEF ReplayLine, workspaceVars
<1>2. PICK g \in Groups : /\ work[g] # {}
                          /\ disk' = Apply(disk, g, Min(work[g]))
                          /\ work' = [work EXCEPT ![g] = @ \ {Min(work[g])}]
                          /\ done' = [done EXCEPT ![g] = Min(work[g])]
  BY DEF ReplayLine
<1>3. PICK s : s = Min(work[g])
  OBVIOUS
<1>4. Written' = Written /\ overtaken' = overtaken /\ (Calm' <=> Calm) /\ Written \in Logs
  BY <1>1, SameLog, WrittenLogs DEF envVars, histVars, Calm, Data
<1>5. Filled
  BY <1>1 DEF Data, Blank, Replaying
<1>6. /\ work \in [Groups -> SUBSET Seqs] /\ done \in [Groups -> Seqs \cup {None}]
      /\ \A h \in Groups : work[h] \subseteq Written[h]
      /\ \A h \in Groups \ overtaken : (h = DefaultGroup \/ work[h] # {}) => Ahead(disk, Written, work, h)
      /\ \A h \in Groups : done[h] # None => done[h] \in disk.rows[h]
  BY <1>1 DEF Data, Replayed
<1>7. s \in work[g] /\ \A x \in work[g] : s <= x
  <2>1. work[g] \in SUBSET Nat
    BY <1>6 DEF Seqs
  <2>2. QED
    BY <1>2, <1>3, <2>1, Smallest
<1>8. s \in Written[g] /\ s \in Seqs
  BY <1>6, <1>7
<1>9. g \notin overtaken => \A r \in Written[g] : r < s => r \in disk.rows[g]
  <2>1. SUFFICES ASSUME g \notin overtaken, NEW r \in Written[g], r < s, r \notin disk.rows[g] PROVE FALSE
    OBVIOUS
  <2>2. r \in work[g]
    BY <1>2, <1>6, <2>1 DEF Ahead
  <2>3. s <= r /\ r \in Nat /\ s \in Nat
    BY <1>6, <1>7, <1>8, <2>2 DEF Seqs
  <2>4. QED
    BY <2>1, <2>3
<1>10. disk' = Apply(disk, g, s) /\ work' = [work EXCEPT ![g] = @ \ {s}] /\ done' = [done EXCEPT ![g] = s]
  BY <1>2, <1>3
<1>11. /\ Sound(disk', Written, overtaken)
       /\ \A h \in Groups : disk'.rows[h] = IF h = g THEN disk.rows[h] \cup {s} ELSE disk.rows[h]
  <2>1. Sound(disk, Written, overtaken)
    BY <1>5 DEF Filled
  <2>2. /\ Sound(Apply(disk, g, s), Written, overtaken)
        /\ \A h \in Groups : Apply(disk, g, s).rows[h] = IF h = g THEN disk.rows[h] \cup {s} ELSE disk.rows[h]
    <3>1. PICK d, log : d = disk /\ log = Written
      OBVIOUS
    <3>2. log \in Logs /\ Sound(d, log, overtaken) /\ NextFor(d, log, overtaken, g, s)
      BY <1>4, <1>8, <1>9, <2>1, <3>1 DEF NextFor
    <3>3. PICK k : k = Apply(d, g, s)
      OBVIOUS
    <3>4. Sound(k, log, overtaken) /\ \A h \in Groups : k.rows[h] = IF h = g THEN d.rows[h] \cup {s} ELSE d.rows[h]
      BY <3>2, <3>3, SoundLine
    <3>5. QED
      BY <3>1, <3>3, <3>4
  <2>3. QED
    BY <1>10, <2>2
<1>12. Filled'
  BY <1>1, <1>4, <1>5, <1>11 DEF Filled
<1>13. Saved'
  BY <1>1, <1>4 DEF Data, Saved
<1>14. Replayed'
  <2>1. /\ work' \in [Groups -> SUBSET Seqs] /\ done' \in [Groups -> Seqs \cup {None}]
        /\ \A h \in Groups : work'[h] = IF h = g THEN work[h] \ {s} ELSE work[h]
        /\ \A h \in Groups : done'[h] = IF h = g THEN s ELSE done[h]
    BY <1>6, <1>8, <1>10
  <2>2. \A h \in Groups : work'[h] \subseteq Written'[h]
    BY <1>4, <1>6, <2>1
  <2>3. ASSUME NEW h \in Groups \ overtaken', h = DefaultGroup \/ work'[h] # {} PROVE Ahead(disk', Written', work', h)
    <3>1. Ahead(disk, Written, work, h)
      BY <1>2, <1>4, <1>6, <2>1, <2>3
    <3>2. QED
      BY <1>4, <1>11, <2>1, <3>1 DEF Ahead
  <2>4. \A h \in Groups : done'[h] # None => done'[h] \in disk'.rows[h]
    BY <1>6, <1>11, <2>1
  <2>5. boot' = "replay"
    BY <1>1
  <2>6. QED
    BY <2>1, <2>2, <2>3, <2>4, <2>5 DEF Replayed
<1>15. Running'
  BY <1>1 DEF Data, Running, stateVars, histVars
<1>16. Healed'
  <2>1. boot' = "replay" /\ boot = "replay" /\ UNCHANGED <<caller, live, healed>>
    BY <1>1 DEF stateVars, histVars
  <2>2. QED
    BY <2>1 DEF Data, Healed, Replaying
<1>17. QED
  BY <1>12, <1>13, <1>14, <1>15, <1>16 DEF Data

\* A group's position is written once its replay is over.
LEMMA GroupDoneData == ASSUME Tree, Data, ReplayGroupDone PROVE Data'
<1>1. /\ boot = "replay" /\ boot' = boot
      /\ UNCHANGED <<envVars, faults, ckpt, backup, stream, stateVars, runVars, histVars, writes, crashes, cutShort>>
  BY DEF ReplayGroupDone, workspaceVars
<1>2. PICK g \in Groups : done[g] # None /\ disk' = [disk EXCEPT !.posn[g] = done[g]]
  BY DEF ReplayGroupDone
<1>3. Written' = Written /\ overtaken' = overtaken /\ (Calm' <=> Calm) /\ Written \in Logs
  BY <1>1, SameLog, WrittenLogs DEF envVars, histVars, Calm, Data
<1>4. Filled
  BY <1>1 DEF Data, Blank, Replaying
<1>5. Sound(disk, Written, overtaken)
  BY <1>4 DEF Filled
<1>6. done[g] \in disk.rows[g] /\ done[g] \in Seqs \cup {None}
  BY <1>1, <1>2 DEF Data, Replayed
<1>7. g \notin overtaken => HonestAt(disk, Written, g, done[g])
  BY <1>3, <1>5, <1>6, Taken
<1>8. Sound(disk', Written, overtaken) /\ disk'.rows = disk.rows
  BY <1>2, <1>5, <1>6, <1>7, SoundAt
<1>9. Filled'
  BY <1>1, <1>3, <1>4, <1>8 DEF Filled
<1>10. Saved'
  BY <1>1, <1>3 DEF Data, Saved
<1>11. Replayed'
  BY <1>1, <1>3, <1>8 DEF Data, Replayed, Ahead, runVars
<1>12. Running'
  BY <1>1 DEF Data, Running, stateVars, histVars, runVars
<1>13. Healed'
  <2>1. boot' = "replay" /\ boot = "replay" /\ UNCHANGED <<caller, live, healed>>
    BY <1>1 DEF stateVars, histVars, runVars
  <2>2. QED
    BY <2>1 DEF Data, Healed, Replaying
<1>14. QED
  BY <1>9, <1>10, <1>11, <1>12, <1>13 DEF Data

\* The replay is over, and the backfills run.
LEMMA PostData == ASSUME Tree, Data, PostReplay PROVE Data'
<1>1. /\ boot = "replay" /\ boot' = "persist" /\ disk' \in KeyedOrFailed(disk)
      /\ \A g \in Groups : work[g] = {}
      /\ UNCHANGED <<envVars, faults, ckpt, backup, stream, stateVars, runVars, histVars, writes, crashes, cutShort>>
  BY DEF PostReplay
<1>2. Written' = Written /\ overtaken' = overtaken /\ (Calm' <=> Calm) /\ DefaultGroup \in Groups
  BY <1>1, SameLog DEF envVars, histVars, Calm
<1>3. Filled
  BY <1>1 DEF Data, Blank, Replaying
<1>4. Sound(disk', Written, overtaken) /\ Trusted(disk') /\ disk'.rows = disk.rows
  BY <1>1, <1>3, SoundKeyed DEF Filled
<1>5. Filled'
  BY <1>1, <1>2, <1>3, <1>4 DEF Filled
<1>6. Saved'
  BY <1>1, <1>2 DEF Data, Saved
<1>7. Replayed'
  <2>1. DefaultGroup \notin overtaken => Ahead(disk, Written, work, DefaultGroup)
    BY <1>1, <1>2 DEF Data, Replayed
  <2>2. DefaultGroup \notin overtaken' => Complete(disk', Written')
    BY <1>1, <1>2, <1>4, <2>1 DEF Ahead, Complete
  <2>3. \A g \in Groups : done'[g] # None => done'[g] \in disk'.rows[g]
    BY <1>1, <1>4 DEF Data, Replayed, runVars
  <2>4. work' = work /\ done' = done /\ boot' = "persist"
    BY <1>1 DEF runVars
  <2>5. QED
    BY <2>2, <2>3, <2>4 DEF Data, Replayed
<1>8. Running'
  BY <1>1 DEF Data, Running, stateVars, histVars, runVars
<1>9. Healed'
  <2>1. boot' = "persist" /\ boot = "replay" /\ UNCHANGED <<caller, live, healed>>
    BY <1>1 DEF stateVars, histVars, runVars
  <2>2. QED
    BY <2>1 DEF Data, Healed, Replaying
<1>10. QED
  BY <1>5, <1>6, <1>7, <1>8, <1>9 DEF Data

\* The positions of all groups are written at the end.
LEMMA PersistData == ASSUME Tree, Data, PersistPositions PROVE Data'
<1>1. /\ boot = "persist" /\ boot' = "ready" /\ live' = TRUE /\ indices' = TRUE /\ caller' = None /\ Cleared
      /\ degraded' \in {PreMigration, None}
      /\ UNCHANGED <<envVars, faults, ckpt, backup, stream, histVars, writes, crashes, cutShort>>
      /\ disk' = [disk EXCEPT !.posn = [g \in Groups |-> IF done[g] # None THEN done[g] ELSE @[g]]]
  BY DEF PersistPositions, Settle, Cleared
<1>2. Written' = Written /\ overtaken' = overtaken /\ (Calm' <=> Calm) /\ Written \in Logs
  BY <1>1, SameLog, WrittenLogs DEF envVars, histVars, Calm, Data
<1>3. Filled
  BY <1>1 DEF Data, Blank, Replaying
<1>4. Sound(disk, Written, overtaken) /\ (Calm => Trusted(disk))
  BY <1>1, <1>3 DEF Filled
<1>5. done \in [Groups -> Seqs \cup {None}] /\ \A g \in Groups : done[g] # None => done[g] \in disk.rows[g]
  BY <1>1 DEF Data, Replayed
<1>6. PICK q : q = [g \in Groups |-> IF done[g] # None THEN done[g] ELSE disk.posn[g]]
  OBVIOUS
<1>7. /\ disk \in Dbs /\ disk' \in Dbs /\ disk'.posn = q
      /\ disk'.rows = disk.rows /\ disk'.singleton = disk.singleton /\ (Trusted(disk) <=> Trusted(disk'))
  <2>1. disk \in Dbs
    BY <1>4 DEF Sound
  <2>2. q \in [Groups -> Seqs \cup {None}]
    BY <1>5, <1>6, <2>1 DEF Dbs
  <2>3. disk' = [disk EXCEPT !.posn = q]
    BY <1>1, <1>6, <2>1 DEF Dbs
  <2>4. QED
    BY <2>1, <2>2, <2>3 DEF Dbs, Trusted
<1>8. Sound(disk', Written, overtaken)
  <2>1. ASSUME NEW g \in Groups \ overtaken PROVE Prefix(disk', Written, g) /\ HonestAt(disk', Written, g, disk'.posn[g])
    <3>1. HonestAt(disk, Written, g, q[g])
      <4>1. CASE done[g] # None
        <5>1. done[g] \in disk.rows[g]
          BY <1>5, <4>1
        <5>2. HonestAt(disk, Written, g, done[g])
          BY <1>2, <1>4, <5>1, Taken
        <5>3. QED
          BY <1>6, <4>1, <5>2
      <4>2. CASE done[g] = None
        BY <1>4, <1>6, <4>2 DEF Sound
      <4>3. QED
        BY <4>1, <4>2
    <3>2. QED
      BY <1>4, <1>7, <3>1 DEF Sound, Prefix, HonestAt
  <2>2. \A g \in Groups \ {DefaultGroup} : disk'.posn[g] # None => disk'.posn[g] \in disk'.rows[g]
    BY <1>4, <1>5, <1>6, <1>7 DEF Sound
  <2>3. QED
    BY <1>4, <1>7, <2>1, <2>2 DEF Sound, HonestAt
<1>9. Filled'
  BY <1>1, <1>2, <1>3, <1>4, <1>7, <1>8 DEF Filled
<1>10. Saved'
  BY <1>1, <1>2 DEF Data, Saved
<1>11. Replayed'
  BY <1>1, Idle DEF Data
<1>12. Running'
  BY <1>1 DEF Data, Running, PreMigration, histVars
<1>13. Healed'
  <2>1. DefaultGroup \notin overtaken' => Complete(disk', Written')
    BY <1>1, <1>2, <1>7 DEF Data, Replayed, Complete
  <2>2. boot' = "ready"
    BY <1>1
  <2>3. QED
    BY <2>1, <2>2 DEF Healed, Replaying
<1>14. QED
  BY <1>9, <1>10, <1>11, <1>12, <1>13 DEF Data

-----------------------------------------------------------------------------
(* The handlers that put a database back, the writes and the checkpoint.   *)

\* knowledge_recover goes back to the checkpoint or to the backup.
LEMMA RollBackData ==
  ASSUME Tree, Data, recover_drop_lbug_wal \/ recover_restore_from_backup
  PROVE  Data'
<1>1. PICK d : /\ d = ckpt \/ (d = backup /\ backup # None)
               /\ RollBack(d)
  BY DEF recover_drop_lbug_wal, recover_restore_from_backup
<1>2. ~Blank /\ boot' = "ready" /\ healed' = FALSE /\ overtaken' = overtaken
  BY <1>1 DEF RollBack, RecoverAllowed, Blank, Settle
<1>3. Written' = Written /\ (Calm' <=> Calm)
  BY <1>1, SameLog DEF RollBack, envVars, Calm
<1>4. Sound(d, Written, overtaken)
  BY <1>1, <1>2 DEF Data, Filled, Saved
<1>5. disk' \in KeyedOrFailed(d) /\ ckpt' = disk'
  BY <1>1 DEF RollBack
<1>6. Sound(disk', Written', overtaken') /\ Trusted(disk')
  BY <1>2, <1>3, <1>4, <1>5, SoundKeyed
<1>7. Filled'
  BY <1>5, <1>6 DEF Filled
<1>8. Saved'
  BY <1>1, <1>2, <1>3 DEF RollBack, Data, Saved
<1>9. Replayed'
  BY <1>1, <1>2, Idle DEF RollBack, Settle, Data, Cleared
<1>10. Running'
  BY <1>1 DEF RollBack, Settle, Data, Running
<1>11. Healed'
  BY <1>2 DEF Healed, Replaying
<1>12. QED
  BY <1>7, <1>8, <1>9, <1>10, <1>11 DEF Data

\* The engine folds its log into the checkpoint.
LEMMA CheckpointData == ASSUME Tree, Data, Checkpoint PROVE Data'
<1>1. /\ boot = "ready" /\ boot' = boot /\ live /\ ckpt' = disk /\ disk' = disk
      /\ UNCHANGED <<envVars, faults, backup, stream, stateVars, runVars, histVars, writes, crashes, cutShort>>
  BY DEF Checkpoint, workspaceVars
<1>2. Written' = Written /\ overtaken' = overtaken /\ (Calm' <=> Calm)
  BY <1>1, SameLog DEF envVars, histVars, Calm
<1>3. Filled
  BY <1>1 DEF Data, Blank
<1>4. Filled'
  BY <1>1, <1>2, <1>3 DEF Filled
<1>5. Saved'
  BY <1>1, <1>2 DEF Data, Saved
<1>6. Replayed'
  BY <1>1, Idle DEF Data, runVars
<1>7. Running'
  BY <1>1 DEF Data, Running, stateVars, histVars, runVars
<1>8. Healed'
  <2>1. UNCHANGED <<caller, live, healed, overtaken, disk, boot>> /\ Written' = Written
    BY <1>1, <1>2 DEF stateVars, runVars, histVars
  <2>2. QED
    BY <2>1 DEF Data, Healed, Complete
<1>9. QED
  BY <1>4, <1>5, <1>6, <1>7, <1>8 DEF Data

\* A bounded set of lines has a last one.
LEMMA Largest ==
  ASSUME NEW T \in SUBSET Nat, T # {}, NEW b \in Nat, \A x \in T : x < b
  PROVE  Max(T) \in T /\ \A x \in T : x <= Max(T)
<1>1. PICK U : U = {n \in Nat : \A x \in T : x <= n}
  OBVIOUS
<1>2. b \in U
  BY <1>1
<1>3. Min(U) \in U /\ \A n \in U : Min(U) <= n
  BY <1>1, <1>2, Smallest
<1>4. PICK m : m = Min(U)
  OBVIOUS
<1>5. m \in Nat /\ \A x \in T : x <= m
  BY <1>1, <1>3, <1>4
<1>6. m \in T
  <2>1. SUFFICES ASSUME m \notin T PROVE FALSE
    OBVIOUS
  <2>2. \A x \in T : x \in Nat /\ x <= m - 1
    BY <1>5, <2>1
  <2>3. m - 1 \in Nat
    <3>1. PICK x \in T : x \in Nat /\ x <= m - 1
      BY <2>2
    <3>2. QED
      BY <1>5, <3>1
  <2>4. m - 1 \in U
    BY <1>1, <2>2, <2>3
  <2>5. m <= m - 1
    BY <1>3, <1>4, <2>4
  <2>6. QED
    BY <1>5, <2>5
<1>7. \E x \in T : \A y \in T : x >= y
  <2>1. \A y \in T : m >= y
    BY <1>5
  <2>2. QED
    BY <1>6, <2>1
<1>8. Max(T) \in T /\ \A y \in T : Max(T) >= y
  BY <1>7 DEF Max
<1>9. QED
  <2>1. \A x \in T : x \in Nat /\ Max(T) \in Nat /\ Max(T) >= x
    BY <1>8
  <2>2. QED
    BY <1>8, <2>1

\* A line is written to the stream of another group.
LEMMA WriteData ==
  ASSUME Tree, Data, NEW g \in Groups \ {DefaultGroup}, Write(g)
  PROVE  Data'
<1>1. /\ boot = "ready" /\ boot' = boot /\ live /\ writes < MaxWrites /\ writes' = writes + 1
      /\ overtaken' = IF stream[g] \subseteq disk.rows[g] THEN overtaken ELSE overtaken \cup {g}
      /\ UNCHANGED <<envVars, faults, ckpt, backup, stateVars, runVars, healed, crashes, cutShort>>
  BY DEF Write, workspaceVars
<1>2. PICK s : /\ s = IF stream[g] = {} THEN 0 ELSE Max(stream[g]) + 1
               /\ stream' = [stream EXCEPT ![g] = @ \cup {s}]
               /\ disk' = [disk EXCEPT !.rows[g] = @ \cup {s}, !.posn[g] = s]
  BY DEF Write
<1>3. Running /\ Written \in Logs /\ MaxWrites \in Nat
  BY WrittenLogs DEF Data
<1>4. s \in Nat /\ s <= writes /\ \A r \in stream[g] : r < s
  <2>1. stream[g] \in SUBSET Nat /\ writes \in Nat /\ \A r \in stream[g] : r < writes
    BY <1>3 DEF Running
  <2>2. CASE stream[g] = {}
    BY <1>2, <2>1, <2>2
  <2>3. CASE stream[g] # {}
    <3>1. Max(stream[g]) \in stream[g] /\ \A r \in stream[g] : r <= Max(stream[g])
      BY <2>1, <2>3, Largest
    <3>2. Max(stream[g]) \in Nat /\ Max(stream[g]) < writes /\ s = Max(stream[g]) + 1
      BY <1>2, <2>1, <2>3, <3>1
    <3>3. \A r \in stream[g] : r \in Nat /\ r < s
      BY <2>1, <3>1, <3>2
    <3>4. QED
      BY <2>1, <3>2, <3>3
  <2>4. QED
    BY <2>2, <2>3
<1>5. s \in Seqs
  <2>1. writes \in Nat
    BY <1>3 DEF Running
  <2>2. QED
    BY <1>1, <1>3, <1>4, <2>1 DEF Seqs
<1>6. Written' = [Written EXCEPT ![g] = @ \cup {s}] /\ Written' \in Logs
  <2>1. stream \in [Groups -> SUBSET Nat]
    BY <1>3 DEF Running
  <2>2. \A h \in Groups : Written'[h] = IF h = g THEN Written[h] \cup {s} ELSE Written[h]
    BY <1>1, <1>2, <2>1 DEF Written, envVars
  <2>3. Written' = [h \in Groups |-> Written'[h]]
    BY DEF Written
  <2>4. QED
    BY <1>3, <1>5, <2>2, <2>3 DEF Logs
<1>7. \A r \in Written[g] : r < s
  BY <1>4 DEF Written
<1>8. overtaken \subseteq overtaken' /\ (Calm' <=> Calm)
  BY <1>1 DEF Calm
<1>9. ASSUME NEW d, Sound(d, Written, overtaken) PROVE Sound(d, Written', overtaken')
  <2>1. PICK new : new = Written'
    OBVIOUS
  <2>2. Sound(d, new, overtaken)
    BY <1>3, <1>5, <1>6, <1>7, <1>9, <2>1, SoundGrown
  <2>3. QED
    BY <1>8, <2>1, <2>2, SoundPast
<1>10. Filled
  BY <1>1 DEF Data, Blank
<1>11. Sound(disk, Written', overtaken') /\ Sound(ckpt, Written', overtaken') /\ disk \in Dbs
  BY <1>9, <1>10 DEF Filled, Sound
<1>12. PICK r, p : r = [disk.rows EXCEPT ![g] = @ \cup {s}] /\ p = [disk.posn EXCEPT ![g] = s]
  OBVIOUS
<1>13. /\ disk' \in Dbs /\ disk'.singleton = disk.singleton /\ (Trusted(disk) <=> Trusted(disk'))
       /\ \A h \in Groups : /\ disk'.rows[h] = IF h = g THEN disk.rows[h] \cup {s} ELSE disk.rows[h]
                            /\ disk'.posn[h] = IF h = g THEN s ELSE disk.posn[h]
  <2>1. r \in [Groups -> SUBSET Seqs] /\ p \in [Groups -> Seqs \cup {None}]
    BY <1>5, <1>11, <1>12 DEF Dbs
  <2>2. disk' = [disk EXCEPT !.rows = r, !.posn = p]
    BY <1>2, <1>11, <1>12 DEF Dbs
  <2>3. disk' \in Dbs /\ disk'.rows = r /\ disk'.posn = p /\ disk'.singleton = disk.singleton
        /\ disk'.keyState = disk.keyState /\ disk'.nullKeys = disk.nullKeys
    BY <1>11, <2>1, <2>2 DEF Dbs
  <2>4. Trusted(disk) <=> Trusted(disk')
    BY <2>3 DEF Trusted
  <2>5. disk.rows \in [Groups -> SUBSET Seqs] /\ disk.posn \in [Groups -> Seqs \cup {None}]
    BY <1>11 DEF Dbs
  <2>6. \A h \in Groups : /\ r[h] = IF h = g THEN disk.rows[h] \cup {s} ELSE disk.rows[h]
                         /\ p[h] = IF h = g THEN s ELSE disk.posn[h]
    BY <1>12, <2>5
  <2>7. QED
    BY <2>3, <2>4, <2>6
<1>14. Sound(disk', Written', overtaken')
  <2>1. ASSUME NEW h \in Groups PROVE disk'.rows[h] \subseteq Written'[h]
    <3>1. disk.rows[h] \subseteq Written'[h] /\ disk'.rows[h] = IF h = g THEN disk.rows[h] \cup {s} ELSE disk.rows[h]
      BY <1>11, <1>13 DEF Sound
    <3>2. h = g => s \in Written'[h]
      BY <1>3, <1>6 DEF Logs
    <3>3. QED
      BY <3>1, <3>2
  <2>2. ASSUME NEW h \in Groups \ overtaken' PROVE Prefix(disk', Written', h) /\ HonestAt(disk', Written', h, disk'.posn[h])
    <3>1. CASE h # g
      <4>1. disk'.rows[h] = disk.rows[h] /\ disk'.posn[h] = disk.posn[h]
        BY <1>13, <3>1
      <4>2. Prefix(disk, Written', h) /\ HonestAt(disk, Written', h, disk.posn[h])
        BY <1>11 DEF Sound
      <4>3. QED
        BY <4>1, <4>2 DEF Prefix, HonestAt
    <3>2. CASE h = g
      <4>1. stream[g] \subseteq disk.rows[g]
        BY <1>1, <2>2, <3>2
      <4>a. Written'[g] = Written[g] \cup {s} /\ disk'.rows[g] = disk.rows[g] \cup {s}
        BY <1>3, <1>6, <1>13 DEF Logs
      <4>b. Written[g] = stream[g]
        BY <1>1 DEF Written
      <4>2. Written'[g] \subseteq disk'.rows[g]
        BY <4>1, <4>a, <4>b
      <4>3. QED
        BY <3>2, <4>2 DEF Prefix, HonestAt
    <3>3. QED
      BY <3>1, <3>2
  <2>3. \A h \in Groups \ {DefaultGroup} : disk'.posn[h] # None => disk'.posn[h] \in disk'.rows[h]
    BY <1>11, <1>13 DEF Sound
  <2>4. DefaultGroup \notin overtaken' => HonestAt(disk', Written', DefaultGroup, disk'.singleton)
    BY <1>11, <1>13 DEF Sound, HonestAt
  <2>5. QED
    BY <1>13, <2>1, <2>2, <2>3, <2>4 DEF Sound
<1>15. Filled'
  BY <1>1, <1>8, <1>10, <1>11, <1>13, <1>14 DEF Filled
<1>16. Saved'
  BY <1>1, <1>8, <1>9 DEF Data, Saved
<1>17. Replayed'
  BY <1>1, Idle DEF Data, runVars
<1>18. Running'
  <2>1. stream' \in [Groups -> SUBSET Nat] /\ \A h \in Groups : stream'[h] = IF h = g THEN stream[h] \cup {s} ELSE stream[h]
    BY <1>2, <1>3, <1>4 DEF Running
  <2>2. writes' \in Nat /\ writes' <= MaxWrites /\ writes \in Nat
    BY <1>1, <1>3 DEF Running
  <2>3. ASSUME NEW h \in Groups, NEW x \in stream'[h] PROVE x < writes'
    <3>1. x \in Nat /\ x <= writes
      BY <1>3, <1>4, <2>1, <2>2, <2>3 DEF Running
    <3>2. QED
      BY <1>1, <2>2, <3>1
  <2>4. QED
    BY <1>1, <1>3, <2>1, <2>2, <2>3 DEF Running, stateVars, runVars
<1>19. Healed'
  <2>1. UNCHANGED <<caller, live, healed, boot>>
    BY <1>1 DEF stateVars, runVars
  <2>2. ASSUME DefaultGroup \notin overtaken', Complete(disk, Written) PROVE Complete(disk', Written')
    BY <1>3, <1>6, <1>13, <2>2 DEF Complete, Logs
  <2>3. DefaultGroup \notin overtaken' => DefaultGroup \notin overtaken
    BY <1>8
  <2>4. QED
    BY <2>1, <2>2, <2>3 DEF Data, Healed
<1>20. QED
  BY <1>15, <1>16, <1>17, <1>18, <1>19 DEF Data

\* Every step keeps the databases sound.
LEMMA DataStep == Tree /\ Data /\ [Next]_vars => Data'
<1>1. ASSUME Tree, Data, UNCHANGED vars PROVE Data'
  <2>1. /\ UNCHANGED <<boot, outcome, origin, dirs, at, faults, disk, ckpt, backup, stream, live, degraded, indices,
                       caller, work, done, healed, overtaken, writes, crashes, cutShort>>
        /\ Written' = Written
    BY <1>1, SameLog DEF vars, workspaceVars, fileVars, envVars, recoveryVars, dbVars, stateVars, runVars, histVars
  <2>2. (Blank => Blank') /\ (Filled => Filled') /\ Saved' /\ Calm' = Calm
    BY <1>1, <2>1 DEF Data, Blank, Filled, Saved, Legacy, Calm
  <2>3. Replayed' /\ Running' /\ Healed'
    BY <1>1, <2>1 DEF Data, Replayed, Running, Healed
  <2>4. QED
    BY <1>1, <2>2, <2>3 DEF Data
<1>2. QED
  BY <1>1, WorkspaceData, StartData, ProbeData, OpenData, OpenFailsData, BackfillData, DropData, RebuildData, LineData,
     GroupDoneData, PostData, PersistData, RecoveryFailsData, FullData, RollBackData, WriteData, CheckpointData,
     WriterData, CrashData DEF Next, BootStep

-----------------------------------------------------------------------------
(* The workspaces a start can find.                                        *)

\* What a layout is built of.
LEMMA OursAt ==
  ASSUME NEW a \in Trees, NEW p \in Places, NEW es
  PROVE  /\ Ours(a, p, es) \in Trees
         /\ \A q \in Places, e \in Entries : Ours(a, p, es)[q][e] = IF q = p /\ e \in es THEN "ours" ELSE a[q][e]
<1>1. PICK n : n = [e \in Entries |-> IF e \in es THEN "ours" ELSE a[p][e]]
  OBVIOUS
<1>2. n \in [Entries -> Contents]
  BY <1>1 DEF Trees, Contents
<1>3. Ours(a, p, es) = [a EXCEPT ![p] = n]
  BY <1>1 DEF Ours, Trees
<1>4. QED
  BY <1>1, <1>2, <1>3 DEF Trees

\* Every layout has its files where the migrations look for them; only one has none.
Layout(l) ==
    /\ l.at \in Trees
    /\ \A e \in Entries : l.at["bak"][e] = Absent /\ l.at["legacy"][e] \in {"ours", Absent}
    /\ "legacy" \notin l.dirs => \A e \in Entries : l.at["legacy"][e] = Absent
    /\ \A f \in WalFiles : "wal_root" \notin l.dirs => l.at["root"][f] = Absent
    /\ l.at["root"]["gen"] \in {Absent, "ours"}
    /\ l.at["root"]["gen"] = "ours" => "legacy" \notin l.dirs /\ \A f \in WalFiles : l.at["root"][f] = "ours"
    /\ \/ l.at = Nothing /\ l.dirs = {}
       \/ /\ \E p \in Places : l.at[p]["db"] = "ours"
          /\ \A f \in WalFiles : \E p \in Places : l.at[p][f] = "ours"

\* The empty workspace.
LEMMA NothingAt == Nothing \in Trees /\ \A p \in Places, e \in Entries : Nothing[p][e] = Absent
  BY DEF Nothing, Trees, Contents

\* Every layout a start can find is one of those.
LEMMA LayoutsOk == ASSUME NEW l \in Layouts PROVE Layout(l)
<1>k. /\ {"legacy", "flat", "tmp", "lcg", "bak", "root", "group"} = Places
      /\ Items \subseteq Entries /\ WalFiles \subseteq Entries /\ "gen" \in Entries /\ "db" \in Items
      /\ \A f \in WalFiles : f # "gen" /\ f # "db" /\ f # "dbwal"
      /\ {"ours", "theirs", "torn", Absent} \subseteq Contents /\ Absent \notin {"ours", "theirs", "torn"}
      /\ "gen" \notin Items
  BY DEF Places, Entries, Items, Contents
<1>n. Nothing \in Trees /\ \A p \in Places, e \in Entries : Nothing[p][e] = Absent
  BY NothingAt
<1>a. PICK a : a = Ours(Nothing, "legacy", Items \cup WalFiles)
  OBVIOUS
<1>b. a \in Trees /\ \A q \in Places, e \in Entries :
        a[q][e] = IF q = "legacy" /\ e \in Items \cup WalFiles THEN "ours" ELSE Absent
  <2>1. "legacy" \in Places
    BY <1>k
  <2>2. QED
    BY <1>a, <1>n, <2>1, OursAt
<1>1. CASE l.at = a /\ l.dirs = {"legacy", "legacy_wal"}
  BY <1>1, <1>b, <1>k DEF Layout
<1>2. CASE \E f \in WalFiles, c \in {"ours", "theirs"} :
              l.at = Put(a, "root", f, c) /\ l.dirs = {"legacy", "legacy_wal", "wal_root"}
  <2>1. PICK f \in WalFiles, c \in {"ours", "theirs"} :
              l.at = Put(a, "root", f, c) /\ l.dirs = {"legacy", "legacy_wal", "wal_root"}
    BY <1>2
  <2>2. "root" \in Places /\ f \in Entries /\ c \in Contents /\ a \in Trees
    BY <1>b, <1>k
  <2>3. l.at \in Trees /\ \A q \in Places, e \in Entries : l.at[q][e] = IF q = "root" /\ e = f THEN c ELSE a[q][e]
    <3>1. Put(a, "root", f, c) \in Trees /\ \A q \in Places, e \in Entries :
            Put(a, "root", f, c)[q][e] = IF q = "root" /\ e = f THEN c ELSE a[q][e]
      BY <2>2, PutAt
    <3>2. QED
      BY <2>1, <3>1
  <2>4. QED
    BY <1>b, <1>k, <2>1, <2>3 DEF Layout
<1>3. CASE l.at = Ours(Ours(Nothing, "flat", {"db", "dbwal"}), "group", WalFiles) /\ l.dirs = {"lcg", "wal_root"}
  <2>1. PICK b : b = Ours(Nothing, "flat", {"db", "dbwal"})
    OBVIOUS
  <2>2. b \in Trees /\ \A q \in Places, e \in Entries :
           b[q][e] = IF q = "flat" /\ e \in {"db", "dbwal"} THEN "ours" ELSE Absent
    <3>1. "flat" \in Places
      BY <1>k
    <3>2. QED
      BY <1>n, <2>1, <3>1, OursAt
  <2>3. l.at \in Trees /\ \A q \in Places, e \in Entries :
           l.at[q][e] = IF q = "group" /\ e \in WalFiles THEN "ours" ELSE b[q][e]
    <3>1. "group" \in Places
      BY <1>k
    <3>2. QED
      BY <1>3, <2>1, <2>2, <3>1, OursAt
  <2>4. QED
    BY <1>3, <1>k, <2>2, <2>3 DEF Layout
<1>4. CASE \E r \in {Absent, "ours"}, g \in {Absent, "torn"} :
              /\ l.at = Put(Put(Ours(Ours(Nothing, "lcg", {"db", "dbwal"}), "root", WalFiles), "root", "gen", r),
                            "group", "gen", g)
              /\ l.dirs = {"lcg", "lcg_db", "wal_root"}
  <2>1. PICK r \in {Absent, "ours"}, g \in {Absent, "torn"} :
              /\ l.at = Put(Put(Ours(Ours(Nothing, "lcg", {"db", "dbwal"}), "root", WalFiles), "root", "gen", r),
                            "group", "gen", g)
              /\ l.dirs = {"lcg", "lcg_db", "wal_root"}
    BY <1>4
  <2>0. "lcg" \in Places /\ "root" \in Places /\ "group" \in Places /\ "gen" \in Entries /\ r \in Contents /\ g \in Contents
    BY <1>k
  <2>2. PICK b : b = Ours(Nothing, "lcg", {"db", "dbwal"})
    OBVIOUS
  <2>3. b \in Trees /\ \A q \in Places, e \in Entries :
           b[q][e] = IF q = "lcg" /\ e \in {"db", "dbwal"} THEN "ours" ELSE Absent
    BY <1>n, <2>0, <2>2, OursAt
  <2>4. PICK c : c = Ours(b, "root", WalFiles)
    OBVIOUS
  <2>5. c \in Trees /\ \A q \in Places, e \in Entries :
           c[q][e] = IF q = "root" /\ e \in WalFiles THEN "ours" ELSE b[q][e]
    BY <2>0, <2>3, <2>4, OursAt
  <2>6. PICK d : d = Put(c, "root", "gen", r)
    OBVIOUS
  <2>7. d \in Trees /\ \A q \in Places, e \in Entries : d[q][e] = IF q = "root" /\ e = "gen" THEN r ELSE c[q][e]
    <3>1. c \in Trees /\ "root" \in Places /\ "gen" \in Entries /\ r \in Contents
      BY <2>0, <2>5
    <3>2. Put(c, "root", "gen", r) \in Trees /\ \A q \in Places, e \in Entries :
             Put(c, "root", "gen", r)[q][e] = IF q = "root" /\ e = "gen" THEN r ELSE c[q][e]
      BY <3>1, PutAt
    <3>3. QED
      BY <2>6, <3>2
  <2>8. l.at \in Trees /\ \A q \in Places, e \in Entries : l.at[q][e] = IF q = "group" /\ e = "gen" THEN g ELSE d[q][e]
    <3>1. Put(d, "group", "gen", g) \in Trees /\ \A q \in Places, e \in Entries :
             Put(d, "group", "gen", g)[q][e] = IF q = "group" /\ e = "gen" THEN g ELSE d[q][e]
      BY <2>0, <2>7, PutAt
    <3>2. l.at = Put(d, "group", "gen", g)
      BY <2>1, <2>2, <2>4, <2>6
    <3>3. QED
      BY <3>1, <3>2
  <2>9. \A q \in Places, e \in Entries : l.at[q][e] =
           IF e = "gen" THEN (IF q = "group" THEN g ELSE IF q = "root" THEN r ELSE Absent)
           ELSE IF e \in WalFiles THEN (IF q = "root" THEN "ours" ELSE Absent)
           ELSE IF e \in {"db", "dbwal"} /\ q = "lcg" THEN "ours" ELSE Absent
    BY <1>k, <2>3, <2>5, <2>7, <2>8
  <2>10. QED
    BY <1>k, <2>1, <2>8, <2>9 DEF Layout
<1>5. CASE l.at = Nothing /\ l.dirs = {}
  BY <1>5, <1>n, <1>k DEF Layout
<1>6. \E f \in WalFiles : TRUE
  OBVIOUS
<1>7. (CHOOSE w \in WalFiles : TRUE) \in WalFiles
  BY <1>6
<1>8. QED
  BY <1>1, <1>2, <1>3, <1>4, <1>5, <1>7, <1>a DEF Layouts

\* The files are accounted for when the first start begins.
LEMMA InitTree == Init => Tree /\ boot = "down" /\ faults = 0 /\ (at = Nothing => ~Legacy)
                          /\ (at # Nothing => WalFiles \subseteq origin.entries)
<1> SUFFICES ASSUME Init PROVE Tree /\ boot = "down" /\ faults = 0 /\ (at = Nothing => ~Legacy)
                          /\ (at # Nothing => WalFiles \subseteq origin.entries)
  OBVIOUS
<1>1. PICK l \in Layouts, c \in {"ours", "torn"} :
         /\ at = WithLog(l.at, c) /\ dirs = l.dirs
         /\ origin = [entries |-> {e \in Entries : \E p \in Places : l.at[p][e] = "ours"},
                      gen |-> l.at["root"]["gen"]]
  BY DEF Init, WorkspaceInit
<1>2. Layout(l) /\ boot = "down" /\ outcome = Absent /\ faults = 0
  BY LayoutsOk DEF Init, WorkspaceInit
<1>3. at \in Trees /\ \A p \in Places, e \in Entries :
         at[p][e] = IF e = "dbwal" /\ l.at[p][e] = "ours" THEN c ELSE l.at[p][e]
  BY <1>1, <1>2 DEF Layout, WithLog, Trees, Contents
<1>k. /\ {"legacy", "flat", "tmp", "lcg", "bak", "root", "group"} = Places
      /\ WalFiles \subseteq Entries /\ "gen" \in Entries /\ "db" \in Entries
      /\ \A f \in WalFiles : f # "gen" /\ f # "db" /\ f # "dbwal"
      /\ Absent \notin {"ours", "torn"}
  BY DEF Places, Entries, Items
<1>4. Stored
  <2>1. \A e \in Entries : ~Legacy => at["legacy"][e] = Absent
    BY <1>1, <1>2, <1>3, <1>k DEF Layout, Legacy
  <2>2. \A e \in Entries : at["bak"][e] = Absent
    BY <1>2, <1>3, <1>k DEF Layout
  <2>3. \A e \in Entries \ {"dbwal"} : at["legacy"][e] \in {"ours", Absent}
    BY <1>2, <1>3, <1>k DEF Layout
  <2>4. \A f \in WalFiles : "wal_root" \notin dirs => at["root"][f] = Absent
    BY <1>1, <1>2, <1>3, <1>k DEF Layout
  <2>5. \A f \in WalFiles, p \in Places : at[p][f] = "ours" => f \in origin.entries
    BY <1>1, <1>3, <1>k
  <2>6. QED
    BY <1>1, <1>3, <2>1, <2>2, <2>3, <2>4, <2>5 DEF Stored, Trees
<1>5. Reported
  BY <1>2 DEF Reported, Steps, Moving, Fixing, Decided, Relocating, Replaying
<1>6. Adopted
  <2>1. origin.gen = l.at["root"]["gen"] /\ at["root"]["gen"] = origin.gen
    BY <1>1, <1>3, <1>k
  <2>2. ASSUME origin.gen # Absent PROVE ~Legacy /\ \A f \in WalFiles : at["root"][f] # Absent
    BY <1>1, <1>2, <1>3, <1>k, <2>1, <2>2 DEF Layout, Legacy
  <2>3. boot \notin Relocating
    BY <1>2 DEF Relocating
  <2>4. QED
    BY <1>2, <2>1, <2>2, <2>3 DEF Adopted, Layout
<1>7. NothingLost
  <2>1. ASSUME NEW e \in origin.entries \ {"db", "dbwal", "gen"} PROVE \E p \in Places : at[p][e] = "ours"
    BY <1>1, <1>3, <2>1
  <2>2. QED
    BY <2>1 DEF NothingLost
<1>8. at = Nothing => ~Legacy
  <2>1. ASSUME at = Nothing, Legacy PROVE FALSE
    <3>1. PICK p \in Places : l.at[p]["db"] = "ours"
      BY <1>1, <1>2, <2>1 DEF Layout, Legacy
    <3>2. at[p]["db"] = "ours"
      BY <1>3, <1>k, <3>1
    <3>3. QED
      BY <1>k, <2>1, <3>2, NothingAt
  <2>2. QED
    BY <2>1
<1>9. at # Nothing => WalFiles \subseteq origin.entries
  <2>1. ASSUME at # Nothing, NEW f \in WalFiles PROVE f \in origin.entries
    <3>1. l.at # Nothing
      <4>1. ASSUME l.at = Nothing PROVE FALSE
        <5>1. \A p \in Places, e \in Entries : l.at[p][e] # "ours"
          BY <1>k, <4>1, NothingAt
        <5>2. at = l.at
          BY <1>1, <4>1, <5>1 DEF WithLog, Nothing
        <5>3. QED
          BY <2>1, <4>1, <5>2
      <4>2. QED
        BY <4>1
    <3>2. \E p \in Places : l.at[p][f] = "ours"
      BY <1>2, <3>1 DEF Layout
    <3>3. QED
      BY <1>1, <1>k, <3>2
  <2>2. QED
    BY <2>1
<1>10. QED
  BY <1>2, <1>4, <1>5, <1>6, <1>7, <1>8, <1>9 DEF Tree

\* The number of lines a workspace may come with.
LEMMA FullBounds == Full \in Nat /\ Full - 1 \in Seqs /\ DefaultLines \subseteq Seqs
<1>1. DefaultLines \subseteq Seqs /\ DefaultLines # {}
  BY DEF DefaultLines
<1>2. 0 \in Int /\ 3 + MaxWrites \in Int /\ 0 <= 3 + MaxWrites
  OBVIOUS
<1>3. IsFiniteSet(Seqs) /\ Cardinality(Seqs) = 4 + MaxWrites
  <2>1. IsFiniteSet(0..(3 + MaxWrites)) /\ Cardinality(0..(3 + MaxWrites)) = (3 + MaxWrites) - 0 + 1
    BY <1>2, FS_Interval
  <2>2. QED
    BY <2>1 DEF Seqs
<1>4. IsFiniteSet(DefaultLines) /\ Cardinality(DefaultLines) <= 4 + MaxWrites
  BY <1>1, <1>3, FS_Subset
<1>5. Cardinality(DefaultLines) \in Nat /\ Cardinality(DefaultLines) # 0
  BY <1>1, <1>4, FS_CardinalityType, FS_EmptySet
<1>6. QED
  BY <1>1, <1>4, <1>5 DEF Full, Seqs

\* A database a workspace may come with.
LEMMA SoundData ==
  ASSUME WalFiles \subseteq origin.entries, NEW n \in Nat, NEW p \in Seqs \cup {None}, NEW sg \in Seqs \cup {None},
         NEW ks \in {None, "complete", "failed"}, p # None => p < n \/ p = 0, sg # None => sg < n \/ sg = 0
  PROVE  Sound(DataDb(n, p, sg, ks), Written, {}) /\ Trusted(DataDb(n, p, sg, ks))
<1>1. PICK d : d = DataDb(n, p, sg, ks)
  OBVIOUS
<1>2. DefaultLines \subseteq Seqs /\ DefaultLines = Written[DefaultGroup] /\ Seqs \subseteq Nat
  <2>1. UNION {LinesIn[f] : f \in origin.entries \cap WalFiles} = DefaultLines
    BY DEF DefaultLines
  <2>2. QED
    BY <2>1, FullBounds DEF Written, Seqs
<1>3. PICK r, q : /\ r = [g \in Groups |-> IF g = DefaultGroup THEN {s \in DefaultLines : s < n} ELSE {}]
                  /\ q = [NoPositions EXCEPT ![DefaultGroup] = p]
  OBVIOUS
<1>4. /\ r \in [Groups -> SUBSET Seqs] /\ q \in [Groups -> Seqs \cup {None}]
      /\ \A g \in Groups : q[g] = IF g = DefaultGroup THEN p ELSE None
  BY <1>2, <1>3 DEF NoPositions
<1>5. d = [rows |-> r, posn |-> q, singleton |-> sg, nullKeys |-> {}, keyState |-> ks]
  BY <1>1, <1>3 DEF DataDb
<1>6. d \in Dbs /\ d.rows = r /\ d.posn = q /\ d.singleton = sg /\ d.nullKeys = {}
  BY <1>4, <1>5 DEF Dbs
<1>7. \A s \in Written[DefaultGroup] : s < n => s \in d.rows[DefaultGroup]
  BY <1>2, <1>3, <1>6
<1>8. \A g \in Groups : d.rows[g] \subseteq Written[g]
  BY <1>2, <1>3, <1>6
<1>9. ASSUME NEW x \in Seqs \cup {None}, x # None => x < n \/ x = 0 PROVE HonestAt(d, Written, DefaultGroup, x)
  <2>1. ASSUME x # None, x > 0, NEW s \in Written[DefaultGroup], s <= x PROVE s \in d.rows[DefaultGroup]
    <3>0. x \in Seqs /\ s \in Seqs
      BY <1>2, <1>9, <2>1
    <3>1. x \in Nat /\ s \in Nat /\ x < n
      BY <1>2, <1>9, <2>1, <3>0
    <3>2. s < n
      BY <2>1, <3>1
    <3>3. QED
      BY <1>7, <3>2
  <2>2. QED
    BY <2>1 DEF HonestAt
<1>10. ASSUME NEW g \in Groups PROVE Prefix(d, Written, g) /\ HonestAt(d, Written, g, d.posn[g])
  <2>1. CASE g = DefaultGroup
    <3>1. \A e \in d.rows[g] : e \in Nat /\ e < n
      BY <1>2, <1>3, <1>6, <2>1
    <3>2. \A s \in Written[g] : s \in Nat
      BY <1>2, <2>1
    <3>3. \A e \in d.rows[g], s \in Written[g] : s < e => s < n
      BY <3>1, <3>2
    <3>4. Prefix(d, Written, g)
      BY <1>7, <2>1, <3>3 DEF Prefix
    <3>5. QED
      BY <1>4, <1>6, <1>9, <2>1, <3>4
  <2>2. CASE g # DefaultGroup
    BY <1>3, <1>4, <1>6, <2>2 DEF Prefix, HonestAt
  <2>3. QED
    BY <2>1, <2>2
<1>11. HonestAt(d, Written, DefaultGroup, d.singleton)
  BY <1>6, <1>9
<1>12. \A g \in Groups \ {DefaultGroup} : d.posn[g] = None
  BY <1>4, <1>6
<1>13. Sound(d, Written, {}) /\ Trusted(d)
  BY <1>6, <1>8, <1>10, <1>11, <1>12 DEF Sound, Trusted
<1>14. QED
  BY <1>1, <1>13

\* And so are the databases.
LEMMA InitData == Init => Data
<1> SUFFICES ASSUME Init PROVE Data
  OBVIOUS
<1>1. /\ boot = "down" /\ faults = 0 /\ (at = Nothing => ~Legacy)
      /\ (at # Nothing => WalFiles \subseteq origin.entries)
  BY InitTree
<1>2. /\ stream = [g \in Groups |-> {}] /\ live = FALSE /\ degraded = None /\ indices = FALSE /\ caller = None
      /\ work = [g \in Groups |-> {}] /\ done = NoPositions /\ healed = FALSE /\ overtaken = {}
      /\ writes = 0 /\ crashes = 0
  BY DEF Init
<1>3. Running
  <2>1. stream \in [Groups -> SUBSET Nat] /\ \A g \in Groups : stream[g] = {}
    BY <1>2
  <2>2. MaxWrites \in Nat /\ writes \in Nat /\ writes <= MaxWrites /\ crashes \in Nat
    BY <1>2
  <2>3. live \in BOOLEAN /\ indices \in BOOLEAN /\ healed \in BOOLEAN
    BY <1>2
  <2>4. QED
    BY <1>2, <2>1, <2>2, <2>3 DEF Running
<1>4. Replayed
  BY <1>1, <1>2 DEF Replayed, NoPositions
<1>5. Healed
  BY <1>1, <1>2 DEF Healed, Replaying
<1>6. CASE at = Nothing
  <2>1. disk = None /\ ckpt = None /\ backup = None
    BY <1>6 DEF Init
  <2>2. at["flat"]["db"] = Absent /\ at["lcg"]["db"] = Absent /\ at["lcg"]["dbwal"] = Absent
    BY <1>6, NothingAt DEF Places, Entries, Items
  <2>3. Blank
    BY <1>1, <1>2, <1>6, <2>1, <2>2 DEF Blank, Moving, Fixing, Replaying, Decided, Relocating
  <2>4. Saved
    BY <2>1 DEF Saved
  <2>5. QED
    BY <1>3, <1>4, <1>5, <2>3, <2>4 DEF Data
<1>7. CASE at # Nothing
  <2>1. /\ disk \in InitDbs
        /\ ckpt \in {disk, [DataDb(1, None, None, disk.keyState) EXCEPT !.posn[DefaultGroup] =
                             IF disk.posn[DefaultGroup] = None THEN None ELSE 0]}
        /\ backup = IF "legacy" \in dirs THEN None ELSE DataDb(1, 0, None, "complete")
    BY <1>7 DEF Init
  <2>2. WalFiles \subseteq origin.entries /\ 0 \in Seqs /\ 1 \in Nat
    BY <1>1, <1>7 DEF Seqs
  <2>3. Full \in Nat /\ Full - 1 \in Seqs /\ Full - 1 < Full
    BY FullBounds
  <2>4. Sound(disk, Written, {}) /\ Trusted(disk) /\ disk.keyState \in {None, "complete", "failed"}
    <3>1. CASE disk = DataDb(Full, None, None, None)
      BY <2>2, <2>3, <3>1, SoundData DEF Sound, Dbs
    <3>2. CASE disk = DataDb(Full, Full - 1, None, "complete")
      BY <2>2, <2>3, <3>2, SoundData DEF Sound, Dbs
    <3>3. CASE disk = DataDb(Full, None, Full - 1, "complete")
      BY <2>2, <2>3, <3>3, SoundData DEF Sound, Dbs
    <3>4. QED
      BY <2>1, <3>1, <3>2, <3>3 DEF InitDbs
  <2>5. Sound(ckpt, Written, {}) /\ Trusted(ckpt)
    <3>1. PICK d, p : /\ d = DataDb(1, None, None, disk.keyState)
                      /\ p = IF disk.posn[DefaultGroup] = None THEN None ELSE 0
      OBVIOUS
    <3>2. Sound(d, Written, {}) /\ Trusted(d)
      BY <2>2, <2>4, <3>1, SoundData
    <3>3. HonestAt(d, Written, DefaultGroup, p) /\ p \in Seqs \cup {None}
      BY <2>2, <3>1 DEF HonestAt
    <3>4. PICK k : k = [d EXCEPT !.posn[DefaultGroup] = p]
      OBVIOUS
    <3>5. Sound(k, Written, {}) /\ Trusted(k)
      BY <3>2, <3>3, <3>4, SoundAt
    <3>6. QED
      BY <2>1, <2>4, <3>1, <3>4, <3>5
  <2>6. Saved
    <3>1. ASSUME backup # None PROVE Sound(backup, Written, overtaken) /\ Trusted(backup)
      <4>1. backup = DataDb(1, 0, None, "complete")
        BY <2>1, <3>1
      <4>2. QED
        BY <1>2, <2>2, <4>1, SoundData
    <3>2. QED
      BY <3>1 DEF Saved
  <2>7. Filled
    BY <1>2, <2>4, <2>5 DEF Filled
  <2>8. QED
    BY <1>3, <1>4, <1>5, <2>6, <2>7 DEF Data
<1>8. QED
  BY <1>6, <1>7

-----------------------------------------------------------------------------
(* The theorems.                                                           *)

\* The invariant: files accounted for, and databases that have applied a prefix of each stream.
THEOREM Invariance == Spec => []Inv
<1>1. Init => Inv
  BY InitTree, InitData DEF Inv
<1>2. Inv /\ [Next]_vars => Inv'
  BY TreeStep, DataStep DEF Inv
<1>3. QED
  BY <1>1, <1>2, PTL DEF Spec

\* No file is lost by a migration, what stays in .graphiti is reported, what leaves it
\* unreported is in a backup that was asked for, and only a replay that was cut short leaves
\* rows without a key under a backfill recorded as complete.
THEOREM MigrationSound == Spec => []MigrationSafe
<1>1. ASSUME Inv PROVE MigrationSafe
  <2>1. TypeOK
    <3>1. at \in [Places -> [Entries -> Contents]]
      BY <1>1 DEF Inv, Tree, Stored
    <3>2. /\ live \in BOOLEAN /\ indices \in BOOLEAN
          /\ degraded \in {None, "migration_failed", "embedder_unreachable", "lbug_wal_corrupt"}
          /\ caller \in {None, "boot", "full", "rebuild_from_workspace_wal"}
      BY <1>1 DEF Inv, Data, Running
    <3>3. \A g \in Groups : work[g] \subseteq Seqs /\ done[g] \in Seqs \cup {None}
      BY <1>1 DEF Inv, Data, Replayed
    <3>4. \A d \in {disk, ckpt, backup} \ {None} : d \in Dbs
      BY <1>1 DEF Inv, Data, Blank, Filled, Saved, Sound
    <3>5. \A d \in {disk, ckpt, backup} \ {None} :
             \A g \in Groups : d.rows[g] \subseteq Seqs /\ d.posn[g] \in Seqs \cup {None}
      BY <3>4 DEF Dbs
    <3>6. QED
      BY <3>1, <3>2, <3>3, <3>5 DEF TypeOK
  <2>2. NothingLost
    BY <1>1 DEF Inv, Tree
  <2>3. LeftoverReportedOrKept
    <3>1. Held("legacy") # {} => Legacy
      BY <1>1 DEF Inv, Tree, Stored, Held
    <3>2. boot \in {"walroot", "open", "position", "ready"} => boot \in Decided
      BY DEF Decided
    <3>3. QED
      BY <1>1, <3>1, <3>2 DEF LeftoverReportedOrKept, Inv, Tree, Reported, Stored, Held
  <2>4. KeysTrusted
    <3>1. live => Filled
      BY <1>1 DEF Inv, Data, Blank
    <3>2. QED
      BY <3>1 DEF KeysTrusted, Filled, Trusted, Calm
  <2>5. QED
    BY <2>1, <2>2, <2>3, <2>4 DEF MigrationSafe
<1>2. QED
  BY <1>1, Invariance, PTL

\* Files that leave the flat WAL root end in a stream that carries the generation they came
\* with, through every failure and crash of the relocation.
THEOREM GenerationKept == Spec => []StreamKeepsGeneration
<1>1. Inv => StreamKeepsGeneration
  BY DEF Inv, Tree, Adopted, StreamKeepsGeneration
<1>2. QED
  BY <1>1, Invariance, PTL

\* No recorded position leads the graph, whatever mix of crashes, rollbacks, replays,
\* backfills and writes led to it.
THEOREM PositionNeverLeads == Spec => []PositionHonest
<1>1. ASSUME Inv PROVE PositionHonest
  <2>1. SUFFICES ASSUME NEW g \in Groups \ overtaken, disk # None, disk.posn[g] # None, disk.posn[g] > 0,
                        NEW s \in Lines(g), s <= disk.posn[g]
                 PROVE  s \in disk.rows[g]
    BY DEF PositionHonest, Honest
  <2>2. Sound(disk, Written, overtaken)
    BY <1>1, <2>1 DEF Inv, Data, Blank, Filled
  <2>3. s \in Written[g]
    BY <1>1, <2>1, Found DEF Inv
  <2>4. QED
    BY <2>1, <2>2, <2>3 DEF Sound, HonestAt
<1>2. QED
  BY <1>1, Invariance, PTL

\* After a self-recovery that no hidden file disturbed, the default group holds every line of
\* its stream.
THEOREM RecoveryComplete == Spec => []SelfHealComplete
<1>1. ASSUME Inv PROVE SelfHealComplete
  <2>1. SUFFICES ASSUME boot = "ready", live, healed, DefaultGroup \notin overtaken
                 PROVE  Lines(DefaultGroup) \subseteq disk.rows[DefaultGroup]
    BY DEF SelfHealComplete
  <2>2. Written[DefaultGroup] \subseteq disk.rows[DefaultGroup]
    BY <1>1, <2>1 DEF Inv, Data, Healed, Complete
  <2>3. Lines(DefaultGroup) \subseteq Written[DefaultGroup]
    BY <1>1, Found DEF Inv
  <2>4. QED
    BY <2>2, <2>3
<1>2. QED
  BY <1>1, Invariance, PTL

=============================================================================
