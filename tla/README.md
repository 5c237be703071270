# Liminis Context Graph: a TLA+ verification project

This directory models the Liminis Context Graph service: how a write reaches
the embedded database and the write-ahead log, how rebuilds, wipes and
recoveries replace what those two hold, what the handlers and maintenance
passes do to the graph between each other's model calls, and how requests,
connections and processes come and go around all of it. TLC checks small
instances, TLAPS proves the main safety properties of the storage core, the
start and its recoveries, the maintenance passes, the model calls and the
sessions for all of them.

    tlc -workers 2 -config service_rebuild.cfg MCGraphService
    tlapm GraphServiceProofs.tla

## 1. The system

One process serves JSON requests over a Unix socket (`crates/service`) and
keeps a knowledge graph in an embedded single-writer graph database
(`crates/core`). Mutations are also appended to a JSONL write-ahead log, one
stream (a directory) per group, from which a database can be rebuilt. Text
becomes entities and edges through language models and an embedder, which are
called without the write lock.

| component | state | operations | hard behaviour | module |
|---|---|---|---|---|
| dispatch and writes (`handlers.rs`, `app_state.rs`, `wal_exec.rs`) | `write_lock`, the `ArcSwap` handle, `active_writes` | every write request | the handle is loaded before the lock is awaited; commit, flush and position are three durable effects | `GraphService` |
| `knowledge_clear_all`, `knowledge_rebuild_from_wal` (`handlers.rs`, `rebuild_job.rs`) | files, job table, replay runs | wipe; purge and replay | two critical sections, jobs that outlive requests, clients that disconnect | `GraphService` |
| WAL writer, bounds, generation (`wal.rs`, `wal_generation.rs`) | counter, open file, manifest, record | append, rotate, resync, read bounds | torn appends, burnt seqs, lock-free readers | `WalFiles`, `WalStream` |
| replay, dump, strip (`replay.rs`, `dump.rs`, `wal_strip.rs`) | files, batch, window, statistics | apply, cancel, resume; write out; rewrite | batches roll back whole, vectors are recomputed in windows, kills | `Replay`, `WalTools` |
| start, migrations, recovery (`main.rs`, `migration.rs`, `wal_group.rs`, `recovery.rs`, `schema.rs`) | the workspace's files, the database's checkpoint and log | migrate, probe, open, backfill, self-recover, `knowledge_recover` | a failing call or a crash between any two | `Workspace`, `Recovery` |
| graph (`db.rs`, `corrections.rs`, `cross_group.rs`, `group_purge.rs`) | entities, edges, episodes, pointers, streams | assert, rename, merge, correct, delete, purge, link, rebind, rebuild | embedder calls between two passes, edges across groups, replay of one group beside newer others | `Graph` |
| maintenance passes (`canonicalize.rs`, `backfill*.rs`, `reprocess_relations.rs`) | snapshots, plans, `indices_built` | retype, relabel, re-embed | decide without the lock, write later | `Sweeps` |
| ingest and ontology (`episode.rs`, `ontology*.rs`, `identity_stamp.rs`) | the ontology cache, recorded hash and identity stamp, drift and refusals | resolve, extract, deduplicate, commit; reload | every look-up is lock-free and stale at the commit | `Ingest`, `Ontology` |
| models (`extractor.rs`, `llm_router.rs`, `embedder.rs`) | failover flag, connection pool | extract, classify, judge, embed | unread answers, timeouts, concurrent failover | `Inference` |
| clients and process (`mcp/*.rs`, `main.rs`, `transport.rs`) | sockets, connections, requests in flight | call, redial, drain, exit | lost answers, hung services, restarts | `Session` |
| reads (`search.rs`, `read_page.rs`) | cursors, `indices_built` | page, search, heal | rows come and go between pages, indexes between query and fetch | `Reads` |

What makes it correct: the log's seqs name one mutation each; the position
never claims more than the database holds, or a catch-up would skip lines for
ever; a rebuild gives back what the handlers had written; a name has one active
entity and an edge two live ends; what a request wrote is not undone by a
backfill that decided earlier; no file is lost in a migration; no call is executed
twice; requests, jobs, passes, starts and shutdowns end. Where the code does less than
this, the properties say how much less (sections 3 and 4).

## 2. Modules

`GraphService` and `WalFiles` are the storage core. `WalStream` is what the first takes the
second for, and `WalFiles` is shown to implement it (`ImplementsStream`). `Recovery` extends
`Workspace`, `Ingest` extends `Ontology`, `WalTools` extends `Replay`: the first of each pair
composes the second with what runs around it. The other modules each cut the system at one
interface: what they share (the lock, the swap of the database, a replay) is modelled in each as
far as its properties need it. An `MC` module fixes a small instance of each; `MCWal` holds two
kinds, of the directory (`WalFiles`) and of the tools (`WalTools`), told apart by the initial
state. `GraphServiceProofs`, `WalFilesProofs`, `RecoveryProofs`, `SweepsProofs`, `IngestProofs`,
`InferenceProofs`, `SessionProofs` and `ReadsProofs` hold the theorems (section 6).

Everywhere, a step boundary lies where the code awaits a lock or an answer,
reads shared state without the lock, or goes from one durable effect to the
next; history variables, which no guard reads, are marked as such.

### GraphService

- A **database** is an incarnation number. `live` is what the `ArcSwap` holds
  (None while `knowledge_clear_all` works or after it failed), `disk` what is at
  `db_path`. Rows and positions are kept per incarnation, so a handler that
  loaded its handle earlier visibly writes to a dead one.
- A **write** is `BeginWrite` (the degraded-mode guard of `handle`), `LoadDb`,
  `Commit` or `CommitFails` (lock and statements), `Flush` or `FlushFails`,
  `advance_wal_position` (position, guard dropped, answer): one row, one line.
- **knowledge_clear_all** is `BeginClearAll`, `ClearAll`, `ClearAllRemoveDb`,
  `ClearAllRemoveWal` (a stream's lines and its generation record, in any
  order, as `remove_dir_all` gives none), `ClearAllReinit`, and `ClearAllFails`
  at any of them.
- **knowledge_rebuild_from_wal** is `BeginRebuild` (generation check),
  `RebuildGuard` (emptiness, `active_writes`), `clear_group_for_rebuild` and
  `ClearedPosition`, `RebuildAdmit` (second check, job deduplication),
  `RebuildSpawn`, then the run: `TaskLock`, `ReplayBatch`, `ReplayFinish` or
  `ReplayFails`, `JobStatus`. How lines fall into batches is left open here and is
  the subject of `Replay`. "catch_up" is the caller that asks for
  `from_seq = applied_seq + 1`.
  The request's `to_seq` and a `from_seq` of the caller's own choice are left out, and
  its two unlocked reads of position and generation are one step.
- **Disconnect** is `handle_streaming_request` aborting its dispatch task: the
  guard goes, the blocking closure stays and may commit one more batch, then
  resyncs and persists like any other.
- **Crash** takes all process state; **Restart** opens what is on disk.

### WalFiles and WalStream

A file is its lines (a seq, or `Junk` for one that does not parse), whether the last one lacks
its newline, and its size. `with_chunk` writes all of a chunk; `with_chunk_err` and `Crash`
leave any prefix, down to part of a line. The next append of the *same* writer joins such a tail
(`Extend`); a new writer always starts a new file. The writer runs under the lock, so its
operations are single steps; the bounds are read without any lock, so each of a reader's file
accesses is a step. A delivered file and the resync that follows it are one step
(`ImportAndResync`): the code promises nothing of an append before the resync. `WalStream` keeps
of all this the set of readable seqs, the counter and the tail; its mapping is `Readable`,
`global_seq`, `OpenTail`.

### Workspace and Recovery

An entry of the workspace (the database, its log, WAL files, the generation record, ontology
files) has a content in each place it may be in. Every action of the two migrations is one
system call; any may fail, and the process may die between two. A WAL root on another volume
makes the merge of the old log a copy and a later removal, of which the copy may stay torn
(`MergeCopyTorn`); with a backup kept, `RetireLegacy` renames what is left in `.graphiti` with
it. `Recovery` goes on with the embedder probe, the open with its schema backfills, the position
backfill, the self-recovery (drop the engine's log, derive a cursor from the episodes that
survived, replay, fall back to a full rebuild), the four `knowledge_recover` strategies, writes
and checkpoints. `cutShort` records a replay that failed or died before its key backfill. An
open that fails is answered with the recovery when the engine's log is torn and with an exit
otherwise; why else it failed (a lock held by another process) makes no difference to the files.
Writes go to the other groups, never to the default one, so the case of a write that overtakes
missing lines is met with those (`overtaken`).

### Graph

The database is a set of rows; handlers run lists of statements on it and append
the same statements to the stream of the owning group, and a rebuild applies a
stream again. So `ReplayReproduces` compares the two by running the model's own
statements, not by a second definition of replay. An edge is its row, its two hops and
its direct relations, which hang on the entities and not on the row (`direct`), so
that a purge takes them with its own entities only. Assert handlers are two actions
with the embedder between them; a rebuild is its clear and its replay. Merges,
corrections, deletions and rebinding are one action each, as they run under one
guard. `tainted` marks groups where the code is known not to protect the
property (section 4). `Owned` is what a replay is compared on: entities, episodes, and
edges with the hops and direct relations of those within the group; the ends of a
pointer's edge depend on the other group at the time of the replay.

### Sweeps, Ingest, Ontology

A pass of `Sweeps` is its read, its calls outside the lock and its batches of
writes; the summary pass holds the lock throughout and drops the index. `Ingest`
follows `add_episode` from the resolution of the ontology through extraction,
deduplication and the judge to the commit, with its two refusal checks and, under
the same lock, the comparison of hashes, the sidecar and the clear of the drift as steps
of their own. An edge row is created first and its ends are matched after it, so a row
is joined, or missing ends that are gone, or torn by a failing statement; a failing commit
leaves any prefix of its statements; beside it the file is edited, reloaded, the group
purged, cleared and rebuilt, the service shut down and restarted. `Ontology` holds
the pure part: parents, cycles, identity-bearing types, aliases, reclassification
and hashes. Its walks along parents are recursive functions bounded by the number
of types, so that proofs may speak of the modules that use it.

### Inference, Session, Reads, Replay, WalTools

`Inference` is a call of a task: its retries, its second attempt with a larger
budget, the failover, and the pool of held connections on which answers may stay
unread. `Session` is an attached MCP process (scopes, redial, one retry of a
failed *write*, none of a failed read), the service's connections and dispatches,
and its shutdown. Progress lines come without end, and the read timeout starts anew with
each. A streaming dispatch, or work given to a blocking thread, outlives the abort of its
connection (`loose`), and the process exits only when none is left (`Held`). A write to a
connection fails only when the other end is closed, so the flush error of
`attached.rs:110`, ambiguous in itself, never hides a delivered call. The binding of the
socket at the start allows more than the code, which stops when another process holds the
database. `Reads` has walkers that page through a listing, searches that
query several indexes, fuse ranks and fetch rows, and the requests that change
rows and indexes meanwhile. A page has room for a row: `list_entities` refuses
another size, and `get_episodes` answers it with nothing and no cursor. `Replay` is
`replay_opts` line by line, with the BEGIN or COMMIT that fails and ends it (`Opens`,
`FlushTo`); a vector is named by the text it was made of, so that another row's can be
told. `WalTools` runs it, cancelled and resumed, over dumped, stripped and damaged logs. A
page of the dump is taken of an order chosen anew by every query among rows of one sort key
(`Orders`).

## 3. Runs

Bounds are constants named in the modules (`Max...`, sets of ids) and appear only
in guards.

| run | instance | shows |
|---|---|---|
| `service_rebuild` | 1 client, 1 background run, 2 rows, 2 databases, 1 crash, `FairSpec` | one lock holder, no seq twice, `PositionHonest`, requests and the jobs whose task was spawned end |
| `service_swap` | 2 clients, 2 runs, 1 row, 2 databases, 1 disconnect | writers stay past their streams, and none survives a wipe |
| `log`, directory | chunks of 1 and 2, 3 files, 1 failure, 1 crash, 1 delivered file, 1 reader | `LogSound`, `ReadExact`, refinement of `WalStream` |
| `log`, tools | a dumped graph and two logs with everything a log may hold, 3 replays, 1 crash | `ReplayExact`, `RoundTrip` |
| `startup` | 2 WAL files, 2 groups, every layout, 1 fault, 1 crash, `FairSpec` | files, generations and positions through migration and recovery; starts settle |
| `graph` | 2 groups, 4 entities, 3 edges, a pointer, 2 clients, 3 calls | uniqueness, tombstones, pointers, direct relations, replay |
| `sweeps` | 2 passes, 2 edges, 2 entities (one merged), a clear_all, `FairSpec` | passes earn the types they write, backfills respect what came later, passes end |
| `ingest` | 2 episodes, 1 edit, 1 administrative operation, `FairSpec` | edge rows without ends explained, refusals, drift, cancellation |
| `inference` | 2 tasks, 1 pool slot, 2 connections, 3 calls, `FairSpec` | answers match, requests bounded, embeddings end |
| `session` | 2 services, 2 clients, 2 connections, 2 calls, 1 kill, `FairSpec` | calls exact; shutdowns and calls end, but for a dispatch that outlives its connection and endless progress lines |
| `reads` | 3 rows of 2 groups with tied times, 1 walker, 2 searches, 2 writers, 2 reads in all | pages exact, searches heal, ranking kept |
| `concurrent_ingest` | 2 episodes | violated: `KeyUnique` |
| `service_jobs` | 2 clients (assert, catch-up, `clear_all`), 1 run, 1 row, 2 databases, `FairSpec` | violated: `JobsFinish` |

Why the bounds are enough for the cases they are meant for: two actors give a lock
holder and a waiter with what it read earlier, and a background run or an abandoned
replay is a third; two rows give order and duplicates; one fault and one crash give
every single point of failure, and a crash after a fault. Three calls of `graph`
are a first pass, an interfering handler and the second pass, on top of a graph that
already has edges, an episode and a pointer. In `inference` one slot makes every
exchange meet what the last one left, and two busy answers are one more than a
broken exchange is worth. Instances with three waiting requests are
covered by the proofs only.

What the properties say beyond their names:

- `PositionHonest` (`GraphService`) joins three statements: a position points into the
  log of its generation; a (generation, seq) pair names one mutation for ever; every
  line at or below it was committed. The last is not said of the groups in `behind`, which a
  purge, a log kept by `clear_all`, or a write that reached the log and a swapped database
  took lines from and no complete clean replay has given them back. The exception is needed: a
  forced rebuild that purged and then waits may be overtaken by an episode; its row makes the
  replay's create of the same row fail, the batch rolls back with an older line in it, and the
  position moves past both. The second is not said of the groups in `severed`, whose log an
  unfinished wipe removed without the record. That of `Recovery` says the same of a start,
  outside groups written past missing lines.
- `CallsBounded`: a busy service is asked again `MaxBusy` times, a broken exchange is repeated
  once, and both again with the larger budget; so `PerBudget` depends on who serves the call.
- `WriterAhead` and `WipeHasNoWriter` hold as stated until a client disconnects; after
  that the abandoned closure may create a writer in the middle of a wipe.
- `LogSound` contains `DamageBounded`: a torn tail can swallow one *acknowledged* line,
  the next one the same writer appends, never more. `ReadExact` states the bound for logs
  without failed appends or delivered files and without the race of section 4.
- `SpawnedJobsFinish` speaks of the jobs whose task was spawned, `JobsFinish` of every
  job that says it is running; only the first holds (section 4).
- `ReplayExact` says that at every moment, a failed BEGIN or COMMIT and a cancelled run
  included, the database is what a committed prefix of the log makes, that the statistics
  account for each line of it once, and that no vector is the log's or another row's.
- `RoundTrip` promises the nodes, no relation that was not there, and every *dumped*
  relation whose equals under the sort key fit in one page. Section 4 lists what a dump leaves out.
- `MigrationSafe` joins `NothingLost`, `LeftoverReportedOrKept` and `KeysTrusted`. The second
  excepts leftovers in a backup the user asked for, the third a database on which a replay
  failed or died before its key backfill (`cutShort`); both exceptions are what the code
  does (section 4), and the properties show that nothing else leads there.
- `DirectAgrees` excepts one thing, a direct relation stranded by a purge of the group that
  owned its row.
- `OrphansPurged` explains the edge rows whose ends were not there: a purge or `clear_all`
  took the end after phase B had found it. Merges, reloads and other episodes leave none.
- `DriftKept` holds over three steps, the comparison of hashes, the write of the sidecar and
  the clear of the drift: no reload gets between them, as the lock is held through all three.
- `BackfillsKeepWrites` is about the backfills of relation types and of summaries. Canonicalisation
  and the two reprocess passes do overwrite what came later (section 4).
- `ShutdownEnds` says "ends, unless something that outlived its aborted connection still holds
  the state"; `CallsEnd` says "a call whose request was written ends, unless progress lines
  never stop". Dialling and writing, which have no timeout, are not claimed.
- `OneActive`, `NoEdgeOnTombstone` and `PointersSound` speak of groups that are not cleared
  and not tainted; `early` excuses a group replayed after one it points into was purged.
- `FlagTruthful` and `FindsHeal` excuse `misled`, the flag set over a database that was
  swapped away (section 4); `FindsHeal` excuses a search during which another request, or
  another search, changed the indexes (`raced`).
- `CallsExact`: a call answered ok ran exactly once, no call ran twice, none ran beyond its
  scope. An answer that was lost says nothing.

Every property has at least one mutant in `PROJECT.json`, one per conjunct where a property
is a conjunction of independent parts.

## 4. Disagreements and races

`concurrent_ingest` is violated by what the code does: `add_episode` decides in Phase B,
without the lock, that an entity is new, and Phase C inserts it without looking again, so two
episodes in flight insert a name twice, where `specs/615-kind-scoped-entity-identity/spec.md:125`
asks for uniqueness "enforced by the write lock plus kind-scoped resolution".

`service_jobs` is violated by what the code does: `knowledge_rebuild_from_wal` enters its job as
running and then calls `load_db` (`handlers.rs:3342`). While a `clear_all` of another client has
no database loaded, that call fails, nothing is spawned, and the entry runs for ever and is the
answer to every later background rebuild, where `specs/29-tier-2-wal-admin/spec.md:78` promises
`status: "failed"` for a rebuild that errored.

Further statements of comments and specifications that the code does not keep. The first six
are formulas in a last section of `GraphService` and in `WalFiles`; TLC refutes each with the
mix of requests named, and the properties of the runs are stated beside them.

| statement | behaviour |
|---|---|
| `AckedWritesAreLive` (`app_state.rs:938`) | assert and `clear_all`: load handle (`handlers.rs:2012`), wait, the database is swapped, commit to the dead one, answer success |
| `PositionNeverLeads` (`specs/353-persist-and-expose-an/spec.md:109`) | assert and `clear_all` with `preserve_wal`: one write moves the position past all unreplayed lines (`handlers.rs:2191`) |
| `ClearedIsReplayed` (`handlers.rs:3746`, `2822`) | episode and forced rebuild: the purge commits, the second busy check refuses (`3234`) |
| `RunningJobHasTask` (`specs/29-tier-2-wal-admin/spec.md:78`) | rebuild and `clear_all`: job inserted, `load_db` fails (`3342`), the entry runs for ever |
| `ReplayIsLocked` (`handlers.rs:2855`) | the disconnect drops the guard under a running replay (`main.rs:137`) |
| `BoundsExact` (`wal.rs:644`) | last seq read, append, size read: a stale bound is cached (`wal.rs:467`) |
| lookup keys trusted (`schema.rs:753`) | a crash between a replay's old lines and the backfill leaves rows without a key under a "complete" record; no later open repairs them |
| a new stream has a new generation (`wal_generation.rs:3`, `specs/387-wal-streams-have-no/spec.md:255`) | `clear_all` fails or dies after a stream's log and before its record is removed (`handlers.rs:2134`): the stream starts at 0 again under the old generation |
| an `extract: false` type is not accepted from the extractor (`docs/ontology.md:333`) | the status backfill gives an untyped edge the type that its extracted name spells, declared `extract: false` or not (`backfill.rs:92`) |
| a search or an ingest that meets a missing index heals it or sees the flag already set (`backfill_summary_embeddings.rs:36`, `crates/core/tests/dedup_auto_heal_integration.rs:210`) | of two that miss an index at once, the second asks for the flag after the first has built (`handlers.rs:1210`, `episode.rs:916`): it takes the built index for a redundant rebuild and answers with the error. TLC finds it in eight states when `Healed` does not count the other search's build in `raced` |
| tombstones stay merged | `reprocess_entity_types` rewrites labels without `Merged` (`corrections.rs:726`) |
| no data left in `.graphiti` without an error (`migration.rs:428`) | with `LCG_MIGRATION_KEEP_BACKUP` a stranded database or colliding WAL files are renamed into `.graphiti.bak` with the tree, under the outcome "migrated" (`migration.rs:300`) |
| only a MENTIONS from before a migration has no uuid (`dump.rs:476`) | `insert_mentions_edge` gives a MENTIONS no uuid (`db.rs:1100`), so a dump skips every one the service wrote itself |

What the handlers and tools lose or leave behind, which the properties except and these lines admit:

- **Edge rows without ends.** `insert_edge` creates its row before it matches the ends
  (`db.rs:820`, `845`) and the commit does not look again for the entities phase B found
  (`episode.rs:1265`): after a purge or `clear_all` in between, a row joins nothing. A statement
  that fails leaves a row with one hop or none, and the entities and edges before it.
- **Passes that overwrite.** `canonicalize_relations` and the reprocessing of relations set
  types without a condition on what they had read (`canonicalize.rs:449`,
  `reprocess_relations.rs:299`): an assertion made while they decided is undone.
- **Torn copies.** Where the WAL root is on another volume the merge of the old log copies
  (`migration.rs:354`); a copy cut off by a crash is met at the next start as a collision with
  its own original (`migration.rs:380`), which no later start resolves by itself.
- **Stranded relations.** A purge deletes direct relations through its own entities only
  (`db.rs:1520`): a layer's edge between two entities of other groups leaves its direct
  RELATES_TO behind. And a rebuild made while another group is purged writes the edge rows that
  end there without that end.
- **Dumps.** Relations are paged by a source uuid many may share, with SKIP and LIMIT
  (`db.rs:3793-3916`), so equals on two pages may be skipped or repeated; direct RELATES_TO and
  single hops are not dumped (`dump.rs:64`), nor the far ends of a group-filtered dump.
- **Replays that end in an error.** The caller gets no statistics, and whether the last batch is
  committed is open (`replay.rs:1575`).
- **Shutdowns that do not end.** `main.rs:1201` waits without a limit for the sink to drain, and
  so for every holder of the state; a streaming dispatch (`main.rs:114`) or a blocking closure
  is not reached by the abort of its connection.
- **Calls that do not end.** A dial and a write have no timeout (`attached.rs:100`, `191`), and
  every progress line starts the read timeout again (`attached.rs:236`).

Read off the models' excuses and left as remarks: a layer's pointers are rebound after a
rebuild only when a reset was detected (`handlers.rs:3064`); a write between a purge and its
replay conflicts with it (`3717`); corrections are flushed to the default group's stream
whatever group they change (`3851`); `same_as` accepts a tombstone as canonical, so chains may
loop (`corrections.rs:659`); a merge leaves the alias's cross-group edges on the tombstone; the
summary pass and the status backfill use a handle loaded before the lock
(`backfill_summary_embeddings.rs:105`, `handlers.rs:496`); `build_indices` sets its flag after
unlocking (`handlers.rs:1535`) and `clear_all` stores the new database before it resets the flag
(`2215`); a lock-free ontology insert may undo a reload (`app_state.rs:789`); a rebuild writes
its ontology record and clears drift after it dropped the lock (`handlers.rs:3144`); an
unopenable WAL file is skipped uncounted (`replay.rs:620`) and overlapping files are read one
after the other (`replay.rs:542`); a second service takes over the socket path
(`transport.rs:79`); an extraction over the sidecar has no timeout (`extractor.rs:1591`). The
repository's `README.md:12` says a mutation is logged before it touches the database; the code
commits first, so what a failing ingest committed is in no log.

## 5. Fairness

- `GraphService`: strong fairness of each client's and each replay run's own steps. tokio polls
  every ready task, blocking closures have their own threads, and its `RwLock` queues waiters in
  FIFO order, so a waiter enabled again and again gets the lock. The same holds for the passes of
  `Sweeps`.
- `Recovery`: weak fairness of the start, one sequential task.
- `Ingest`: weak fairness of an episode's own and its cancellation steps and of the
  administrator's; none for the model, the embedder and the judge, which may never answer.
- `Inference`: weak fairness of the client side, timers included; none for the services.
- `Session`: weak fairness of a client's reading, its timer included, and of accepting,
  serving and stopping; none for a dial, a write, a dispatch or what outlives its connection,
  each of which may hang.

Nothing is assumed of requests, disconnects, crashes, signals and restarts. A crash answers
nobody: "down" counts as the end of a request.

## 6. Proofs

`GraphServiceProofs` proves, for every set of groups, clients and runs and every bound that
satisfies `ConstantsAssumption`:

- `InvCorrect`: `Spec => []Inv`, the inductive invariant;
- `TypeCorrect`, `Exclusion`, `SeqsUnique`, `WritersAhead`, `WipeSafe`: `TypeOK`, `LockHeld`,
  `SeqsIncrease`, `WriterAhead`, `WipeHasNoWriter` of the runs.

`SeqsIncrease` is not inductive alone: an append keeps it only if the writer is past every
line (`WriterAhead`), a new writer is past every line because of the scan, and the scan has a
maximum to find because the seqs increase (`ScanAhead`). `WriterAhead` in turn needs
that a wipe finds no cached writer (`WipeHasNoWriter`), since it deletes the generation record
the writer carries; that needs that nobody creates one during the wipe, which is `LockHeld`:
flushes and the ends of replays happen only under the lock. Disconnects break the last link, so
`Attached` ties the abandoned runs to `drops`, and the parts that depend on the link are stated
for `drops = 0`. The proof has one lemma per action or group of actions and one step per
conjunct of `Inv` the action can disturb.

`PositionsHonest` is `PositionHonest` for the same constants. A
position is written through a handle taken some steps earlier, so `Pos` follows every handle
(never newer than the newest database), every seq on its way into a position, and the lines a
running replay has behind it. A stream loses lines only while no database is at `db_path`, and
the next one is newer than every handle, so nothing recorded before a wipe reaches it.

`WalFilesProofs` proves `LogInOrder` (`LogSound`) and `DirectoryIsStream`
(`ImplementsStream`), for any number of readers, chunks, files, failures, crashes and
deliveries. A new line gets a seq beyond all that can be read, so an append cannot break the
order in a file or across files. `DamageBounded` is about a count, so its invariant is a
potential: a tail in the writer's own file is either still harmless or has been paid for by the
failed append that left it. The refinement takes each action to the step of `WalStream` it
implements, or to a stutter: rotation, the readers and their manifest change nothing a stream has.

It also proves `BoundsRead` (`ReadExact`). `BoundsInv` says of any bounds a reader or
the manifest holds: if they were taken of as many files as there are now, they name the file
whose seq bounds the log, and the size they saw tells whether the cached seq is still that
file's last; and of a scan under way, the same for the files it has visited.

`RecoveryProofs` proves all four invariants of `startup` (`MigrationSound`, `GenerationKept`,
`PositionNeverLeads`, `RecoveryComplete`) for any groups, files, lines, faults, crashes and
writes. `Tree` is about the files: which places may hold what while each directory exists, that
a start which went on over leftovers has reported them or keeps them in the backup asked for,
and that a loose generation reaches its group before a file does. One lemma (`FileStep`) says
what a step may do to the files; each call is shown to do no more. `Data` is about the databases
on disk, in the checkpoint and in the backup, any of which the next open may find: each has
applied a prefix of its stream (`Prefix`), so a position taken from any applied line is honest
and a cursor taken from the latest surviving episode, whichever that is, skips nothing; and a
replay still has ahead of it all its database lacks (`Ahead`). Groups written or replayed past
missing lines are excepted by the history variable `overtaken`. The constants' assumptions are
that None is no caller and that a workspace with data has a line.

`SweepsProofs` proves `LabelsEarned`, `IndexFlagTruthful` and `BackfillsRespectWrites`
(`BackfillsKeepWrites`), for any number of passes and databases; of canonicalisation it
claims what types it may bring, not when. A pass writes by a plan it made
before, so the invariant is about plans: what a relation plan may hold is fixed when it is made;
a summary plan agrees with the rows because its pass holds the lock from its read to its end.

`IngestProofs` proves `Invariant`, `RefusalStands` (`RefusalHolds`), `DriftSurvives`
(`DriftKept`) and `OrphansExplained` (`OrphansPurged`), for any number of episodes, any ontology
files and whatever a model extracts; `ActorsAssumption` says that episodes, the administrator and
the rebuilder are different actors. A refusal is checked before the extraction and again under
the lock, and only the second check counts. `Exclusion` says who may be at which step while the
lock is held or free; a cached resolution is dropped or restored by a holder only, so
`VerdictStands`: the verdict that let an episode through is the one cached when it commits, and the
ontology it compared is the one cached until it cleared the drift, since a reload needs the lock the
episode holds through the three steps. An end that cannot be matched was an id phase B found or
the commit minted and stored just before; ids once found stay known, and only a purge or a
`clear_all` takes entities away.

`InferenceProofs` proves `AnswersOwn` and `CostBounded`, for any number of tasks, slots,
connections and retries and any token ceiling. An answer belongs to its request because a
connection in a slot nobody has locked carries nothing unread and no two slots share one. The
bound counts why each request of a call was sent.

`SessionProofs` proves `CallsOnce` (`CallsExact`), for any number of services, attached
processes, connections and calls. A call that has not run is in at most one place (its client,
the inbox or the work of one connection, or a dispatch that outlived its connection); every
step moves it on or drops it, and the step that runs it takes it away.

`ReadsProofs` proves `SearchesHeal` (`FindsHeal`), for any clients, rankings and bounds. `Calm`
follows a search nobody disturbed: it has the database that is served, whoever holds the lock
leaves the indexes alone, what it misses is not flagged as built and what it healed is complete.
That rests on `Flagged`: `indices_built` means that the database has its indexes, except while
`clear_all` is between storing a fresh database and resetting the flag.

It also proves `WalksExact` (`PagesExact`), for any rows, page sizes, queries and writers under
`WalkAssumption` (uuids are ordered, `created_at` is a time that rows may share, a page has room
for a row, a cursor is there or not). `ToCome` is the heart of it: a row that stayed all the time
is given already, or behind the cursor. `CursorOK` says that the cursor is the last row given
and belongs to the walk's query, so that a page extends what was given in order; `Seen` says
that what stayed is in the database the next page reads, or nothing stayed because `clear_all`
took it. That any set of rows can be listed in order at all (`Sortable`) is the one induction: it
takes a smallest set that cannot, by the well-foundedness of inclusion among finite sets.

What the proof attempts changed in the models: `PositionHonest` was false after a half-finished
`clear_all` (now `severed`, and `clear_all` in `service_rebuild`); the bound on requests was
wrong for `MaxBusy = 0`; `AssertOnlyByAssertion` did not say what the backfill may give; two
`CASE`s of `Ontology` had overlapping arms; and with a second search `FindsHeal` was false
(section 4), so `raced` now counts another search's build, and `reads` runs with two searches.
TLAPS 1.4.5 expands an `@` inside a nested `[@ EXCEPT ...]` wrongly; the modules the proofs
speak of have none.

Only model-checked: liveness and everything under fairness, which TLAPS 1.4.5 cannot express;
the properties of `Graph`, `Replay` and `WalTools`, which compare folds over logs of any length;
and `RankedByEvidence` of `Reads`: its weights are integer quotients, which tell ranks apart only
for lists as short as the instance's.

## 7. Plan

1. Proofs: `OneActive` and `NoEdgeOnTombstone` of `Graph`, over its rows without its logs.
2. Checkpoint names: create and tombstone chains, racing requests.
3. The file steps of a generation mint and its healing.
4. `Graph` with the type pass of `Sweeps`, to state what reprocessing does to tombstones.

## 8. Not modelled

The evaluation harness, the Swift sidecar, prompts, telemetry, cassettes, argument schemas and
framing carry no state the properties speak of. Single-statement reads are the database's. The
embedding cache changes the cost of a vector and not the vector. Query texts, scores, summaries
and error messages are data the properties do not tell apart. Checkpoint names are planned.
Each hazard without a property in `PROJECT.json` says why.
