------------------------------- MODULE Ingest -------------------------------
(***************************************************************************)
(* knowledge_add_episode for one group: the lock-free resolution of the    *)
(* group's ontology, extraction, the lock-free lookup of known entities,   *)
(* the commit under the write lock and the record of the ontology it used; *)
(* beside it the file being edited, ontology reloads, purges, clear_all,   *)
(* rebuilds that clear drift, shutdown and restart.                        *)
(***************************************************************************)
EXTENDS Ontology

CONSTANTS
    Episodes,     \* concurrent add_episode calls
    Admin,        \* reload, purge and clear_all, one at a time
    Rebuilder,    \* the end of a rebuild, outside the lock
    Files,        \* per-group ontology files, or None
    Fallback,     \* the workspace-wide ontology file, or None
    Extractions,  \* what the model may answer: [ents, edges]
    Budget,       \* bounds: how often each kind of operation happens
    Absent

Actors == Episodes \cup {Admin, Rebuilder}

(* Every call is a task of its own, and None is no task.                   *)
ASSUME ActorsAssumption ==
    /\ Admin \notin Episodes /\ Rebuilder \notin Episodes /\ Admin # Rebuilder
    /\ None \notin Actors

VARIABLES
    base,       \* AppState.ontology: the workspace-wide one, read at start
    file,       \* what the group's ontology file reads as
    cache,      \* group_ontologies[group]
    side,       \* the recorded content hash, or Absent
    stamp,      \* the recorded identity-bearing set
    up, inst,   \* is a database loaded, and which
    ents,       \* stored entities
    edges,      \* stored RelatesToNode_ rows: [src, dst, type, ends]
    purged,     \* uuids of the entities that a purge or clear_all removed
    stored,     \* does the group hold an episode
    lock,       \* holder of write_lock, or None
    cancelled,  \* cancel_token
    task,       \* task[a]: where a is
    made,       \* entities created so far, to name the next
    left        \* what remains of Budget

disk == <<base, file, side, stamp>>
graph == <<up, inst, ents, edges, purged, stored, made>>
vars == <<base, file, cache, side, stamp, up, inst, ents, edges, purged, stored, lock, cancelled,
          task, made, left>>

Uncached == [state |-> "absent"]
Resolving == [state |-> "resolving"]
Resolved(onto, drift, refused) ==
    [state |-> "resolved", onto |-> onto, drift |-> drift, refused |-> refused]
IsResolved == cache.state = "resolved"

Idle == [pc |-> "idle"]

load_group_ontology(f) == IF f = None THEN None ELSE build_ontology(f)

(* The group's own file, else the workspace ontology.                      *)
load_resolved_ontology ==
    IF file # None THEN file ELSE base

Go(a, pc) == task' = [task EXCEPT ![a].pc = pc]
Finish(a) == task' = [task EXCEPT ![a] = Idle]
Spend(what) == left[what] > 0 /\ left' = [left EXCEPT ![what] = @ - 1]
Unlocked(a) == lock' = IF lock = a THEN None ELSE lock

-----------------------------------------------------------------------------
(* The identity-bearing set and drift.                                     *)

changed_labels(onto) == (identity_set(onto) \ stamp) \cup (stamp \ identity_set(onto))
Carried == UNION {e.labels : e \in ents}

(* "unchecked" when the database cannot be asked; a change that would      *)
(* reinterpret stored entities is refused.                                 *)
check_identity_set(onto) ==
    IF changed_labels(onto) = {} THEN "same"
    ELSE IF ~up THEN "unchecked"
    ELSE IF changed_labels(onto) \cap Carried # {} THEN "refused" ELSE "stamp"

Stamped(verdict, onto) == stamp' = IF verdict = "stamp" THEN identity_set(onto) ELSE stamp

compute_group_drift(onto) ==
    IF side = Absent THEN up /\ stored /\ onto # None
    ELSE content_hash(onto) # side

-----------------------------------------------------------------------------
(* resolve_ontology: the cached entry, or load, compare and insert, with   *)
(* no lock held from one step to the next.                                 *)

mark_group_resolving(a) ==
    /\ cache' = IF cache.state = "absent" THEN Resolving ELSE cache
    /\ task' = [task EXCEPT ![a].pc = "compute", ![a].onto = load_resolved_ontology]

Resolve(a) ==
    /\ \/ /\ task[a].pc = "resolve" /\ IsResolved
          /\ task' = [task EXCEPT ![a].pc = task[a].then, ![a].onto = cache.onto]
          /\ UNCHANGED cache
       \/ /\ task[a].pc = "mark" \/ (task[a].pc = "resolve" /\ ~IsResolved)
          /\ mark_group_resolving(a)
    /\ UNCHANGED <<disk, graph, lock, cancelled, left>>

compute_group_ontology_entry(a) ==
    /\ task[a].pc = "compute"
    /\ task' = [task EXCEPT ![a].pc = "install",
                            ![a].drift = compute_group_drift(task[a].onto),
                            ![a].verdict = check_identity_set(task[a].onto)]
    /\ UNCHANGED <<cache, disk, graph, lock, cancelled, left>>

(* Only an entry that was checked is cached, and never over another.       *)
insert_group_ontology_entry_if_not_resolved(a) ==
    /\ task[a].pc = "install"
    /\ Stamped(task[a].verdict, task[a].onto)
    /\ cache' = IF IsResolved \/ task[a].verdict = "unchecked" THEN cache
                ELSE Resolved(task[a].onto, task[a].drift, task[a].verdict = "refused")
    /\ Go(a, task[a].then)
    /\ UNCHANGED <<base, file, side, graph, lock, cancelled, left>>

(* check_identity after its resolve: the cached verdict, or the check      *)
(* again when nothing could be cached.                                     *)
check_identity(a, next) ==
    LET onto == load_resolved_ontology
        verdict == check_identity_set(onto)
        refused == IF IsResolved THEN cache.refused ELSE verdict \in {"refused", "unchecked"}
    IN /\ IF IsResolved THEN UNCHANGED stamp ELSE Stamped(verdict, onto)
       /\ IF refused THEN Finish(a) /\ Unlocked(a)
          ELSE task' = [task EXCEPT ![a] = next] /\ UNCHANGED lock

-----------------------------------------------------------------------------
(* add_episode.                                                            *)

(* Which free slot a call takes does not matter.                           *)
Start(e) ==
    /\ task[e] = Idle /\ e = CHOOSE f \in Episodes : task[f] = Idle
    /\ Spend("episode")
    /\ task' = [task EXCEPT ![e] = [pc |-> "resolve", then |-> "first_check", onto |-> None,
                                    drift |-> FALSE, verdict |-> "same"]]
    /\ UNCHANGED <<cache, disk, graph, lock, cancelled>>

FirstCheck(e) ==
    /\ task[e].pc = "first_check"
    /\ check_identity(e, [task[e] EXCEPT !.pc = "resolve", !.then = "extract"])
    /\ UNCHANGED <<cache, base, file, side, graph, cancelled, left>>

Typed(onto, x) ==
    LET named == SelectSeq(x.ents, LAMBDA n : n.name # "")
    IN [i \in DOMAIN named |->
           LET type == EntityType(onto, named[i].type)
           IN [name |-> named[i].name, kind |-> KindOf(onto, type), labels |-> LabelsOf(onto, type)]]

NoSelf(es) == {d \in es : d[1] # d[2]}

EndpointKinds(onto) == {DefaultKind} \cup identity_set(onto)

(* What a stored-graph lookup of an endpoint's name finds.                 *)
resolve_stored_endpoint(onto, name) ==
    {s \in ents : s.name = name /\ s.kind \in EndpointKinds(onto)}

Ends(es) == {d[1] : d \in es} \cup {d[2] : d \in es}

(* An endpoint the model did not list may be close enough to one that it   *)
(* did; a name that is stored exactly is left alone.                       *)
Missing(onto, listed, es) ==
    {n \in Ends(es) \ listed : resolve_stored_endpoint(onto, n) = {}}

Salvaged(es, to) ==
    LET at(n) == IF n \in DOMAIN to /\ to[n] # None THEN to[n] ELSE n
    IN NoSelf({<<at(d[1]), at(d[2]), d[3]>> : d \in es})

(* The answer of the model, reclassified; a blank name is dropped, and an  *)
(* edge from a name to itself, before and after its ends are salvaged. The *)
(* database handle is loaded here.                                         *)
Extract(e) ==
    /\ task[e].pc = "extract" /\ up
    /\ \E x \in Extractions :
          LET onto == task[e].onto
              found == Typed(onto, x)
              listed == {found[i].name : i \in DOMAIN found}
              es == NoSelf({<<d[1], d[2], RelationType(onto, d[3])>> : d \in x.edges})
          IN \E to \in [Missing(onto, listed, es) -> listed \cup {None}] :
                task' = [task EXCEPT ![e] = [pc |-> "phase_b", onto |-> onto, db |-> inst,
                                             ents |-> found, edges |-> Salvaged(es, to)]]
    /\ UNCHANGED <<cache, disk, graph, lock, cancelled, left>>

Visible(t) == IF t.db = inst THEN ents ELSE {}

(* Phase B, without the lock: the entity of that name and kind, else one   *)
(* with a similar name of the same kind, else none.                        *)
resolve_phase_b(e) ==
    LET t == task[e]
        exact(i) == {s \in Visible(t) : s.name = t.ents[i].name /\ s.kind = t.ents[i].kind}
        similar(i) == {s \in Visible(t) : s.kind = t.ents[i].kind}
    IN /\ t.pc = "phase_b"
       /\ \E found \in [DOMAIN t.ents -> {None} \cup {s.id : s \in Visible(t)}] :
             /\ \A i \in DOMAIN t.ents :
                   IF exact(i) # {} THEN found[i] \in {s.id : s \in exact(i)}
                   ELSE found[i] \in {None} \cup {s.id : s \in similar(i)}
             /\ task' = [task EXCEPT ![e] =
                   [pc |-> "judge", onto |-> t.onto, ents |-> t.ents, edges |-> t.edges,
                    found |-> found, sure |-> {i \in DOMAIN t.ents : exact(i) # {}}]]
       /\ UNCHANGED <<cache, disk, graph, lock, cancelled, left>>

(* Similar names are judged: a duplicate merges, anything else inserts.    *)
(* Then the database handle for the commit is loaded.                      *)
Judge(e) ==
    LET t == task[e]
        open == {i \in DOMAIN t.ents : t.found[i] # None /\ i \notin t.sure}
    IN /\ t.pc = "judge" /\ up
       /\ \E distinct \in SUBSET open :
             task' = [task EXCEPT ![e] =
                [pc |-> "lock", onto |-> t.onto, ents |-> t.ents, edges |-> t.edges, db |-> inst,
                 into |-> [i \in DOMAIN t.ents |-> IF i \in distinct THEN None ELSE t.found[i]]]]
       /\ UNCHANGED <<cache, disk, graph, lock, cancelled, left>>

(* Mutant: the commit trusts the check made before extraction.             *)
LockWithoutCheck(e) ==
    /\ task[e].pc = "lock" /\ lock = None
    /\ lock' = e
    /\ Go(e, "commit")
    /\ UNCHANGED <<cache, disk, graph, cancelled, left>>

(* With the lock held the identity check runs again.                       *)
LockForCommit(e) ==
    /\ task[e].pc = "lock" /\ lock = None
    /\ lock' = e
    /\ task' = [task EXCEPT ![e] = [pc |-> "resolve", then |-> "second_check", onto |-> None,
                                    drift |-> FALSE, verdict |-> "same", held |-> task[e]]]
    /\ UNCHANGED <<cache, disk, graph, cancelled, left>>

SecondCheck(e) ==
    /\ task[e].pc = "second_check"
    /\ check_identity(e, [task[e].held EXCEPT !.pc = "commit"])
    /\ UNCHANGED <<cache, base, file, side, graph, cancelled, left>>

(* Mutant: an endpoint goes by the uuid minted for its row, merged or not. *)
MintedIds(t) == [i \in DOMAIN t.ents |-> made + i]

(* The uuid of each extracted entity: the one merged into, or a new one.   *)
Ids(t) == [i \in DOMAIN t.ents |-> IF t.into[i] # None THEN t.into[i] ELSE made + i]

(* The rows of those of the entities at is that are merged into no other.  *)
Inserted(t, is) ==
    {[id |-> made + i, name |-> t.ents[i].name, kind |-> t.ents[i].kind,
      labels |-> t.ents[i].labels] : i \in {j \in is : t.into[j] = None}}

(* An endpoint: the extracted entity of that name, ambiguous when it came  *)
(* under several kinds (of one kind the last counts); else the stored one. *)
Endpoint(t, all, name) ==
    LET mine == {i \in DOMAIN t.ents : t.ents[i].name = name}
        kinds == {t.ents[i].kind : i \in mine}
        last == {i \in mine : \A j \in mine : j <= i}
        known == {s \in all : s.name = name /\ s.kind \in EndpointKinds(t.onto)}
    IN IF Cardinality(kinds) = 1 THEN {Ids(t)[i] : i \in last}
       ELSE IF kinds # {} \/ Cardinality(known) # 1 THEN {}
       ELSE {s.id : s \in known}

IdsOf(all) == {n.id : n \in all}

(* insert_relates_to_edge creates the row and then matches its ends, which *)
(* may be gone since they were looked up: that links nothing, in silence.  *)
Matched(p, all) == IF {p[1], p[2]} \subseteq IdsOf(all) THEN "joined" ELSE "missing"

(* A row for every edge whose ends resolve, to two different uuids.        *)
CommittedEdges(t, all) ==
    UNION {{[src |-> p[1], dst |-> p[2], type |-> x[3], ends |-> Matched(p, all)] : p \in
               {q \in Endpoint(t, all, x[1]) \X Endpoint(t, all, x[2]) : q[1] # q[2]}} : x \in t.edges}

(* Mutant: the lock is given back once the episode is stored.              *)
CommitUnlocks(e) ==
    LET t == task[e]
        all == ents \cup Inserted(t, DOMAIN t.ents)
    IN /\ t.pc = "commit"
       /\ IF t.db # inst THEN UNCHANGED <<ents, edges, stored>>
          ELSE ents' = all /\ edges' = edges \cup CommittedEdges(t, all) /\ stored' = TRUE
       /\ made' = IF t.db = inst THEN made + Len(t.ents) ELSE made
       /\ Go(e, "record") /\ Unlocked(e)
       /\ UNCHANGED <<cache, disk, up, inst, purged, cancelled, left>>

(* A database that was swapped away is written, and nobody sees it.        *)
Commit(e) ==
    LET t == task[e]
        all == ents \cup Inserted(t, DOMAIN t.ents)
    IN /\ t.pc = "commit"
       /\ IF t.db # inst THEN UNCHANGED <<ents, edges, stored>>
          ELSE ents' = all /\ edges' = edges \cup CommittedEdges(t, all) /\ stored' = TRUE
       /\ made' = IF t.db = inst THEN made + Len(t.ents) ELSE made
       /\ Go(e, "record")
       /\ UNCHANGED <<cache, disk, up, inst, purged, lock, cancelled, left>>

(* Every statement commits by itself, so one that fails leaves those       *)
(* before it: an entity is not inserted; an edge is not written, or its    *)
(* row is and its links are not; or the episode's mentions are not.        *)
CommitFails(e) ==
    LET t == task[e]
        all == ents \cup Inserted(t, DOMAIN t.ents)
        rows == CommittedEdges(t, all)
    IN /\ t.pc = "commit"
       /\ IF t.db # inst THEN UNCHANGED <<ents, edges, stored>>
          ELSE \/ /\ \E n \in DOMAIN t.ents : ents' = ents \cup Inserted(t, 1..(n - 1))
                  /\ UNCHANGED <<edges, stored>>
               \/ /\ ents' = all /\ UNCHANGED stored
                  /\ \E some \in SUBSET rows :
                        edges' \in {edges \cup some}
                            \cup {edges \cup some \cup {[r EXCEPT !.ends = "torn"]} : r \in rows \ some}
               \/ ents' = all /\ edges' = edges \cup rows /\ stored' = TRUE
       /\ made' = IF ents' = ents THEN made ELSE made + Len(t.ents)
       /\ Finish(e) /\ Unlocked(e)
       /\ UNCHANGED <<cache, disk, up, inst, purged, cancelled, left>>

(* Mutant: the hash is recorded whatever the cache holds by now.           *)
never_reloaded(onto) == FALSE

reloaded_since_extraction(onto) == IsResolved /\ content_hash(cache.onto) # content_hash(onto)

(* The lock is still held: first the comparison, then the sidecar.         *)
CompareHash(e) ==
    /\ task[e].pc = "record"
    /\ IF reloaded_since_extraction(task[e].onto) THEN Finish(e) /\ Unlocked(e)
       ELSE Go(e, "write") /\ UNCHANGED lock
    /\ UNCHANGED <<cache, disk, graph, cancelled, left>>

(* A sidecar that cannot be written leaves the drift reported.             *)
write_group_sidecar(e) ==
    /\ task[e].pc = "write"
    /\ \/ side' = content_hash(task[e].onto) /\ Go(e, "clear") /\ UNCHANGED lock
       \/ Finish(e) /\ Unlocked(e) /\ UNCHANGED side
    /\ UNCHANGED <<cache, base, file, stamp, graph, cancelled, left>>

(* clear_group_drift: in place, or over a resolution that is under way     *)
(* when its identity check succeeds; nothing when nobody resolved.         *)
ClearedEntry(onto) ==
    CASE IsResolved -> [cache EXCEPT !.drift = FALSE]
      [] cache = Resolving /\ check_identity_set(onto) # "unchecked" ->
             Resolved(onto, FALSE, check_identity_set(onto) = "refused")
      [] OTHER -> cache

clear_group_drift(a) ==
    /\ task[a].pc = "clear"
    /\ cache' = ClearedEntry(task[a].onto)
    /\ IF cache = Resolving THEN Stamped(check_identity_set(task[a].onto), task[a].onto)
       ELSE UNCHANGED stamp
    /\ Finish(a) /\ Unlocked(a)
    /\ UNCHANGED <<base, file, side, graph, cancelled, left>>

Waiting == {"extract", "phase_b", "judge", "lock"}

(* The model, the embedder or the database fails; or no database is there. *)
Fails(e) ==
    /\ task[e].pc \in Waiting \ {"lock"}
    /\ Finish(e)
    /\ UNCHANGED <<cache, disk, graph, lock, cancelled, left>>

(* Mutant: the wait for the judge does not listen to the token.            *)
CancellableButJudge == Waiting \ {"judge"}

Cancellable == Waiting

Cancelled(e) ==
    /\ cancelled /\ task[e].pc \in Cancellable
    /\ Finish(e)
    /\ UNCHANGED <<cache, disk, graph, lock, cancelled, left>>

-----------------------------------------------------------------------------
(* The rest of the service, and the user.                                  *)

Edit ==
    /\ Spend("edit")
    /\ file' \in {load_group_ontology(f) : f \in Files}
    /\ UNCHANGED <<cache, base, side, stamp, graph, lock, cancelled, task>>

AdminLocks == task[Admin] = Idle /\ lock = None /\ lock' = Admin

(* A file with the cached hash changes nothing; else the entry is dropped  *)
(* and resolved again.                                                     *)
BeginReload ==
    /\ AdminLocks /\ up /\ Spend("op")
    /\ ~(IsResolved /\ content_hash(load_resolved_ontology) = content_hash(cache.onto))
    /\ task' = [task EXCEPT ![Admin] = [pc |-> "mark", then |-> "reloaded", onto |-> None,
                                        drift |-> FALSE, verdict |-> "same", snapshot |-> cache]]
    /\ cache' = Uncached
    /\ UNCHANGED <<disk, graph, cancelled>>

(* An identity set that could not be checked leaves everything as it was.  *)
EndReload ==
    /\ task[Admin].pc = "reloaded"
    /\ cache' = IF task[Admin].verdict = "unchecked" THEN task[Admin].snapshot ELSE cache
    /\ Finish(Admin) /\ Unlocked(Admin)
    /\ UNCHANGED <<disk, graph, cancelled, left>>

Emptied == ents' = {} /\ edges' = {} /\ stored' = FALSE /\ purged' = purged \cup {s.id : s \in ents}

delete_by_group ==
    /\ AdminLocks /\ up /\ Spend("op")
    /\ Emptied /\ stamp' = {}
    /\ task' = [task EXCEPT ![Admin] = [pc |-> "invalidate"]]
    /\ UNCHANGED <<cache, base, file, side, up, inst, made, cancelled>>

(* clear_all: the stamps and the cached entries stay with preserve_wal.    *)
BeginClearAll ==
    /\ AdminLocks /\ Spend("op")
    /\ \E preserve \in BOOLEAN :
          /\ task' = [task EXCEPT ![Admin] = [pc |-> IF preserve THEN "reopen" ELSE "invalidate"]]
          /\ stamp' = IF preserve THEN stamp ELSE {}
    /\ up' = FALSE /\ Emptied
    /\ UNCHANGED <<cache, base, file, side, inst, made, cancelled>>

invalidate_group_ontology ==
    /\ task[Admin].pc = "invalidate"
    /\ cache' = Uncached
    /\ Go(Admin, "reopen")
    /\ UNCHANGED <<disk, graph, lock, cancelled, left>>

Reopen ==
    /\ task[Admin].pc = "reopen"
    /\ up' = TRUE /\ inst' = IF up THEN inst ELSE inst + 1
    /\ Finish(Admin) /\ Unlocked(Admin)
    /\ UNCHANGED <<cache, disk, ents, edges, purged, stored, made, cancelled, left>>

(* A rebuild ends: it records the cached ontology, or the file's, and      *)
(* clears the drift, both after it gave the lock back.                     *)
RebuildRecords ==
    /\ task[Rebuilder] = Idle /\ Spend("op")
    /\ LET onto == IF IsResolved THEN cache.onto ELSE load_resolved_ontology
       IN /\ side' = content_hash(onto)
          /\ task' = [task EXCEPT ![Rebuilder] = [pc |-> "clear", onto |-> onto]]
    /\ UNCHANGED <<cache, base, file, stamp, graph, lock, cancelled>>

Shutdown ==
    /\ ~cancelled /\ Spend("op")
    /\ cancelled' = TRUE
    /\ UNCHANGED <<cache, disk, graph, lock, task>>

Restart ==
    /\ Spend("op")
    /\ cache' = Uncached /\ lock' = None /\ cancelled' = FALSE /\ up' = TRUE
    /\ task' = [a \in Actors |-> Idle]
    /\ UNCHANGED <<disk, inst, ents, edges, purged, stored, made>>

Init ==
    /\ file \in {load_group_ontology(f) : f \in Files} /\ base = load_group_ontology(Fallback)
    /\ cache = Uncached /\ side = Absent /\ stamp = {}
    /\ up = TRUE /\ inst = 1 /\ ents = {} /\ edges = {} /\ purged = {} /\ stored = FALSE /\ made = 0
    /\ lock = None /\ cancelled = FALSE
    /\ task = [a \in Actors |-> Idle] /\ left = Budget

Resolution(a) ==
    \/ Resolve(a) \/ compute_group_ontology_entry(a)
    \/ insert_group_ontology_entry_if_not_resolved(a)

(* Steps of the program that wait for nobody outside it.                   *)
Prompt(e) ==
    \/ Resolution(e) \/ FirstCheck(e) \/ SecondCheck(e)
    \/ Commit(e) \/ CommitFails(e) \/ CompareHash(e) \/ write_group_sidecar(e)
    \/ clear_group_drift(e)

AdminStep ==
    \/ Resolution(Admin) \/ EndReload \/ invalidate_group_ontology \/ Reopen
    \/ clear_group_drift(Rebuilder)

Next ==
    \/ \E e \in Episodes :
          \/ Start(e) \/ Prompt(e) \/ Extract(e) \/ resolve_phase_b(e) \/ Judge(e)
          \/ LockForCommit(e) \/ Fails(e) \/ Cancelled(e)
    \/ AdminStep
    \/ Edit \/ BeginReload \/ delete_by_group \/ BeginClearAll \/ RebuildRecords
    \/ Shutdown \/ Restart

Spec == Init /\ [][Next]_vars

(* The model, the embedder and the judge may never answer: no fairness for *)
(* them.                                                                   *)
FairSpec ==
    /\ Spec
    /\ \A e \in Episodes : WF_vars(Prompt(e)) /\ WF_vars(Cancelled(e))
    /\ WF_vars(AdminStep)

-----------------------------------------------------------------------------
(* Properties.                                                             *)

(* While the group's identity change stands refused no entity is added,    *)
(* whatever check an episode passed before its extraction.                 *)
RefusalHolds ==
    [][(IsResolved /\ cache.refused /\ cache' = cache) => ents' \subseteq ents]_vars

(* From its decision to record the ontology it was extracted under until   *)
(* it cleared the drift, an episode's ontology is the one that is cached:  *)
(* no reload, purge, clear_all or rebuild comes between the comparison,    *)
(* the sidecar and the clear, so no newer ontology loses its drift.        *)
DriftKept ==
    \A e \in Episodes :
        task[e].pc \in {"write", "clear"} =>
            IsResolved /\ content_hash(cache.onto) = content_hash(task[e].onto)

(* An edge row whose ends were not there to be matched names an entity     *)
(* that a purge or clear_all removed after phase B found it: no other      *)
(* order of merges, inserts, reloads and failures leaves one.              *)
OrphansPurged ==
    \A r \in edges : r.ends = "missing" => {r.src, r.dst} \cap purged # {}

(* After a shutdown request every episode in flight ends, even when the    *)
(* model, the embedder or the judge never answers.                         *)
CancelDrains ==
    \A e \in Episodes : (cancelled /\ task[e] # Idle) ~> (task[e] = Idle)

(* What specs/615 promises: at most one entity of a name and kind.         *)
KeyUnique ==
    \A a, b \in ents : (a.name = b.name /\ a.kind = b.kind) => a.id = b.id

=============================================================================
