------------------------------- MODULE Graph -------------------------------
(***************************************************************************)
(* The knowledge graph and the handlers that write it: assertions, merges, *)
(* corrections, cross-group edges and the re-binding of their pointers,    *)
(* deletions, and the rebuild of a group from its WAL stream. Every handler *)
(* runs its statements under the write lock and flushes them to the stream *)
(* of a group; a rebuild applies a stream again. The assert handlers leave *)
(* the lock while the embedder runs, a rebuild between its clear and its   *)
(* replay: those are the points where handlers interleave.                 *)
(*                                                                         *)
(* An id stands for a uuid and, since ids are given out in order, for the  *)
(* time of creation; a row keeps what handlers read.                       *)
(***************************************************************************)
EXTENDS Integers, Sequences, FiniteSets, SequencesExt, FiniteSetsExt, TLC

CONSTANTS
    Groups,       \* group_ids
    DefaultGroup, \* wal_group::DEFAULT_GROUP_ID
    Names, Kinds, \* normalized entity names and kinds
    Chunks,       \* chunk ids of episodes; one source file holds them all
    EntityIds, EdgeIds, EpisodeIds,  \* bounds: ids that may be given out
    None, Err,    \* Option::None and Result::Err
    Clients,      \* callers of the two-pass assert handlers
    Seed,         \* Seed[g]: statements already in the stream of g
    EdgeInputs,   \* bound: the pairs of ends cross-group edges are asked for
    MaxCalls      \* bound: handler calls

ASSUME GraphAssumption ==
    /\ DefaultGroup \in Groups
    /\ EntityIds \subseteq Nat /\ EdgeIds \subseteq Nat /\ EpisodeIds \subseteq Nat
    /\ MaxCalls \in Nat

VARIABLES
    db,       \* the database: ent, edge, ep, and direct (see EmptyDb)
    log,      \* log[g]: the statements in the stream of g
    applied,  \* applied[g]: WalPosition.applied_seq, or None
    pc,       \* pc[c]: an assert between its two passes, or None
    cleared,  \* groups whose rows were cleared and whose stream is not replayed yet
    tainted,  \* history: groups written where the code does not protect them
    purged,   \* history: groups whose rows were deleted at least once
    early,    \* history: groups replayed after a group they point into was purged
    calls

vars == <<db, log, applied, pc, cleared, tainted, purged, early, calls>>

Sides == {"src", "dst"}
(* direct[i]: the entity-to-entity relations that carry the uuid of edge i; *)
(* they are relations of the entities, not of the edge's own node.         *)
EmptyDb == [ent |-> [i \in EntityIds |-> None], edge |-> [i \in EdgeIds |-> None],
            ep |-> [i \in EpisodeIds |-> None], direct |-> [i \in EdgeIds |-> {}]]

Ents(d) == {i \in EntityIds : d.ent[i] # None}
Edges(d) == {i \in EdgeIds : d.edge[i] # None}
Eps(d) == {i \in EpisodeIds : d.ep[i] # None}
Active(d) == {i \in Edges(d) : ~d.edge[i].invalid}
Unmerged(d) == {i \in Ents(d) : ~d.ent[i].merged}

-----------------------------------------------------------------------------
(* The statements. MATCH makes a statement a no-op when a row is missing;  *)
(* a CREATE of a node that exists fails. DETACH DELETE takes the           *)
(* relations of a node with it.                                            *)

Detached(row, gone) == [row EXCEPT !.hop = [s \in Sides |-> @[s] \ gone]]

(* A direct relation goes with an entity of the group at one of its ends:  *)
(* that of an edge of the group between two entities of others stays.      *)
DeleteGroup(d, g) ==
    LET gone == {i \in Ents(d) : d.ent[i].group = g}
    IN [ent |-> [i \in EntityIds |-> IF i \in gone THEN None ELSE d.ent[i]],
        edge |-> [i \in EdgeIds |->
                    IF d.edge[i] = None \/ d.edge[i].group = g THEN None
                    ELSE Detached(d.edge[i], gone)],
        ep |-> [i \in EpisodeIds |->
                    IF d.ep[i] # None /\ d.ep[i].group = g THEN None ELSE d.ep[i]],
        direct |-> [i \in EdgeIds |->
                    {p \in d.direct[i] : p[1] \notin gone /\ p[2] \notin gone}]]

ApplyEntity(d, m) ==
    IF (m.op = "entity") # (d.ent[m.id] = None) THEN d
    ELSE CASE m.op = "entity" -> [d EXCEPT !.ent[m.id] = m.row]
           [] m.op = "core" -> [d EXCEPT !.ent[m.id].name = m.name,
                                  !.ent[m.id].merged = FALSE, !.ent[m.id].into = None]
           [] m.op = "merged" -> [d EXCEPT !.ent[m.id].merged = TRUE,
                                           !.ent[m.id].into = m.to]
           [] m.op = "created_at" -> [d EXCEPT !.ent[m.id].at = m.at]

Linked(d, m) == d.ent[m.from] # None /\ d.ent[m.to] # None

ApplyEdge(d, m) ==
    IF (m.op = "edge") # (d.edge[m.id] = None) THEN d
    ELSE CASE m.op = "edge" -> [d EXCEPT !.edge[m.id] = m.row]
           [] m.op = "hops" ->
                IF ~Linked(d, m) THEN d
                ELSE [d EXCEPT !.edge[m.id].hop["src"] = @ \cup {m.from},
                               !.edge[m.id].hop["dst"] = @ \cup {m.to}]
           [] m.op = "hop" -> IF d.ent[m.to] = None THEN d
                              ELSE [d EXCEPT !.edge[m.id].hop[m.side] = @ \cup {m.to}]
           [] m.op = "unhop" -> [d EXCEPT !.edge[m.id].hop[m.side] = {}]
           [] m.op = "pointers" -> [d EXCEPT !.edge[m.id].ptr = m.ptr]
           [] m.op = "invalid" -> [d EXCEPT !.edge[m.id].invalid = TRUE]

ApplyDirect(d, m) ==
    [d EXCEPT !.direct[m.id] = IF m.op = "undirect" THEN {}
                               ELSE IF Linked(d, m) THEN @ \cup {<<m.from, m.to>>} ELSE @]

EntityOps == {"entity", "core", "merged", "created_at"}

Apply(d, m) ==
    CASE m.op = "purge" -> DeleteGroup(d, m.group)
      [] m.op = "episode" -> IF d.ep[m.id] # None THEN d ELSE [d EXCEPT !.ep[m.id] = m.row]
      [] m.op = "unepisode" -> [d EXCEPT !.ep = [i \in EpisodeIds |->
                                                   IF i \in m.ids THEN None ELSE @[i]]]
      [] m.op \in EntityOps -> ApplyEntity(d, m)
      [] m.op \in {"direct", "undirect"} -> ApplyDirect(d, m)
      [] OTHER -> ApplyEdge(d, m)

(* exec_params on a connection: apply, and remember for the flush into the *)
(* stream of g (drain_mutations, GroupedMutations).                        *)
Exec(acc, g, m) == [db |-> Apply(acc.db, m), log |-> [acc.log EXCEPT ![g] = Append(@, m)]]

ExecAll(acc, g, ms) == FoldLeft(LAMBDA a, m : Exec(a, g, m), acc, ms)

Here == [db |-> db, log |-> log]

(* wal_flush_ungrouped and advance_wal_position for each stream that got   *)
(* statements. A stream whose rows are cleared is not protected against    *)
(* writes until it is replayed.                                            *)
Written(acc) == {g \in Groups : acc.log[g] # log[g]}

NewLines(acc) == UNION {ToSet(SubSeq(acc.log[g], Len(log[g]) + 1, Len(acc.log[g]))) :
                        g \in Groups}

Flush(acc) ==
    /\ db' = acc.db /\ log' = acc.log
    /\ applied' = [g \in Groups |-> IF g \in Written(acc) THEN Len(acc.log[g]) - 1
                                    ELSE applied[g]]

Answer(acc, unprotected) ==
    /\ Flush(acc)
    /\ tainted' = tainted \cup (Written(acc) \cap cleared) \cup unprotected
    /\ purged' = purged \cup {m.group : m \in {x \in NewLines(acc) : x.op = "purge"}}
    /\ UNCHANGED <<cleared, early>>

Call == calls < MaxCalls /\ calls' = calls + 1

-----------------------------------------------------------------------------
(* Rows.                                                                   *)

NewEntity(g, k, n, i) ==
    [group |-> g, kind |-> k, name |-> n, merged |-> FALSE, into |-> None, at |-> i]

NoPointers == [s \in Sides |-> None]

NewEdge(g, ptr) ==
    [group |-> g, invalid |-> FALSE, hop |-> [s \in Sides |-> {}], ptr |-> ptr]

(* A fresh uuid; ids grow, and are never given out again.                  *)
Used(kind) == {m.id : m \in {x \in UNION {ToSet(log[g]) : g \in Groups} : x.op = kind}}
FreshEntity == Min(EntityIds \ Used("entity"))
FreshEdge(acc) == Min(EdgeIds \ {m.id : m \in
                     {x \in UNION {ToSet(acc.log[g]) : g \in Groups} : x.op = "edge"}})

insert_entity(acc, g, row, i) == Exec(acc, g, [op |-> "entity", id |-> i, row |-> row])

(* insert_relates_to_edge: the node, the direct relation, both hops.       *)
insert_relates_to_edge(acc, lg, g, ptr, s, t) ==
    LET i == FreshEdge(acc)
    IN ExecAll(acc, lg,
         <<[op |-> "edge", id |-> i, row |-> NewEdge(g, ptr)],
           [op |-> "direct", id |-> i, from |-> s, to |-> t],
           [op |-> "hops", id |-> i, from |-> s, to |-> t]>>)

hop(i, side, e) == [op |-> "hop", id |-> i, side |-> side, to |-> e]
unhop(i, side) == [op |-> "unhop", id |-> i, side |-> side]

(* insert_cross_group_edge: an unresolved side gets no hop.                *)
insert_cross_group_edge(acc, g, ptr, s, t) ==
    LET i == FreshEdge(acc)
    IN ExecAll(acc, g,
         <<[op |-> "edge", id |-> i, row |-> NewEdge(g, ptr)]>>
         \o (IF s # None /\ t # None
             THEN <<[op |-> "direct", id |-> i, from |-> s, to |-> t]>> ELSE <<>>)
         \o (IF s # None THEN <<hop(i, "src", s)>> ELSE <<>>)
         \o (IF t # None THEN <<hop(i, "dst", t)>> ELSE <<>>))

invalidate_edge(acc, g, i) == Exec(acc, g, [op |-> "invalid", id |-> i])

(* OPTIONAL MATCH: one end of the edge, None when the hop is missing.      *)
End(d, i, side) == IF d.edge[i].hop[side] = {} THEN None
                   ELSE CHOOSE e \in d.edge[i].hop[side] : TRUE

find_active_relates_to(d, s, t, g) ==
    {i \in Active(d) : d.edge[i].group = g /\ s \in d.edge[i].hop["src"]
                       /\ t \in d.edge[i].hop["dst"]}
has_directed_edge(d, s, t, g) == find_active_relates_to(d, s, t, g) # {}

-----------------------------------------------------------------------------
(* Resolution of names.                                                    *)

Before(d, i, j) == d.ent[i].at < d.ent[j].at \/ (d.ent[i].at = d.ent[j].at /\ i <= j)

(* get_entities_by_name_all.                                               *)
Named(d, g, n, k) == {i \in Ents(d) : /\ d.ent[i].group = g /\ d.ent[i].name = n
                                      /\ k \in {None, d.ent[i].kind}}

(* get_entity_by_name_ci_with_scan_fallback: earliest created, tombstones  *)
(* included.                                                               *)
Winner(d, g, n, k) ==
    IF Named(d, g, n, k) = {} THEN None
    ELSE CHOOSE i \in Named(d, g, n, k) : \A j \in Named(d, g, n, k) : Before(d, i, j)

(* resolve_entities_by_name_any_kind, or the one kind asked for.           *)
Winners(d, g, n, k) ==
    {Winner(d, g, n, x) : x \in IF k = None THEN Kinds ELSE {k}} \ {None}

ActiveNamed(d, g, n, k) == Named(d, g, n, k) \cap Unmerged(d)

(* follow_merged_into_chain: None at a dead end, a cycle, or a target      *)
(* outside the group.                                                      *)
follow_merged_into_chain(d, g, start) ==
    LET Step(i) == IF i = None \/ ~d.ent[i].merged THEN i
                   ELSE LET t == d.ent[i].into
                        IN IF t = None \/ d.ent[t] = None \/ d.ent[t].group # g
                           THEN None ELSE t
        walk[k \in 0..Cardinality(EntityIds)] ==
            IF k = 0 THEN start ELSE Step(walk[k - 1])
        last == walk[Cardinality(EntityIds)]
    IN IF last = None \/ d.ent[last].merged THEN None ELSE last

resolve_entity_by_name(d, g, n, k) ==
    LET found == {follow_merged_into_chain(d, g, w) : w \in Winners(d, g, n, k)}
    IN IF found = {} THEN None
       ELSE IF None \in found \/ Cardinality(found) > 1 THEN Err
       ELSE CHOOSE i \in found : TRUE

resolve_entity_by_uuid(d, g, i) ==
    IF d.ent[i] = None \/ d.ent[i].group # g THEN Err
    ELSE LET c == follow_merged_into_chain(d, g, i) IN IF c = None THEN Err ELSE c

(* Mutant: a name that was found is bound, whatever its chain says.        *)
BoundAnyway(c) == [state |-> "bound", uuid |-> c]

Binding(c) == [state |-> IF c = None THEN "unbound" ELSE "bound", uuid |-> c]

(* resolve_endpoint_kind: the binding of a cross-group pointer.            *)
resolve_endpoint_kind(d, g, n, k) ==
    LET w == Winners(d, g, n, k)
        one == CHOOSE i \in w : TRUE
        c == IF w = {} THEN None ELSE follow_merged_into_chain(d, g, one)
    IN IF Cardinality(w) > 1 \/ (w # {} /\ Cardinality(ActiveNamed(d, g, n, d.ent[one].kind)) > 1)
       THEN [state |-> "ambiguous", uuid |-> None]
       ELSE Binding(c)

-----------------------------------------------------------------------------
(* knowledge_assert_entity.                                                *)

(* resolve_and_update_entity on the row resolved: a rename must not land   *)
(* on another active entity of the kind.                                   *)
RenameRefused(d, i, n) ==
    d.ent[i].name # n /\ ActiveNamed(d, d.ent[i].group, n, d.ent[i].kind) # {}

Updated(acc, g, i, n) ==
    IF RenameRefused(acc.db, i, n) THEN acc
    ELSE Exec(acc, g, [op |-> "core", id |-> i, name |-> n])

(* First pass: update what the name or the uuid resolves to, or leave the  *)
(* lock to embed.                                                          *)
AssertEntity(c, g, n, k) ==
    /\ Call /\ pc[c] = None
    /\ LET i == resolve_entity_by_name(db, g, n, k)
       IN IF i = None
          THEN /\ pc' = [pc EXCEPT ![c] = [op |-> "entity", group |-> g, name |-> n, kind |-> k]]
               /\ Answer(Here, {})
          ELSE /\ i # Err /\ Answer(Updated(Here, g, i, n), {})
               /\ UNCHANGED pc

AssertEntityByUuid(c, g, u, n) ==
    /\ Call /\ pc[c] = None
    /\ LET i == resolve_entity_by_uuid(db, g, u)
       IN i # Err /\ Answer(Updated(Here, g, i, n), {})
    /\ UNCHANGED pc

(* Mutant: the second pass trusts the first.                               *)
InsertUnchecked(c) ==
    /\ pc[c] # None /\ pc[c].op = "entity" /\ EntityIds \ Used("entity") # {}
    /\ pc' = [pc EXCEPT ![c] = None]
    /\ Answer(insert_entity(Here, pc[c].group,
                 NewEntity(pc[c].group, pc[c].kind, pc[c].name, FreshEntity), FreshEntity), {})
    /\ UNCHANGED calls

(* Second pass: resolve again under the lock, then insert or update.       *)
AssertEntityInsert(c) ==
    /\ pc[c] # None /\ pc[c].op = "entity" /\ EntityIds \ Used("entity") # {}
    /\ pc' = [pc EXCEPT ![c] = None]
    /\ LET p == pc[c]
           i == resolve_entity_by_name(db, p.group, p.name, p.kind)
       IN Answer(IF i = Err THEN Here
                 ELSE IF i # None THEN Updated(Here, p.group, i, p.name)
                 ELSE insert_entity(Here, p.group,
                        NewEntity(p.group, p.kind, p.name, FreshEntity), FreshEntity), {})
    /\ UNCHANGED calls

-----------------------------------------------------------------------------
(* knowledge_assert_relationship: resolves its ends in its own group, and  *)
(* again by uuid in each pass, so that a merge in between is followed.     *)

EdgeRoom == Cardinality(EdgeIds \ Used("edge")) > Cardinality(Active(db))

AssertRelationship(c, g, n, m) ==
    /\ Call /\ pc[c] = None
    /\ LET s == resolve_entity_by_name(db, g, n, None)
           t == resolve_entity_by_name(db, g, m, None)
       IN /\ s \notin {None, Err} /\ t \notin {None, Err}
          /\ IF has_directed_edge(db, s, t, g)
             THEN /\ Answer(ExecAll(Here, g,
                       <<[op |-> "pointers", id |-> Min(find_active_relates_to(db, s, t, g)),
                          ptr |-> NoPointers]>>), {})
                  /\ UNCHANGED pc
             ELSE /\ pc' = [pc EXCEPT ![c] = [op |-> "rel", group |-> g, src |-> s, dst |-> t]]
                  /\ Answer(Here, {})

(* Mutant: the second pass keeps the ends resolved in the first.           *)
InsertOnFirstEnds(c) ==
    /\ pc[c] # None /\ pc[c].op = "rel" /\ EdgeRoom
    /\ pc' = [pc EXCEPT ![c] = None]
    /\ LET p == pc[c]
       IN Answer(IF \/ db.ent[p.src] = None \/ db.ent[p.dst] = None
                    \/ has_directed_edge(db, p.src, p.dst, p.group) THEN Here
                 ELSE insert_relates_to_edge(Here, p.group, p.group, NoPointers, p.src, p.dst), {})
    /\ UNCHANGED calls

AssertRelationshipInsert(c) ==
    /\ pc[c] # None /\ pc[c].op = "rel" /\ EdgeRoom
    /\ pc' = [pc EXCEPT ![c] = None]
    /\ LET g == pc[c].group
           s == resolve_entity_by_uuid(db, g, pc[c].src)
           t == resolve_entity_by_uuid(db, g, pc[c].dst)
       IN Answer(IF Err \in {s, t} THEN Here
                 ELSE IF has_directed_edge(db, s, t, g)
                 THEN Exec(Here, g, [op |-> "pointers", ptr |-> NoPointers,
                                     id |-> Min(find_active_relates_to(db, s, t, g))])
                 ELSE insert_relates_to_edge(Here, g, g, NoPointers, s, t), {})
    /\ UNCHANGED calls

-----------------------------------------------------------------------------
(* Cross-group edges. An end is a uuid of the edge's own group, or the name *)
(* of an entity elsewhere, kept as a pointer.                              *)

Endpoint == [uuid : EntityIds] \cup [group : Groups, name : Names, kind : Kinds \cup {None}]

resolve_side(d, spec, g) ==
    IF "uuid" \in DOMAIN spec
    THEN IF d.ent[spec.uuid] = None \/ d.ent[spec.uuid].group # g THEN Err
         ELSE [uuid |-> spec.uuid, ptr |-> None]
    ELSE LET r == resolve_endpoint_kind(d, spec.group, spec.name, spec.kind)
         IN [uuid |-> r.uuid,
             ptr |-> [group |-> spec.group, name |-> spec.name, kind |-> spec.kind,
                      uuid |-> r.uuid, seq |-> applied[spec.group], state |-> r.state]]

AddCrossGroupEdge(g, from, to) ==
    /\ Call /\ EdgeRoom
    /\ LET s == resolve_side(db, from, g)
           t == resolve_side(db, to, g)
       IN /\ Err \notin {s, t}
          /\ Answer(insert_cross_group_edge(Here, g, ("src" :> s.ptr @@ "dst" :> t.ptr),
                                            s.uuid, t.uuid), {})
    /\ UNCHANGED pc

(* list_cross_group_pointer_candidates: in no particular order.            *)
Candidates(d) == {i \in Active(d) : d.edge[i].ptr # NoPointers}
Orders(S) == IF S = {} THEN {<<>>} ELSE SetToAllKPermutations(S) \cap [1..Cardinality(S) -> S]

(* Mutant: the gate looks at the position only.                            *)
SkippedByPosition(p, now) == p.seq # None /\ now # None /\ p.seq >= now

(* The staleness gate: a bound pointer resolved at or after the position   *)
(* of the group it points into is not looked at again.                     *)
Skipped(p, now) ==
    p.state = "bound" /\ p.seq # None /\ now # None /\ p.seq >= now

(* The sides of edge i a pass over group g re-resolves.                    *)
Rechecked(d, i, g, now, force) ==
    {s \in Sides : LET p == d.edge[i].ptr[s]
                   IN p # None /\ p.group = g /\ (force \/ ~Skipped(p, now))}

(* Mutant: the old direct relation stays.                                  *)
RedirectOnly(i, s, t) ==
    IF None \in {s, t} THEN <<>> ELSE <<[op |-> "direct", id |-> i, from |-> s, to |-> t]>>

(* The direct relation follows the hops: dropped, and back with both ends. *)
Redirect(i, s, t) ==
    <<[op |-> "undirect", id |-> i]>>
    \o (IF None \in {s, t} THEN <<>>
        ELSE <<[op |-> "direct", id |-> i, from |-> s, to |-> t]>>)

(* rebind_pointers_impl for one edge: both sides are resolved before       *)
(* either is written; an edge that would collapse is invalidated whole.    *)
RebindEdge(acc, i, g, now, force) ==
    LET d == acc.db
        row == d.edge[i]
        sides == Rechecked(d, i, g, now, force)
        new == [s \in sides |-> resolve_endpoint_kind(d, g, row.ptr[s].name, row.ptr[s].kind)]
        want == [s \in Sides |-> IF s \in sides THEN new[s].uuid ELSE End(d, i, s)]
        moved == {s \in sides : End(d, i, s) # want[s]}
        both == None \notin {want["src"], want["dst"]}
        collapses == /\ both /\ \E s \in sides : new[s].uuid # row.ptr[s].uuid
                     /\ \/ want["src"] = want["dst"]
                        \/ has_directed_edge(d, want["src"], want["dst"], row.group)
        Move(s) == IF s \notin moved THEN <<>>
                   ELSE (IF End(d, i, s) # None THEN <<unhop(i, s)>> ELSE <<>>)
                        \o (IF want[s] # None THEN <<hop(i, s, want[s])>> ELSE <<>>)
        ptr == [s \in Sides |-> IF s \notin sides THEN row.ptr[s]
                  ELSE [row.ptr[s] EXCEPT !.uuid = new[s].uuid, !.seq = now,
                                          !.state = new[s].state]]
        direct == IF moved = {} THEN <<>> ELSE Redirect(i, want["src"], want["dst"])
    IN IF sides = {} THEN acc
       ELSE IF collapses THEN invalidate_edge(acc, row.group, i)
       ELSE ExecAll(acc, row.group, Move("src") \o Move("dst")
                      \o <<[op |-> "pointers", id |-> i, ptr |-> ptr]>> \o direct)

rebind_pointers(acc, g, now, force, order) ==
    FoldLeft(LAMBDA a, i : RebindEdge(a, i, g, now, force), acc, order)

RebindPointers(g) ==
    /\ Call
    /\ \E order \in Orders(Candidates(db)) :
         Answer(rebind_pointers(Here, g, applied[g], FALSE, order), {})
    /\ UNCHANGED pc

-----------------------------------------------------------------------------
(* Merges and corrections.                                                 *)

(* get_full_edges_for_entity: both hops present; outgoing, then incoming.  *)
FullEdges(d, e) ==
    LET whole == {i \in Edges(d) : \A s \in Sides : d.edge[i].hop[s] # {}}
    IN SetToSortSeq({i \in whole : e \in d.edge[i].hop["src"]}, <)
       \o SetToSortSeq({i \in whole : e \in d.edge[i].hop["dst"]}, <)

(* Mutant: every edge of the alias moves, whatever group owns it.          *)
MovesAny(row, g) == ~row.invalid

(* merge_entities_inner: invalid edges and edges of other groups are left  *)
(* alone.                                                                  *)
Moves(row, g) == ~row.invalid /\ row.group = g

(* Mutant: a merge does not look for an edge that is there already.        *)
NeverHeld(d, ends, g) == FALSE

(* merge_entities_inner's duplicate test (has_directed_edge).              *)
AlreadyHeld(d, ends, g) == has_directed_edge(d, ends["src"], ends["dst"], g)

(* One edge of alias a moves to canonical c: dropped when the canonical    *)
(* has it already, or when it would be a loop (merge_entities only).       *)
MoveEdge(acc, lg, snap, i, g, a, c, keepLoops) ==
    LET row == snap.edge[i]
        ends == [s \in Sides |-> IF End(snap, i, s) = a THEN c ELSE End(snap, i, s)]
    IN IF ~Moves(row, g) THEN acc
       ELSE IF \/ ~keepLoops /\ ends["src"] = ends["dst"]
               \/ AlreadyHeld(acc.db, ends, row.group)
       THEN invalidate_edge(acc, lg, i)
       ELSE invalidate_edge(insert_relates_to_edge(acc, lg, row.group, row.ptr,
                              ends["src"], ends["dst"]), lg, i)

(* Rewrites the edges of the alias, then tombstones it.                    *)
MergeAlias(acc, lg, g, a, c, keepLoops) ==
    LET moved == FoldLeft(LAMBDA x, i : MoveEdge(x, lg, acc.db, i, g, a, c, keepLoops),
                          acc, FullEdges(acc.db, a))
    IN Exec(moved, lg, [op |-> "merged", id |-> a, to |-> c])

(* merge_entities: the canonical by uuid or by name, never a tombstone and *)
(* never of another group.                                                 *)
CanonicalByName(d, g, n) ==
    LET rows == ActiveNamed(d, g, n, None)
    IN IF rows = {} \/ Cardinality({d.ent[i].kind : i \in rows}) > 1 THEN Err
       ELSE CHOOSE i \in rows : \A j \in rows : Before(d, i, j)

MergeableInto(d, c, g) ==
    c # Err /\ d.ent[c] # None /\ ~d.ent[c].merged /\ d.ent[c].group = g

(* Foreign and unknown alias uuids are reported and left out; names span   *)
(* kinds; aliases of another kind refuse the whole call.                   *)
AliasSet(d, g, c, uuids, names, all) ==
    ({u \in uuids \cap Ents(d) : d.ent[u].group = g}
     \cup UNION {Named(d, g, n, None) : n \in names}
     \cup (IF all THEN Named(d, g, d.ent[c].name, d.ent[c].kind) ELSE {})) \ {c}

merge_entities(acc, g, c, aliases) ==
    LET d == acc.db
        todo == SetToSortSeq({a \in aliases : ~d.ent[a].merged}, <)
        merged == FoldLeft(LAMBDA x, a : MergeAlias(x, g, g, a, c, FALSE), acc, todo)
        earliest == Min({d.ent[i].at : i \in {c} \cup ToSet(todo)})
    IN IF \E a \in aliases : d.ent[a].kind # d.ent[c].kind THEN acc
       ELSE IF todo = <<>> \/ earliest = d.ent[c].at THEN merged
       ELSE Exec(merged, g, [op |-> "created_at", id |-> c, at |-> earliest])

MergeEntities(g, c, uuids, names, all) ==
    /\ Call /\ EdgeRoom /\ MergeableInto(db, c, g)
    /\ Answer(merge_entities(Here, g, c, AliasSet(db, g, c, uuids, names, all)), {})
    /\ UNCHANGED pc

(* apply_same_as: the canonical may be any entity; everything is flushed   *)
(* to the default group.                                                   *)
ApplySameAs(c, n) ==
    /\ Call /\ EdgeRoom /\ db.ent[c] # None
    /\ LET g == db.ent[c].group
           a == Winner(db, g, n, db.ent[c].kind)
       IN /\ a \notin {None, c}
          /\ Answer(MergeAlias(Here, DefaultGroup, g, a, c, TRUE),
                    IF g # DefaultGroup \/ db.ent[c].merged THEN {g} ELSE {})
    /\ UNCHANGED pc

(* apply_retract: an edge with both hops.                                  *)
ApplyRetract(i) ==
    /\ Call /\ i \in Edges(db) /\ \A s \in Sides : db.edge[i].hop[s] # {}
    /\ Answer(invalidate_edge(Here, DefaultGroup, i), {db.edge[i].group} \ {DefaultGroup})
    /\ UNCHANGED pc

-----------------------------------------------------------------------------
(* Deletions.                                                              *)

(* handle_delete_episode: the stream of the episode's own group; an        *)
(* unknown uuid, which a cleared group may hold, goes to the default one.  *)
DeleteEpisode(i) ==
    /\ Call
    /\ LET g == IF i \in Eps(db) THEN db.ep[i].group ELSE DefaultGroup
       IN Answer(Exec(Here, g, [op |-> "unepisode", ids |-> {i}]),
                 IF i \in Eps(db) THEN {} ELSE cleared)
    /\ UNCHANGED pc

(* remove_episodes_by_source, remove_episodes_by_chunk_id: one statement   *)
(* for each group that has a match, in its own stream.                     *)
RemoveEpisodes(acc, gs, ids) ==
    LET hit(g) == {i \in ids : acc.db.ep[i].group = g}
    IN FoldSet(LAMBDA g, x : Exec(x, g, [op |-> "unepisode", ids |-> hit(g)]),
               acc, {g \in gs : hit(g) # {}})

DeleteBySource(gs) == Call /\ Answer(RemoveEpisodes(Here, gs, Eps(db)), {}) /\ UNCHANGED pc

DeleteChunkEpisode(ch, gs) ==
    /\ Call
    /\ Answer(RemoveEpisodes(Here, gs, {i \in Eps(db) : db.ep[i].chunk = ch}), {})
    /\ UNCHANGED pc

(* purge_groups: delete each group, then force every pointer into them.    *)
purge_groups(acc, gs, order) ==
    LET gone == FoldSet(LAMBDA g, x : Exec(x, g, [op |-> "purge", group |-> g]), acc, gs)
        left == SelectSeq(order, LAMBDA i : i \in Edges(gone.db))
    IN FoldSet(LAMBDA g, x : rebind_pointers(x, g, applied[g], TRUE, left), gone, gs)

DeleteByGroup(gs) ==
    /\ Call
    /\ \E order \in Orders(Candidates(db)) : Answer(purge_groups(Here, gs, order), {})
    /\ UNCHANGED pc

-----------------------------------------------------------------------------
(* Rebuilds.                                                               *)

(* clear_group_for_rebuild: the group's own statements are not flushed,    *)
(* those on edges of other groups are.                                     *)
RebuildClear(g) ==
    /\ Call
    /\ \E order \in Orders(Candidates(db)) :
         LET acc == purge_groups(Here, {g}, order)
             kept == [acc EXCEPT !.log[g] = log[g]]
         IN /\ db' = acc.db /\ log' = kept.log
            /\ applied' = [x \in Groups |-> IF x = g THEN 0
                              ELSE IF x \in Written(kept) THEN Len(kept.log[x]) - 1
                              ELSE applied[x]]
            /\ tainted' = tainted \cup (Written(kept) \cap cleared)
    /\ cleared' = cleared \cup {g} /\ purged' = purged \cup {g}
    /\ UNCHANGED <<pc, early>>

Replayed(d, g) == FoldLeft(Apply, d, log[g])

PointsInto(d, g) == {d.edge[i].ptr[s].group :
    <<i, s>> \in {x \in Active(d) \X Sides : d.edge[x[1]].group = g /\ d.edge[x[1]].ptr[x[2]] # None}}

(* The replay under a fresh lock; after a reset of the stream it also      *)
(* re-binds the pointers into the group.                                   *)
RebuildReplay(g) ==
    /\ g \in cleared
    /\ cleared' = cleared \ {g}
    /\ LET d == Replayed(db, g)
           now == IF log[g] = <<>> THEN applied[g] ELSE Len(log[g]) - 1
       IN /\ early' = IF PointsInto(d, g) \cap purged # {} THEN early \cup {g} ELSE early
          /\ \E reset \in BOOLEAN, order \in Orders(Candidates(d)) :
               LET acc == IF reset
                          THEN rebind_pointers([db |-> d, log |-> log], g, now, FALSE, order)
                          ELSE [db |-> d, log |-> log]
               IN /\ db' = acc.db /\ log' = acc.log
                  /\ applied' = [x \in Groups |->
                                   IF x \in Written(acc) THEN Len(acc.log[x]) - 1
                                   ELSE IF x = g THEN now ELSE applied[x]]
                  /\ tainted' = tainted \cup (Written(acc) \cap cleared')
    /\ UNCHANGED <<pc, purged, calls>>

(* A fresh database over the same streams (knowledge_clear_all that keeps  *)
(* the WAL, a lost database file).                                         *)
FreshDatabase ==
    /\ Call
    /\ db' = EmptyDb /\ applied' = [g \in Groups |-> None]
    /\ cleared' = Groups /\ purged' = Groups
    /\ UNCHANGED <<log, pc, tainted, early>>

-----------------------------------------------------------------------------
Init ==
    /\ log = Seed
    /\ db = FoldLeft(Apply, EmptyDb, Seed[DefaultGroup]
               \o FlattenSeq(SetToSeq({Seed[g] : g \in Groups \ {DefaultGroup}})))
    /\ applied = [g \in Groups |-> IF Seed[g] = <<>> THEN None ELSE Len(Seed[g]) - 1]
    /\ pc = [c \in Clients |-> None]
    /\ cleared = {} /\ tainted = {} /\ purged = {} /\ early = {} /\ calls = 0

Deletions ==
    \/ \E i \in EpisodeIds : DeleteEpisode(i)
    \/ DeleteBySource(Groups)
    \/ \E ch \in Chunks : DeleteChunkEpisode(ch, Groups)
    \/ \E g \in Groups : DeleteByGroup({g})

Merges ==
    \/ \E g \in Groups, c, u \in EntityIds : MergeEntities(g, c, {u}, {}, FALSE)
    \/ \E g \in Groups, n, m \in Names :
         MergeEntities(g, CanonicalByName(db, g, n), {}, {m}, FALSE)
    \/ \E g \in Groups, c \in EntityIds : MergeEntities(g, c, {}, {}, TRUE)
    \/ \E c \in EntityIds, n \in Names : ApplySameAs(c, n)
    \/ \E i \in EdgeIds : ApplyRetract(i)

Asserts(c) ==
    \/ \E g \in Groups, n \in Names, k \in Kinds : AssertEntity(c, g, n, k)
    \/ \E g \in Groups, u \in EntityIds, n \in Names : AssertEntityByUuid(c, g, u, n)
    \/ \E g \in Groups, n, m \in Names : AssertRelationship(c, g, n, m)
    \/ AssertEntityInsert(c) \/ AssertRelationshipInsert(c)

Rebuilds == \/ \E g \in Groups : RebuildClear(g) \/ RebuildReplay(g)
            \/ FreshDatabase

Next ==
    \/ \E c \in Clients : Asserts(c)
    \/ \E g \in Groups, e \in EdgeInputs : AddCrossGroupEdge(g, e[1], e[2])
    \/ \E g \in Groups : RebindPointers(g)
    \/ Merges \/ Deletions \/ Rebuilds

Spec == Init /\ [][Next]_vars

-----------------------------------------------------------------------------
Option(S) == S \cup {None}

Row(kind) ==
    CASE kind = "ent" -> [group : Groups, kind : Kinds, name : Names, merged : BOOLEAN,
                          into : Option(EntityIds), at : EntityIds]
      [] kind = "ptr" -> [group : Groups, name : Names, kind : Option(Kinds),
                          uuid : Option(EntityIds), seq : Option(Nat),
                          state : {"bound", "unbound", "ambiguous"}]

(* Type correctness; a pointer carries a uuid exactly when it is bound.    *)
TypeOK ==
    /\ \A i \in Ents(db) : db.ent[i] \in Row("ent")
    /\ \A i \in Edges(db), s \in Sides :
         LET row == db.edge[i]
         IN /\ row.group \in Groups /\ row.invalid \in BOOLEAN
            /\ row.hop[s] \subseteq Ents(db)
            /\ \/ row.ptr[s] = None
               \/ /\ row.ptr[s] \in Row("ptr")
                  /\ (row.ptr[s].state = "bound") <=> (row.ptr[s].uuid # None)
    /\ applied \in [Groups -> Option(Nat)]
    /\ cleared \subseteq Groups /\ tainted \subseteq Groups /\ purged \subseteq Groups
    /\ early \subseteq Groups
    /\ calls \in 0..MaxCalls

Sound == Groups \ (cleared \cup tainted)

(* An assertion that finds no entity of its name creates one, after the    *)
(* embedder ran without the lock; a rename, a merge, a delete and a replay *)
(* come in between. A name is never held by two unmerged entities of a     *)
(* kind (handle_assert_entity's second resolution under the lock).         *)
OneActivePerName ==
    \A g \in Sound, k \in Kinds, n \in Names : Cardinality(ActiveNamed(db, g, n, k)) <= 1

Plain(d) == {i \in Active(d) : d.edge[i].ptr = NoPointers}

(* The edge upsert, the merge's has_directed_edge test and the second pass *)
(* of handle_assert_relationship together leave at most one active edge    *)
(* from one entity to another in a group.                                  *)
OneActiveEdge ==
    \A i, j \in Plain(db) :
        LET a == db.edge[i]  b == db.edge[j]
        IN (a.group = b.group /\ a.hop = b.hop /\ a.group \in Sound
            /\ \A s \in Sides : a.hop[s] # {}) => i = j

(* Neither a name nor a pair of ends is held twice by active rows.         *)
OneActive == OneActivePerName /\ OneActiveEdge

(* A merge moves every edge of the alias before it tombstones it, and an   *)
(* assertion waiting on the embedder resolves its ends again: no edge of a *)
(* group is left on a tombstone, where no query would find it.             *)
NoEdgeOnTombstone ==
    \A i \in Plain(db), s \in Sides : \A e \in db.edge[i].hop[s] :
        db.ent[e].merged => db.edge[i].group \notin Sound

(* What the staleness gate of rebind_pointers_impl skips, a fresh           *)
(* resolution would leave as it is.                                        *)
GateSound ==
    \A i \in Active(db), s \in Sides :
        LET p == db.edge[i].ptr[s]
        IN (/\ p # None /\ db.edge[i].group \in Sound \ early
            /\ p.group \in Sound /\ Skipped(p, applied[p.group]))
           => /\ resolve_endpoint_kind(db, p.group, p.name, p.kind)
                   = [state |-> "bound", uuid |-> p.uuid]
              /\ db.edge[i].hop[s] = {p.uuid}

(* A pointer carries a uuid exactly when it is bound, and the pointers the *)
(* staleness gate leaves alone are the ones that are right.                *)
PointersSound == TypeOK /\ GateSound

(* The direct entity-to-entity relation and the two hops through the edge  *)
(* node describe the same edge, whichever handler moved an end. A relation *)
(* whose edge node is gone is left only by a purge of the group that owned *)
(* the edge, and only between entities of other groups.                    *)
DirectAgrees ==
    \A i \in EdgeIds :
        LET row == db.edge[i]
            owners == {m.row.group : m \in {x \in UNION {ToSet(log[g]) : g \in Groups} :
                                               x.op = "edge" /\ x.id = i}}
        IN IF row # None
           THEN \/ row.group \in early
                \/ db.direct[i] = {<<e, f>> : e \in row.hop["src"], f \in row.hop["dst"]}
           ELSE \A p \in db.direct[i] :
                  /\ owners \subseteq purged
                  /\ {db.ent[p[1]].group, db.ent[p[2]].group} \cap owners = {}

Ends(d, i) == IF d.edge[i].ptr = NoPointers THEN <<d.edge[i].hop, d.direct[i]>> ELSE <<>>

Owned(d, g) ==
    [ent |-> {<<i, d.ent[i]>> : i \in {x \in Ents(d) : d.ent[x].group = g}},
     edge |-> {<<i, d.edge[i].invalid, d.edge[i].ptr, Ends(d, i)>> :
                 i \in {x \in Edges(d) : d.edge[x].group = g}},
     ep |-> {<<i, d.ep[i]>> : i \in {x \in Eps(d) : d.ep[x].group = g}}]

(* Clearing a group and replaying its own stream gives back its entities,  *)
(* its episodes, its edges and the ends of the edges within it, whatever   *)
(* other groups did: every handler writes a statement to the stream of the *)
(* group that owns the row. The ends of an edge into another group depend  *)
(* on that group's rows at the time of the replay, and are not compared.   *)
ReplayReproduces ==
    \A g \in Sound : Owned(Replayed(DeleteGroup(db, g), g), g) = Owned(db, g)

=============================================================================
