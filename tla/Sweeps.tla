------------------------------- MODULE Sweeps -------------------------------
(***************************************************************************)
(* The maintenance passes over one group: backfill_relation_types,         *)
(* canonicalize_relations, reprocess_relation_types, reprocess_entity_types *)
(* and backfill_summary_embeddings. A pass reads its candidates under the  *)
(* read lock, leaves the lock for the classifier or the embedder, and      *)
(* writes its plan in batches, each under the write lock; assertions,      *)
(* merges and knowledge_clear_all come in between. The summary pass keeps  *)
(* the write lock from its read to its last write.                         *)
(***************************************************************************)
EXTENDS Integers, FiniteSets, Sequences, SequencesExt

CONSTANTS
    Edges, Entities,  \* the rows of the group
    Sweeps,           \* passes that may run at once
    Requests,         \* Requests[s]: the <<pass, scope>> that s may be asked for
    Types,            \* extractable relation types of the ontology
    AssertOnly,       \* relation types declared `extract: false`
    FreeText,         \* relation types outside the ontology, "" aside
    Derived,          \* Derived[e]: derive_relation_type of its name and fact
    Before,           \* Before[e]: the relation type of e at the start
    NameMeans,        \* NameMeans[e]: the type the name of e maps to, Noise or None
    TextMeans,        \* TextMeans[t]: the same for a free-text relation type
    Kind,             \* Kind[i]: the immutable kind of entity i
    EntityTypes, Ancestors, \* the ontology's entity types; Ancestors[t]
    Tombstone,        \* the entity that was merged before, or None
    Untyped, UNCLASSIFIED, Noise, None,
    MaxInst,          \* bound: databases opened by knowledge_clear_all
    MaxWrites,        \* bound: client writes
    MaxPasses         \* bound: passes started

RelationTypes == Types \cup AssertOnly \cup FreeText \cup {Untyped, UNCLASSIFIED}
PassKinds == {"backfill", "canonicalize", "relations", "types", "summaries"}
Scopes == {None, "untyped", "off_ontology", "all"}

(* An entity row; the embedding stored with it is of the summary it had.   *)
Texts == {"s0", "s1"}
Labels == {"Entity", "Merged"} \cup EntityTypes \cup {Kind[i] : i \in Entities}
EntityRow == [labels : SUBSET Labels, summary : Texts, of : Texts \cup {None}]

(* A name or a text maps to extractable types only, an extracted edge has  *)
(* no assert-only type, and a derived type is never empty.                 *)
ASSUME SweepsAssumption ==
    /\ MaxInst \in Nat \ {0} /\ MaxWrites \in Nat /\ MaxPasses \in Nat
    /\ IsFiniteSet(Edges) /\ IsFiniteSet(Entities)
    /\ Types \cap AssertOnly = {} /\ Untyped \notin Types \cup AssertOnly \cup FreeText
    /\ UNCLASSIFIED \notin AssertOnly /\ UNCLASSIFIED # Untyped
    /\ None \notin RelationTypes /\ Noise \notin RelationTypes /\ None # Noise
    /\ NameMeans \in [Edges -> Types \cup {Noise, None}]
    /\ TextMeans \in [FreeText -> Types \cup {Noise, None}]
    /\ Derived \in [Edges -> RelationTypes \ {Untyped}]
    /\ Before \in [Edges -> RelationTypes \ AssertOnly]
    /\ \A t \in EntityTypes : Ancestors[t] \subseteq EntityTypes
    /\ None \notin Sweeps /\ None \notin EntityRow /\ None \notin PassKinds /\ None \notin EntityTypes
    /\ \A s \in Sweeps : Requests[s] \subseteq PassKinds \X Scopes

VARIABLES
    inst,      \* the database the service has loaded
    rt,        \* rt[d][e]: relation_type of edge e in database d, None: no such row
    ent,       \* ent[d][i]: labels, summary, what the stored embedding is of; or None
    index,     \* databases that have the summary vector index
    built,     \* indices_built
    lock,      \* the pass that holds the write lock, or None
    pass,      \* pass[s]
    misled,    \* history: indices_built was set for a database swapped away
    asserted,  \* history: <<d, e, t>> a client asserted
    writes, passes

vars == <<inst, rt, ent, index, built, lock, pass, misled, asserted, writes, passes>>

Insts == 1..MaxInst
Idle == [op |-> None]

Rows(d) == {e \in Edges : rt[d][e] # None}
EntityRows(d) == {i \in Entities : ent[d][i] # None}

-----------------------------------------------------------------------------
(* Clients.                                                                *)

Write == lock = None /\ writes < MaxWrites /\ writes' = writes + 1

(* knowledge_assert_relationship on an edge that exists.                   *)
AssertRelation(e, t) ==
    /\ Write /\ e \in Rows(inst)
    /\ rt' = [rt EXCEPT ![inst][e] = t]
    /\ asserted' = asserted \cup {<<inst, e, t>>}
    /\ UNCHANGED <<inst, ent, index, built, lock, pass, misled, passes>>

(* knowledge_assert_entity on an entity that exists: the summary changes,  *)
(* its stored embedding does not.                                          *)
AssertSummary(i, text) ==
    /\ Write /\ i \in EntityRows(inst) /\ "Merged" \notin ent[inst][i].labels
    /\ ent' = [ent EXCEPT ![inst][i].summary = text]
    /\ UNCHANGED <<inst, rt, index, built, lock, pass, misled, asserted, passes>>

(* The rows of a database after its first episode; no relation is typed.   *)
FreshRows == [e \in Edges |-> Untyped]
FreshEntity(i) == [labels |-> {"Entity", Kind[i]}
                              \cup (IF i = Tombstone THEN {"Merged"} ELSE {}),
                   summary |-> "s0", of |-> None]

(* knowledge_clear_all swaps the database under the write lock; what is    *)
(* ingested afterwards has the same shape. indices_built is reset.         *)
ClearAll ==
    /\ lock = None /\ inst < MaxInst
    /\ inst' = inst + 1
    /\ rt' = [rt EXCEPT ![inst + 1] = FreshRows]
    /\ ent' = [ent EXCEPT ![inst + 1] = [i \in Entities |-> FreshEntity(i)]]
    /\ built' = FALSE /\ misled' = FALSE
    /\ UNCHANGED <<index, lock, pass, asserted, writes, passes>>

(* ensure_indices, before the first search.                                *)
BuildIndices ==
    /\ lock = None /\ ~built
    /\ built' = TRUE /\ index' = index \cup {inst}
    /\ UNCHANGED <<inst, rt, ent, lock, pass, misled, asserted, writes, passes>>

-----------------------------------------------------------------------------
(* Classification.                                                         *)

(* classify_edge_lexically: noise first, then an assert-only type as it    *)
(* is, then the name, then the current type.                               *)
classify_edge_lexically(e, cur) ==
    LET text == IF cur \in FreeText THEN TextMeans[cur] ELSE None
    IN IF Noise \in {NameMeans[e], text} THEN Noise
       ELSE IF cur \in AssertOnly THEN cur
       ELSE IF NameMeans[e] # None THEN NameMeans[e]
       ELSE IF cur \in Types THEN cur
       ELSE text

(* Lexically, then by the nearest description if the embedder answers: a   *)
(* residual may be promoted to any extractable type.                       *)
CanonicalChoices(e, cur) ==
    LET c == classify_edge_lexically(e, cur)
    IN IF c = Noise THEN {IF cur = Untyped THEN UNCLASSIFIED ELSE cur}
       ELSE IF c = None THEN {UNCLASSIFIED} \cup Types ELSE {c}

(* Mutant: what the classifier answers is taken as it is.                  *)
VerdictsUnchecked(cur) == Types \cup AssertOnly \cup {UNCLASSIFIED}

(* reprocess_relation_types: an empty verdict is UNCLASSIFIED, an          *)
(* assert-only one leaves the edge alone.                                  *)
Verdicts(cur) == {IF v \in AssertOnly THEN cur ELSE v : v \in Types \cup AssertOnly \cup {UNCLASSIFIED}}

InScope(scope, cur) ==
    CASE scope = "untyped" -> cur = Untyped
      [] scope = "off_ontology" -> cur \notin Types \cup AssertOnly
      [] scope = "all" -> TRUE

(* The new types a pass may plan for edge e of database d.                 *)
RelationPlan(op, scope, d, e) ==
    CASE op = "backfill" -> IF rt[d][e] = Untyped THEN {Derived[e]} ELSE {rt[d][e]}
      [] op = "canonicalize" -> CanonicalChoices(e, rt[d][e])
      [] op = "relations" -> IF InScope(scope, rt[d][e]) THEN Verdicts(rt[d][e]) ELSE {rt[d][e]}

(* Mutant: the ontology alone decides.                                     *)
StampWithoutKind(i, t) == {"Entity", t} \cup Ancestors[t]

(* Labels of an entity classified as t; the kind stays among them.         *)
apply_entity_type_labels(i, t) == {"Entity", t, Kind[i]} \cup Ancestors[t]

(* is_off_ontology: any label but Entity that is not a declared type.      *)
EntityInScope(scope, labels) ==
    CASE scope = "untyped" -> labels = {"Entity"}
      [] scope = "off_ontology" -> labels = {"Entity"} \/ ~(labels \ {"Entity"} \subseteq EntityTypes)
      [] scope = "all" -> TRUE

Leaves(S) == {t \in S : \A u \in S \ {t} : t \notin Ancestors[u]}

(* find_leaf_type_with_kind: the declared leaf, the kind and its ancestors *)
(* set aside when there are several.                                       *)
find_leaf_type(i, labels) ==
    LET declared == labels \cap EntityTypes
        rest == declared \ ({Kind[i]} \cup (IF Kind[i] \in EntityTypes THEN Ancestors[Kind[i]] ELSE {}))
        leaves == IF Cardinality(Leaves(declared)) = 1 THEN Leaves(declared) ELSE Leaves(rest)
    IN IF Cardinality(leaves) = 1 THEN CHOOSE t \in leaves : TRUE ELSE None

-----------------------------------------------------------------------------
(* Passes.                                                                 *)

Step(s, p) == pass' = [pass EXCEPT ![s] = p]

(* The handle is loaded before the lock is asked for.                      *)
Begin(s, op, scope) ==
    /\ pass[s] = Idle /\ passes < MaxPasses
    /\ passes' = passes + 1
    /\ Step(s, [op |-> op, pc |-> "read", scope |-> scope, inst |-> inst, plan |-> <<>>])
    /\ UNCHANGED <<inst, rt, ent, index, built, lock, misled, asserted, writes>>

(* Candidates under the read lock and, without it, the classifier: a plan  *)
(* holds the edges that would change.                                      *)
ReadRelations(s) ==
    /\ lock = None /\ pass[s].op \in {"backfill", "canonicalize", "relations"} /\ pass[s].pc = "read"
    /\ LET p == pass[s]  d == p.inst
           new == [e \in Rows(d) |-> RelationPlan(p.op, p.scope, d, e)]
       IN \E f \in [Rows(d) -> UNION {new[e] : e \in Rows(d)}] :
            /\ \A e \in Rows(d) : f[e] \in new[e]
            /\ Step(s, [p EXCEPT !.pc = "write",
                         !.plan = SetToSeq({<<e, f[e]>> : e \in {x \in Rows(d) : f[x] # rt[d][x]}})])
    /\ UNCHANGED <<inst, rt, ent, index, built, lock, misled, asserted, writes, passes>>

(* The classifier or the embedder fails before anything is written.        *)
PassFails(s) ==
    /\ pass[s].op \in {"relations", "types"} /\ pass[s].pc = "read"
    /\ Step(s, Idle)
    /\ UNCHANGED <<inst, rt, ent, index, built, lock, misled, asserted, writes, passes>>

(* Mutant: the statement of the backfill has no WHERE.                     *)
SetsAlways(op, cur) == TRUE

(* Only the backfill looks at the type again in the statement that sets it. *)
Sets(op, cur) == op = "backfill" => cur = Untyped

(* One batch under the write lock, on the database the pass began with.    *)
WriteRelations(s) ==
    /\ lock = None /\ pass[s].op \in {"backfill", "canonicalize", "relations"} /\ pass[s].pc = "write"
    /\ LET p == pass[s]
       IN IF p.plan = <<>> THEN Step(s, Idle) /\ UNCHANGED rt
          ELSE LET e == Head(p.plan)[1]
               IN /\ rt' = IF Sets(p.op, rt[p.inst][e])
                           THEN [rt EXCEPT ![p.inst][e] = Head(p.plan)[2]] ELSE rt
                  /\ Step(s, [p EXCEPT !.plan = Tail(@)])
    /\ UNCHANGED <<inst, ent, index, built, lock, misled, asserted, writes, passes>>

(* reprocess_entity_types: tombstones carry a label that no ontology       *)
(* declares, and are classified like any other row.                        *)
ReadTypes(s) ==
    /\ lock = None /\ pass[s].op = "types" /\ pass[s].pc = "read"
    /\ LET d == pass[s].inst
           todo == {i \in EntityRows(d) : EntityInScope(pass[s].scope, ent[d][i].labels)}
       IN \E f \in [todo -> EntityTypes \cup {None}] :
            Step(s, [pass[s] EXCEPT !.pc = "load",
               !.plan = SetToSeq({<<i, f[i]>> : i \in
                          {x \in todo : f[x] \notin {None, find_leaf_type(x, ent[d][x].labels)}}})])
    /\ UNCHANGED <<inst, rt, ent, index, built, lock, misled, asserted, writes, passes>>

(* Each batch loads the database again, before the lock.                   *)
LoadForTypes(s) ==
    /\ pass[s].op = "types" /\ pass[s].pc = "load"
    /\ Step(s, [pass[s] EXCEPT !.inst = inst, !.pc = "write"])
    /\ UNCHANGED <<inst, rt, ent, index, built, lock, misled, asserted, writes, passes>>

(* Restamp of one row: its leaf with the ancestors the ontology gives now. *)
Restamped(i, row) ==
    IF row = None \/ row.labels = {"Entity"} \/ find_leaf_type(i, row.labels) = None THEN row
    ELSE [row EXCEPT !.labels = apply_entity_type_labels(i, find_leaf_type(i, @))]

(* A batch of the plan; after the last one, the restamp of every typed row. *)
WriteTypes(s) ==
    /\ lock = None /\ pass[s].op = "types" /\ pass[s].pc = "write"
    /\ LET p == pass[s]
       IN IF p.plan = <<>>
          THEN /\ ent' = [ent EXCEPT ![p.inst] = [i \in Entities |-> Restamped(i, ent[p.inst][i])]]
               /\ Step(s, Idle)
          ELSE LET i == Head(p.plan)[1]
               IN /\ ent' = IF ent[p.inst][i] = None THEN ent
                            ELSE [ent EXCEPT ![p.inst][i].labels =
                                    apply_entity_type_labels(i, Head(p.plan)[2])]
                  /\ Step(s, [p EXCEPT !.plan = Tail(@), !.pc = "load"])
    /\ UNCHANGED <<inst, rt, index, built, lock, misled, asserted, writes, passes>>

-----------------------------------------------------------------------------
(* backfill_summary_embeddings.                                            *)

(* Mutant: the candidates are read under the read lock.                    *)
SummariesUnlocked(s) == None

(* The write lock is taken before the read and kept.                       *)
SummariesLock(s) == s

ReadSummaries(s) ==
    /\ lock = None /\ pass[s].op = "summaries" /\ pass[s].pc = "read"
    /\ lock' = SummariesLock(s)
    /\ Step(s, [pass[s] EXCEPT !.pc = "drop",
         !.plan = SetToSeq({<<i, ent[pass[s].inst][i].summary>> : i \in EntityRows(pass[s].inst)})])
    /\ UNCHANGED <<inst, rt, ent, index, built, misled, asserted, writes, passes>>

(* Mutant: the flag stays up while the index is gone.                      *)
KeepFlag(b) == b

(* indices_built goes down before the index is dropped.                    *)
FlagAtDrop(b) == FALSE

DropSummaryIndex(s) ==
    /\ pass[s].op = "summaries" /\ pass[s].pc = "drop"
    /\ built' = FlagAtDrop(built)
    /\ index' = index \ {pass[s].inst}
    /\ Step(s, [pass[s] EXCEPT !.pc = "write"])
    /\ UNCHANGED <<inst, rt, ent, lock, misled, asserted, writes, passes>>

(* A batch is embedded and written with the summary it was embedded from;  *)
(* after the last one the index is created and the flag goes up.           *)
WriteSummaries(s) ==
    /\ pass[s].op = "summaries" /\ pass[s].pc = "write"
    /\ LET p == pass[s]  i == Head(p.plan)[1]  text == Head(p.plan)[2]
       IN IF p.plan # <<>>
          THEN /\ ent' = [ent EXCEPT ![p.inst][i].summary = text, ![p.inst][i].of = text]
               /\ Step(s, [p EXCEPT !.plan = Tail(@)])
               /\ UNCHANGED <<index, built, lock, misled>>
          ELSE /\ index' = index \cup {p.inst} /\ built' = TRUE /\ lock' = None
               /\ misled' = (p.inst # inst)
               /\ Step(s, Idle) /\ UNCHANGED ent
    /\ UNCHANGED <<inst, rt, asserted, writes, passes>>

(* Mutant: the guard outlives the error.                                   *)
KeepLock(s) == s

ReleaseLock(s) == None

(* The embedder, a statement or the index creation fails: the guard is     *)
(* dropped with the future, the flag stays down.                           *)
SummariesFail(s) ==
    /\ pass[s].op = "summaries" /\ pass[s].pc = "write"
    /\ lock' = ReleaseLock(s)
    /\ Step(s, Idle)
    /\ UNCHANGED <<inst, rt, ent, index, built, misled, asserted, writes, passes>>

-----------------------------------------------------------------------------
Init ==
    /\ inst = 1
    /\ rt = [d \in Insts |-> IF d = 1 THEN Before ELSE [e \in Edges |-> None]]
    /\ ent = [d \in Insts |-> [i \in Entities |-> IF d = 1 THEN FreshEntity(i) ELSE None]]
    /\ index = {1} /\ built = TRUE
    /\ lock = None /\ pass = [s \in Sweeps |-> Idle]
    /\ misled = FALSE /\ asserted = {} /\ writes = 0 /\ passes = 0

Client ==
    \/ \E e \in Edges, t \in Types \cup AssertOnly : AssertRelation(e, t)
    \/ \E i \in Entities : AssertSummary(i, "s1")
    \/ ClearAll \/ BuildIndices

Sweep(s) ==
    \/ ReadRelations(s) \/ WriteRelations(s) \/ PassFails(s)
    \/ ReadTypes(s) \/ LoadForTypes(s) \/ WriteTypes(s)
    \/ ReadSummaries(s) \/ DropSummaryIndex(s) \/ WriteSummaries(s) \/ SummariesFail(s)

Next ==
    \/ Client
    \/ \E s \in Sweeps : \E r \in Requests[s] : Begin(s, r[1], r[2])
    \/ \E s \in Sweeps : Sweep(s)

Spec == Init /\ [][Next]_vars

(* A pass is a task the runtime keeps polling, its calls return, and the   *)
(* lock is given to those who wait for it.                                 *)
FairSpec == Spec /\ \A s \in Sweeps : SF_vars(Sweep(s))

-----------------------------------------------------------------------------
(* Type correctness.                                                       *)
TypeOK ==
    /\ inst \in Insts /\ index \subseteq Insts /\ built \in BOOLEAN
    /\ rt \in [Insts -> [Edges -> RelationTypes \cup {None}]]
    /\ ent \in [Insts -> [Entities -> EntityRow \cup {None}]]
    /\ \A d \in Insts : \A i \in EntityRows(d) : "Entity" \in ent[d][i].labels
    /\ lock \in Sweeps \cup {None}

(* The backfill decides on a snapshot; a type somebody asserted between    *)
(* its read and its write is never overwritten by it.                      *)
BackfillOnlyFills ==
    [][\A s \in Sweeps : (pass[s].op = "backfill" /\ pass'[s] # pass[s]) =>
         \A e \in Rows(pass[s].inst) : rt[pass[s].inst][e] # Untyped
            => rt'[pass[s].inst][e] = rt[pass[s].inst][e]]_vars

(* A type declared `extract: false` reaches an edge only by an assertion:  *)
(* no classifier answer, no name and no embedding gives it to an edge. The *)
(* backfill, which knows no ontology, may: when the edge's own name or     *)
(* fact spells the type.                                                   *)
AssertOnlyByAssertion ==
    \A d \in Insts, e \in Edges :
        rt[d][e] \in AssertOnly => <<d, e, rt[d][e]>> \in asserted \/ rt[d][e] = Derived[e]

(* The kind of an entity stays among its labels through every restamp      *)
(* (FR-001 of the kind-scoped identity).                                   *)
KindSurvives ==
    \A d \in Insts : \A i \in EntityRows(d) : Kind[i] \in ent[d][i].labels

(* What types and labels a row carries is what somebody gave it.           *)
TypesEarned == TypeOK /\ AssertOnlyByAssertion /\ KindSurvives

(* The summary pass writes back the summary it embedded: an assertion that *)
(* came in while the embedder ran would be undone.                         *)
NoSummaryLost ==
    [][\A s \in Sweeps : (pass[s].op = "summaries" /\ pass'[s] # pass[s]) =>
         \A d \in Insts : \A i \in EntityRows(d) : ent'[d][i].summary = ent[d][i].summary]_vars

(* Neither backfill overwrites what a request wrote after the backfill had *)
(* read: the one of relation types asks again in its statement, the one of *)
(* summaries keeps the lock. Not said of canonicalize_relations and of the *)
(* two reprocess passes, whose SET has no condition: they do overwrite an  *)
(* assertion that came in while they were deciding.                        *)
BackfillsKeepWrites == BackfillOnlyFills /\ NoSummaryLost

(* indices_built says that the loaded database has its index: a search     *)
(* never queries an index that the summary pass dropped and failed to      *)
(* create again. A pass that holds a database swapped away misleads it.    *)
FlagTruthful == built => inst \in index \/ misled

(* Every pass ends: neither a failing embedder nor the other pass keeps    *)
(* the write lock.                                                         *)
PassesEnd == \A s \in Sweeps : pass[s] # Idle ~> pass[s] = Idle

=============================================================================
