---------------------------- MODULE SweepsProofs ----------------------------
(***************************************************************************)
(* For every set of edges, entities, passes and types, and every number of *)
(* databases: the maintenance passes give no type that nobody earned and   *)
(* keep the flag of the index truthful, and the two backfills overwrite    *)
(* nothing newer.                                                          *)
(*                                                                         *)
(* The passes act on plans made earlier, so the invariant is about plans:  *)
(* what a relation plan may hold is fixed when it is made and stays so     *)
(* while others write; a summary plan agrees with the rows as long as its  *)
(* pass holds the write lock, and that is from its read to its end.        *)
(***************************************************************************)
EXTENDS Sweeps, FiniteSetTheorems, TLAPS

USE SweepsAssumption

RelationOps == {"backfill", "canonicalize", "relations"}

\* What the plan of a relation pass may hold.
Planned(op) ==
    {pr \in Edges \X RelationTypes :
        IF op = "backfill" THEN pr[2] = Derived[pr[1]] ELSE pr[2] \notin AssertOnly}

\* The summaries of a database as its rows hold them.
Current(d) ==
    {pr \in Entities \X Texts : ent[d][pr[1]] \in EntityRow /\ ent[d][pr[1]].summary = pr[2]}

Plans == Seq(Edges \X RelationTypes) \cup Seq(Entities \X EntityTypes) \cup Seq(Entities \X Texts)
Passes == [op : PassKinds, pc : {"read", "load", "drop", "write"}, scope : Scopes,
           inst : Insts, plan : Plans]

Typed ==
    /\ inst \in Insts /\ index \subseteq Insts /\ built \in BOOLEAN /\ misled \in BOOLEAN
    /\ rt \in [Insts -> [Edges -> RelationTypes \cup {None}]]
    /\ ent \in [Insts -> [Entities -> EntityRow \cup {None}]]
    /\ lock \in Sweeps \cup {None}
    /\ pass \in [Sweeps -> Passes \cup {Idle}]

Labelled ==
    \A d \in Insts, i \in Entities :
        ent[d][i] # None => "Entity" \in ent[d][i].labels /\ Kind[i] \in ent[d][i].labels

\* The plan of a pass, and the lock of one that is writing summaries.
PlanOK(s) ==
    /\ pass[s].op \in RelationOps => pass[s].plan \in Seq(Planned(pass[s].op))
    /\ pass[s].op = "types" => pass[s].plan \in Seq(Entities \X EntityTypes)
    /\ (pass[s].op = "summaries" /\ pass[s].pc # "read")
         => lock = s /\ pass[s].plan \in Seq(Current(pass[s].inst))

Inv ==
    /\ Typed /\ Labelled /\ AssertOnlyByAssertion /\ FlagTruthful
    /\ \A s \in Sweeps : PlanOK(s)

-----------------------------------------------------------------------------
(* Plans as sequences.                                                     *)

\* A finite set is listed by a sequence of its elements.
LEMMA SetSeq ==
  ASSUME NEW S, IsFiniteSet(S)
  PROVE  SetToSeq(S) \in Seq(S)
<1>1. Cardinality(S) \in Nat /\ \E f \in [1..Cardinality(S) -> S] : IsInjective(f)
  BY FS_CardinalityType DEF ExistsBijection, Bijection, Injection
<1>2. SetToSeq(S) \in [1..Cardinality(S) -> S]
  BY <1>1 DEF SetToSeq
<1>3. QED
  BY <1>1, <1>2

\* The graph of a function on a finite set is finite.
LEMMA PairsFinite ==
  ASSUME NEW T, IsFiniteSet(T), NEW f
  PROVE  IsFiniteSet({<<e, f[e]>> : e \in T})
<1> DEFINE S == {<<e, f[e]>> : e \in T}
           g == [e \in T |-> <<e, f[e]>>]
<1>1. g \in [T -> S]
  OBVIOUS
<1>2. \A a, b \in T : g[a] = g[b] => a = b
  OBVIOUS
<1>3. \A y \in S : \E a \in T : g[a] = y
  OBVIOUS
<1>4. g \in Bijection(T, S)
  BY <1>1, <1>2, <1>3 DEF Bijection, Injection, Surjection, IsInjective
<1>5. QED
  BY <1>4, FS_Bijection DEF ExistsBijection

\* The next entry of a plan, and what is left of it.
LEMMA HeadTail ==
  ASSUME NEW S, NEW p \in Seq(S), p # <<>>
  PROVE  Head(p) \in S /\ Tail(p) \in Seq(S)
  OBVIOUS

\* A plan of some entries is a plan of more.
LEMMA Wider ==
  ASSUME NEW S, NEW T, NEW p \in Seq(S), S \subseteq T
  PROVE  p \in Seq(T)
  OBVIOUS

\* W pairs rows of D with what f gives them.
PairsOver(W, D, f) == \A w \in W : w[1] \in D /\ w = <<w[1], f[w[1]]>>

\* A plan made from a part of a finite set of rows.
LEMMA Listed ==
  ASSUME NEW D, IsFiniteSet(D), NEW f, NEW S, NEW W \in SUBSET S, PairsOver(W, D, f)
  PROVE  SetToSeq(W) \in Seq(S)
<1> USE DEF PairsOver
<1>1. PICK T : T = {w[1] : w \in W}
  OBVIOUS
<1>2. W = {<<e, f[e]>> : e \in T}
  BY <1>1
<1>3. IsFiniteSet(T)
  BY <1>1, FS_Subset
<1>4. IsFiniteSet(W)
  BY <1>2, <1>3, PairsFinite
<1>5. SetToSeq(W) \in Seq(W)
  BY <1>4, SetSeq
<1>6. QED
  BY <1>5, Wider

-----------------------------------------------------------------------------
(* Steps of one pass.                                                      *)

\* A pass other than the one that steps keeps its plan: the lock keeps the rows of a
\* summary plan as they are.
LEMMA PlanKept ==
  ASSUME Inv, NEW s \in Sweeps, pass'[s] = pass[s],
         \/ lock # s
         \/ ent' = ent /\ lock' = lock
  PROVE  PlanOK(s)'
<1>1. PlanOK(s)
  BY DEF Inv
<1>2. CASE lock # s
  BY <1>1, <1>2 DEF PlanOK
<1>3. CASE ent' = ent /\ lock' = lock
  BY <1>1, <1>3 DEF PlanOK, Current
<1>4. QED
  BY <1>2, <1>3

\* A step of one pass leaves the plans of the others as good as they were:
\* it writes rows only without their lock.
LEMMA PlansKept ==
  ASSUME Inv, NEW s \in Sweeps, NEW p, pass' = [pass EXCEPT ![s] = p], PlanOK(s)',
         \/ lock \in {None, s}
         \/ ent' = ent /\ lock' = lock
  PROVE  \A u \in Sweeps : PlanOK(u)'
<1> SUFFICES ASSUME NEW u \in Sweeps PROVE PlanOK(u)'
  OBVIOUS
<1>1. CASE u = s
  BY <1>1
<1>2. CASE u # s
  <2>1. pass'[u] = pass[u]
    BY <1>2 DEF Inv, Typed
  <2>2. lock # u \/ (ent' = ent /\ lock' = lock)
    BY <1>2
  <2>3. QED
    BY <2>1, <2>2, PlanKept
<1>3. QED
  BY <1>1, <1>2

\* A step that only moves a pass.
LEMMA Moves ==
  ASSUME Inv, NEW s \in Sweeps, NEW p \in Passes \cup {Idle}, pass' = [pass EXCEPT ![s] = p],
         PlanOK(s)', UNCHANGED <<inst, rt, ent, index, built, misled, asserted>>,
         lock' = lock \/ (lock = None /\ lock' = s)
  PROVE  Inv'
<1>1. Typed'
  BY DEF Inv, Typed
<1>2. Labelled' /\ AssertOnlyByAssertion' /\ FlagTruthful'
  BY DEF Inv, Labelled, AssertOnlyByAssertion, FlagTruthful
<1>3. \A u \in Sweeps : PlanOK(u)'
  BY PlansKept
<1>4. QED
  BY <1>1, <1>2, <1>3 DEF Inv

\* An idle pass has no plan to keep.
LEMMA IdleOK ==
  ASSUME NEW s \in Sweeps, pass' = [pass EXCEPT ![s] = Idle], Inv
  PROVE  PlanOK(s)'
<1>1. pass'[s] = Idle /\ Idle.op = None
  BY DEF Inv, Typed, Idle
<1>2. QED
  BY <1>1 DEF PlanOK, RelationOps, PassKinds

\* A pass begins with an empty plan.
LEMMA BeginInv ==
  ASSUME Inv, NEW s \in Sweeps, NEW r \in Requests[s], Begin(s, r[1], r[2])
  PROVE  Inv'
<1> DEFINE p == [op |-> r[1], pc |-> "read", scope |-> r[2], inst |-> inst, plan |-> <<>>]
<1>1. r[1] \in PassKinds /\ r[2] \in Scopes
  OBVIOUS
<1>2. \A S : <<>> \in Seq(S)
  OBVIOUS
<1>3. p \in Passes
  BY <1>1, <1>2 DEF Passes, Plans, Inv, Typed
<1>4. pass' = [pass EXCEPT ![s] = p] /\ UNCHANGED <<inst, rt, ent, index, built, misled, asserted, lock>>
  BY DEF Begin, Step
<1>5. pass'[s] = p
  BY <1>4 DEF Inv, Typed
<1>6. PlanOK(s)'
  BY <1>2, <1>5 DEF PlanOK
<1> HIDE DEF p
<1>7. QED
  BY <1>3, <1>4, <1>6, Moves

-----------------------------------------------------------------------------
(* The relation passes.                                                    *)

\* What the lexical rules make of an edge.
LEMMA Lexical ==
  ASSUME NEW e \in Edges, NEW cur \in RelationTypes
  PROVE  \/ classify_edge_lexically(e, cur) \in Types \cup {Noise, None}
         \/ classify_edge_lexically(e, cur) = cur
<1> DEFINE text == IF cur \in FreeText THEN TextMeans[cur] ELSE None
<1>1. text \in Types \cup {Noise, None} /\ NameMeans[e] \in Types \cup {Noise, None}
  OBVIOUS
<1> HIDE DEF text
<1>2. classify_edge_lexically(e, cur) \in {Noise, cur, NameMeans[e], text}
  BY DEF classify_edge_lexically, text
<1>3. QED
  BY <1>1, <1>2

\* A pass plans a change of an edge only within what its plan may hold.
LEMMA Proposal ==
  ASSUME Inv, NEW d \in Insts, NEW e \in Rows(d), NEW op \in RelationOps, NEW scope,
         NEW v \in RelationPlan(op, scope, d, e), v # rt[d][e]
  PROVE  <<e, v>> \in Planned(op)
<1>1. e \in Edges /\ rt[d][e] \in RelationTypes
  BY DEF Rows, Inv, Typed
<1>2. CASE op = "backfill"
  <2>1. v = Derived[e] /\ Derived[e] \in RelationTypes
    BY <1>1, <1>2 DEF RelationPlan
  <2>2. QED
    BY <1>1, <1>2, <2>1 DEF Planned
<1>3. CASE op = "canonicalize"
  <2>1. v \in CanonicalChoices(e, rt[d][e])
    BY <1>3 DEF RelationPlan
  <2>2. v \in {UNCLASSIFIED, classify_edge_lexically(e, rt[d][e])} \cup Types
        /\ (v = classify_edge_lexically(e, rt[d][e]) => v \notin {Noise, None} \/ v \in Types \cup {UNCLASSIFIED})
    BY <2>1 DEF CanonicalChoices
  <2>3. v \in Types \cup {UNCLASSIFIED}
    BY <1>1, <2>2, Lexical
  <2>4. v \in RelationTypes /\ v \notin AssertOnly
    BY <2>3 DEF RelationTypes
  <2>5. QED
    BY <1>1, <1>3, <2>4 DEF Planned
<1>4. CASE op = "relations"
  <2>1. v \in Verdicts(rt[d][e]) \cup {rt[d][e]}
    BY <1>4 DEF RelationPlan
  <2>2. v \in Types \cup {UNCLASSIFIED}
    BY <2>1 DEF Verdicts
  <2>3. v \in RelationTypes /\ v \notin AssertOnly
    BY <2>2 DEF RelationTypes
  <2>4. QED
    BY <1>1, <1>4, <2>3 DEF Planned
<1>5. QED
  BY <1>2, <1>3, <1>4 DEF RelationOps

\* The pass of a task that is doing something.
LEMMA Underway ==
  ASSUME Inv, NEW s \in Sweeps, pass[s].op \in PassKinds
  PROVE  pass[s] \in Passes /\ pass[s].inst \in Insts /\ PlanOK(s)
<1>1. pass[s] # Idle
  BY DEF Idle
<1>2. QED
  BY <1>1 DEF Inv, Typed, Passes

\* The plan of a relation pass holds derived types, or none declared
\* `extract: false`.
LEMMA ReadRelationsInv ==
  ASSUME Inv, NEW s \in Sweeps, ReadRelations(s)
  PROVE  Inv'
<1>1. PICK p \in Passes : p = pass[s] /\ p.op \in RelationOps /\ p.inst \in Insts
  BY Underway DEF ReadRelations, RelationOps, PassKinds
<1> DEFINE d == pass[s].inst
           new == [e \in Rows(d) |-> RelationPlan(pass[s].op, pass[s].scope, d, e)]
<1>2. PICK f \in [Rows(d) -> UNION {new[e] : e \in Rows(d)}] :
         /\ \A e \in Rows(d) : f[e] \in new[e]
         /\ pass' = [pass EXCEPT ![s] = [pass[s] EXCEPT !.pc = "write",
               !.plan = SetToSeq({<<e, f[e]>> : e \in {x \in Rows(d) : f[x] # rt[d][x]}})]]
  BY Zenon DEF ReadRelations, Step
<1>3. PICK T : T = {x \in Rows(d) : f[x] # rt[d][x]}
  OBVIOUS
<1>4. T \in SUBSET Edges
  BY <1>3 DEF Rows
<1>5. \A e \in T : <<e, f[e]>> \in Planned(p.op)
  <2> SUFFICES ASSUME NEW e \in T PROVE <<e, f[e]>> \in Planned(p.op)
    OBVIOUS
  <2>1. e \in Rows(d) /\ f[e] \in RelationPlan(p.op, p.scope, d, e) /\ f[e] # rt[d][e]
    BY <1>1, <1>2, <1>3
  <2> HIDE DEF new
  <2>2. QED
    BY <1>1, <2>1, Proposal
<1> HIDE DEF new, d
<1>6. PICK plan \in Seq(Planned(p.op)) : plan = SetToSeq({<<e, f[e]>> : e \in T})
  <2>1. PICK W : W = {<<e, f[e]>> : e \in T}
    OBVIOUS
  <2>2. PICK S : S = Planned(p.op)
    OBVIOUS
  <2>3. W \subseteq S
    BY <1>5, <2>1, <2>2
  <2>4. SetToSeq(W) \in Seq(S)
    <3>1. PairsOver(W, Edges, f)
      BY <1>4, <2>1 DEF PairsOver
    <3>2. W \in SUBSET S /\ IsFiniteSet(Edges)
      BY <2>3, <3>1, SweepsAssumption
    <3>3. QED
      BY <3>1, <3>2, Listed
  <2>5. QED
    BY <2>1, <2>2, <2>4
<1>7. PICK q : q = [p EXCEPT !.pc = "write", !.plan = plan]
  OBVIOUS
<1>8. pass' = [pass EXCEPT ![s] = q]
  BY <1>1, <1>2, <1>3, <1>6, <1>7
<1>9. plan \in Plans
  <2>1. Planned(p.op) \subseteq Edges \X RelationTypes
    BY DEF Planned
  <2>2. QED
    BY <2>1, Wider DEF Plans
<1>10. q \in Passes /\ q.op = p.op /\ q.plan = plan
  BY <1>7, <1>9 DEF Passes
<1>11. pass'[s] = q
  BY <1>8 DEF Inv, Typed
<1>12. PlanOK(s)'
  BY <1>1, <1>10, <1>11 DEF PlanOK, RelationOps
<1>13. UNCHANGED <<inst, rt, ent, index, built, misled, asserted, lock>>
  BY DEF ReadRelations
<1>14. QED
  BY <1>8, <1>10, <1>12, <1>13, Moves

\* The rest of a relation plan after a batch.
LEMMA Shorter ==
  ASSUME NEW p \in Passes, NEW S, p.plan \in Seq(S), S \subseteq Edges \X RelationTypes \/ S \subseteq Entities \X Texts
            \/ S \subseteq Entities \X EntityTypes,
         p.plan # <<>>, NEW pc \in {"read", "load", "drop", "write"}
  PROVE  /\ Head(p.plan) \in S
         /\ Tail(p.plan) \in Seq(S)
         /\ [p EXCEPT !.plan = Tail(@)] \in Passes
         /\ [p EXCEPT !.plan = Tail(@), !.pc = pc] \in Passes
<1>1. Head(p.plan) \in S /\ Tail(p.plan) \in Seq(S)
  BY HeadTail
<1>2. PICK t : t = Tail(p.plan)
  OBVIOUS
<1>3. t \in Plans
  BY <1>1, <1>2, Wider DEF Plans
<1>4. [p EXCEPT !.plan = t] \in Passes /\ [p EXCEPT !.plan = t, !.pc = pc] \in Passes
  BY <1>3 DEF Passes
<1>5. QED
  BY <1>1, <1>2, <1>4

\* One edge of the plan is written, if it still qualifies.
LEMMA WriteRelationsInv ==
  ASSUME Inv, NEW s \in Sweeps, WriteRelations(s)
  PROVE  Inv'
<1>1. PICK p \in Passes : p = pass[s] /\ p.op \in RelationOps /\ p.inst \in Insts
  BY Underway DEF WriteRelations, RelationOps, PassKinds
<1>2. UNCHANGED <<inst, ent, index, built, lock, misled, asserted>> /\ lock = None
  BY DEF WriteRelations
<1>3. CASE p.plan = <<>>
  <2>1. pass' = [pass EXCEPT ![s] = Idle] /\ rt' = rt
    BY <1>1, <1>3 DEF WriteRelations, Step
  <2>2. QED
    BY <1>2, <2>1, IdleOK, Moves
<1>4. CASE p.plan # <<>>
  <2>1. PICK h : h = Head(p.plan)
    OBVIOUS
  <2>2. p.plan \in Seq(Planned(p.op))
    BY <1>1 DEF Inv, PlanOK
  <2>3. Planned(p.op) \subseteq Edges \X RelationTypes
    BY DEF Planned
  <2>4. h \in Planned(p.op) /\ Tail(p.plan) \in Seq(Planned(p.op)) /\ [p EXCEPT !.plan = Tail(@)] \in Passes
    BY <1>4, <2>1, <2>2, <2>3, Shorter
  <2>5. PICK q \in Passes : q = [p EXCEPT !.plan = Tail(@)]
    BY <2>4
  <2>6. /\ rt' = IF Sets(p.op, rt[p.inst][h[1]]) THEN [rt EXCEPT ![p.inst][h[1]] = h[2]] ELSE rt
        /\ pass' = [pass EXCEPT ![s] = q]
    BY <1>1, <1>4, <2>1, <2>5 DEF WriteRelations, Step
  <2>7. q.op = p.op /\ q.plan = Tail(p.plan) /\ pass'[s] = q
    BY <2>5, <2>6 DEF Inv, Typed, Passes
  <2>8. PlanOK(s)'
    BY <1>1, <2>4, <2>7 DEF PlanOK, RelationOps
  <2>9. \A u \in Sweeps : PlanOK(u)'
    BY <1>2, <2>6, <2>8, PlansKept
  <2>10. h[1] \in Edges /\ h[2] \in RelationTypes /\ (h[2] \in AssertOnly => h[2] = Derived[h[1]])
    BY <2>4 DEF Planned
  <2>11. rt' \in [Insts -> [Edges -> RelationTypes \cup {None}]]
    BY <2>6, <2>10 DEF Inv, Typed
  <2>12. \A x \in Insts, e \in Edges :
            rt'[x][e] = rt[x][e] \/ (e = h[1] /\ rt'[x][e] = h[2])
    BY <2>6, <2>10 DEF Inv, Typed
  <2>13. AssertOnlyByAssertion'
    BY <1>2, <2>10, <2>12 DEF Inv, AssertOnlyByAssertion
  <2>14. Typed' /\ Labelled' /\ FlagTruthful'
    BY <1>2, <2>5, <2>6, <2>11 DEF Inv, Typed, Labelled, FlagTruthful
  <2>15. QED
    BY <2>9, <2>13, <2>14 DEF Inv
<1>5. QED
  BY <1>3, <1>4

-----------------------------------------------------------------------------
(* The entity passes.                                                      *)

\* A pass under the lock, its own or nobody's, that leaves relations alone.
LEMMA Changes ==
  ASSUME Inv, NEW s \in Sweeps, NEW p \in Passes \cup {Idle}, pass' = [pass EXCEPT ![s] = p],
         PlanOK(s)', lock \in {None, s}, lock' \in {None, s},
         ent' \in [Insts -> [Entities -> EntityRow \cup {None}]], Labelled',
         index' \subseteq Insts, built' \in BOOLEAN, misled' \in BOOLEAN, FlagTruthful',
         UNCHANGED <<inst, rt, asserted>>
  PROVE  Inv'
<1>1. Typed'
  BY DEF Inv, Typed
<1>2. AssertOnlyByAssertion'
  BY DEF Inv, AssertOnlyByAssertion
<1>3. \A u \in Sweeps : PlanOK(u)'
  BY PlansKept
<1>4. QED
  BY <1>1, <1>2, <1>3 DEF Inv

\* A failed pass is over.
LEMMA PassFailsInv ==
  ASSUME Inv, NEW s \in Sweeps, PassFails(s)
  PROVE  Inv'
<1>1. pass' = [pass EXCEPT ![s] = Idle] /\ UNCHANGED <<inst, rt, ent, index, built, misled, asserted, lock>>
  BY DEF PassFails, Step
<1>2. QED
  BY <1>1, IdleOK, Moves

\* The leaf of a row is a declared type.
LEMMA Leaf ==
  ASSUME NEW i, NEW labels
  PROVE  find_leaf_type(i, labels) \in EntityTypes \cup {None}
<1>1. \A S : Leaves(S) \subseteq S
  BY DEF Leaves
<1>2. \A S : Cardinality(S) = 1 => \E t \in S : TRUE
  <2> SUFFICES ASSUME NEW S, Cardinality(S) = 1, S = {} PROVE FALSE
    OBVIOUS
  <2>1. Cardinality({}) = 0
    BY FS_EmptySet
  <2>2. QED
    BY <2>1
<1>3. \A S : (S \subseteq EntityTypes /\ Cardinality(S) = 1) => (CHOOSE t \in S : TRUE) \in EntityTypes
  BY <1>2
<1> DEFINE declared == labels \cap EntityTypes
           rest == declared \ ({Kind[i]} \cup (IF Kind[i] \in EntityTypes THEN Ancestors[Kind[i]] ELSE {}))
           leaves == IF Cardinality(Leaves(declared)) = 1 THEN Leaves(declared) ELSE Leaves(rest)
<1>4. declared \subseteq EntityTypes /\ rest \subseteq EntityTypes
  OBVIOUS
<1> HIDE DEF declared, rest
<1>5. leaves \subseteq EntityTypes
  BY <1>1, <1>4
<1> HIDE DEF leaves
<1>6. find_leaf_type(i, labels) = IF Cardinality(leaves) = 1 THEN CHOOSE t \in leaves : TRUE ELSE None
  BY Zenon DEF find_leaf_type, leaves, rest, declared
<1>7. QED
  BY <1>3, <1>5, <1>6

\* Classified labels keep Entity and the kind.
LEMMA Stamped ==
  ASSUME NEW i \in Entities, NEW t \in EntityTypes
  PROVE  /\ apply_entity_type_labels(i, t) \in SUBSET Labels
         /\ "Entity" \in apply_entity_type_labels(i, t)
         /\ Kind[i] \in apply_entity_type_labels(i, t)
<1>1. Ancestors[t] \subseteq EntityTypes
  OBVIOUS
<1>2. QED
  BY <1>1 DEF apply_entity_type_labels, Labels

\* A pass that goes on with another plan, database or place.
LEMMA Goes ==
  ASSUME NEW p \in Passes, NEW pc \in {"read", "load", "drop", "write"}, NEW plan \in Plans,
         NEW d \in Insts
  PROVE  /\ [p EXCEPT !.pc = pc, !.plan = plan] \in Passes
         /\ [p EXCEPT !.inst = d, !.pc = pc] \in Passes
         /\ [p EXCEPT !.pc = pc] \in Passes
  BY DEF Passes

\* reprocess_entity_types reads the entities it will label.
LEMMA ReadTypesInv ==
  ASSUME Inv, NEW s \in Sweeps, ReadTypes(s)
  PROVE  Inv'
<1>1. PICK p \in Passes : p = pass[s] /\ p.op = "types" /\ p.inst \in Insts
  BY Underway DEF ReadTypes, PassKinds
<1> DEFINE d == pass[s].inst
           todo == {i \in EntityRows(d) : EntityInScope(pass[s].scope, ent[d][i].labels)}
<1>2. PICK f \in [todo -> EntityTypes \cup {None}] :
         pass' = [pass EXCEPT ![s] = [pass[s] EXCEPT !.pc = "load",
            !.plan = SetToSeq({<<i, f[i]>> : i \in
                       {x \in todo : f[x] \notin {None, find_leaf_type(x, ent[d][x].labels)}}})]]
  BY Zenon DEF ReadTypes, Step
<1>3. PICK T : T = {x \in todo : f[x] \notin {None, find_leaf_type(x, ent[d][x].labels)}}
  OBVIOUS
<1>4. \A x \in T : x \in Entities /\ f[x] \in EntityTypes
  <2>1. T \subseteq todo /\ \A x \in T : f[x] # None
    BY <1>3
  <2>2. todo \subseteq Entities
    BY DEF EntityRows
  <2> HIDE DEF todo
  <2>3. QED
    BY <2>1, <2>2
<1> HIDE DEF todo, d
<1>5. PICK plan \in Seq(Entities \X EntityTypes) : plan = SetToSeq({<<e, f[e]>> : e \in T})
  <2>1. PICK W : W = {<<e, f[e]>> : e \in T}
    OBVIOUS
  <2>2. PICK S : S = Entities \X EntityTypes
    OBVIOUS
  <2>3. W \subseteq S
    BY <1>4, <2>1, <2>2
  <2>4. PairsOver(W, Entities, f)
    BY <1>4, <2>1 DEF PairsOver
  <2>5. SetToSeq(W) \in Seq(S)
    BY <2>3, <2>4, SweepsAssumption, Listed
  <2>6. QED
    BY <2>1, <2>2, <2>5
<1>6. PICK q : q = [p EXCEPT !.pc = "load", !.plan = plan]
  OBVIOUS
<1>7. pass' = [pass EXCEPT ![s] = q]
  BY <1>1, <1>2, <1>3, <1>5, <1>6
<1>8. q \in Passes /\ q.op = "types" /\ q.plan = plan
  BY <1>1, <1>6 DEF Passes, Plans
<1>9. pass'[s] = q
  BY <1>7 DEF Inv, Typed
<1>10. PlanOK(s)'
  BY <1>8, <1>9 DEF PlanOK, RelationOps
<1>11. UNCHANGED <<inst, rt, ent, index, built, misled, asserted, lock>>
  BY DEF ReadTypes
<1>12. QED
  BY <1>7, <1>8, <1>10, <1>11, Moves

\* Before its first write it takes the handle of the database anew.
LEMMA LoadForTypesInv ==
  ASSUME Inv, NEW s \in Sweeps, LoadForTypes(s)
  PROVE  Inv'
<1>1. PICK p \in Passes : p = pass[s] /\ p.op = "types" /\ PlanOK(s)
  BY Underway DEF LoadForTypes, PassKinds
<1>2. PICK q : q = [p EXCEPT !.inst = inst, !.pc = "write"]
  OBVIOUS
<1>3. q \in Passes /\ q.op = "types" /\ q.plan = p.plan
  BY <1>1, <1>2 DEF Passes, Inv, Typed
<1>4. pass' = [pass EXCEPT ![s] = q] /\ UNCHANGED <<inst, rt, ent, index, built, misled, asserted, lock>>
  BY <1>1, <1>2 DEF LoadForTypes, Step
<1>5. pass'[s] = q
  BY <1>4 DEF Inv, Typed
<1>6. PlanOK(s)'
  BY <1>1, <1>3, <1>5 DEF PlanOK, RelationOps
<1>7. QED
  BY <1>3, <1>4, <1>6, Moves

\* Rows whose labels alone change.
LEMMA Relabelled ==
  ASSUME Inv, NEW d \in Insts, NEW rows \in [Entities -> EntityRow \cup {None}],
         ent' = [ent EXCEPT ![d] = rows],
         \A i \in Entities : rows[i] # None => "Entity" \in rows[i].labels /\ Kind[i] \in rows[i].labels
  PROVE  ent' \in [Insts -> [Entities -> EntityRow \cup {None}]] /\ Labelled'
<1>1. ent \in [Insts -> [Entities -> EntityRow \cup {None}]] /\ Labelled
  BY DEF Inv, Typed
<1>2. ent' \in [Insts -> [Entities -> EntityRow \cup {None}]]
  BY <1>1
<1>3. \A x \in Insts : ent'[x] = IF x = d THEN rows ELSE ent[x]
  BY <1>1
<1>4. Labelled'
  BY <1>1, <1>3 DEF Labelled
<1>5. QED
  BY <1>2, <1>4

\* A row whose labels are replaced by others that keep Entity and the kind.
LEMMA RowLabels ==
  ASSUME NEW r \in EntityRow, NEW L \in SUBSET Labels
  PROVE  [r EXCEPT !.labels = L] \in EntityRow /\ [r EXCEPT !.labels = L].labels = L
         /\ [r EXCEPT !.labels = L].summary = r.summary
  BY DEF EntityRow

\* No row is the absent one.
LEMMA RowIsThere ==
  ASSUME Inv, NEW d \in Insts, NEW i \in Entities, ent[d][i] # None
  PROVE  /\ ent[d][i] \in EntityRow /\ ent[d][i].labels \in SUBSET Labels
         /\ "Entity" \in ent[d][i].labels /\ Kind[i] \in ent[d][i].labels
<1>1. ent[d][i] \in EntityRow
  BY DEF Inv, Typed
<1>2. QED
  BY <1>1 DEF Inv, Labelled, EntityRow

\* What a batch of the type pass makes of the rows.
LEMMA BatchOfTypes ==
  ASSUME Inv, NEW d \in Insts, NEW i \in Entities, NEW t \in EntityTypes,
         ent' = IF ent[d][i] = None THEN ent
                ELSE [ent EXCEPT ![d][i].labels = apply_entity_type_labels(i, t)]
  PROVE  ent' \in [Insts -> [Entities -> EntityRow \cup {None}]] /\ Labelled'
<1>1. CASE ent[d][i] = None
  BY <1>1 DEF Inv, Typed, Labelled
<1>2. CASE ent[d][i] # None
  <2>1. PICK L \in SUBSET Labels : L = apply_entity_type_labels(i, t) /\ "Entity" \in L /\ Kind[i] \in L
    BY Stamped
  <2>2. PICK r : r = [ent[d][i] EXCEPT !.labels = L]
    OBVIOUS
  <2>3. r \in EntityRow /\ r.labels = L
    BY <1>2, <2>2, RowIsThere, RowLabels
  <2>4. PICK rows : rows = [ent[d] EXCEPT ![i] = r]
    OBVIOUS
  <2>5. ent' = [ent EXCEPT ![d] = rows]
    BY <1>2, <2>1, <2>2, <2>4 DEF Inv, Typed
  <2>6. ent[d] \in [Entities -> EntityRow \cup {None}]
    BY DEF Inv, Typed
  <2>7. rows \in [Entities -> EntityRow \cup {None}]
    BY <2>3, <2>4, <2>6
  <2>8. \A j \in Entities : rows[j] # None => "Entity" \in rows[j].labels /\ Kind[j] \in rows[j].labels
    BY <2>1, <2>3, <2>4, <2>6 DEF Inv, Labelled
  <2>9. QED
    BY <2>5, <2>7, <2>8, Relabelled
<1>3. QED
  BY <1>1, <1>2

\* What the restamp after the last batch makes of the rows.
LEMMA RestampOfRows ==
  ASSUME Inv, NEW d \in Insts,
         ent' = [ent EXCEPT ![d] = [i \in Entities |-> Restamped(i, ent[d][i])]]
  PROVE  ent' \in [Insts -> [Entities -> EntityRow \cup {None}]] /\ Labelled'
<1>1. PICK rows : rows = [i \in Entities |-> Restamped(i, ent[d][i])]
  OBVIOUS
<1>2. \A i \in Entities : /\ rows[i] \in EntityRow \cup {None}
                          /\ rows[i] # None => "Entity" \in rows[i].labels /\ Kind[i] \in rows[i].labels
  <2> SUFFICES ASSUME NEW i \in Entities
               PROVE  /\ rows[i] \in EntityRow \cup {None}
                      /\ rows[i] # None => "Entity" \in rows[i].labels /\ Kind[i] \in rows[i].labels
    OBVIOUS
  <2>1. PICK r : r = ent[d][i]
    OBVIOUS
  <2>2. rows[i] = Restamped(i, r)
    BY <1>1, <2>1
  <2>3. CASE r = None
    BY <2>2, <2>3 DEF Restamped
  <2>4. CASE r # None
    <3>1. /\ r \in EntityRow
          /\ "Entity" \in r.labels /\ Kind[i] \in r.labels
      BY <2>1, <2>4, RowIsThere
    <3>2. PICK t \in EntityTypes \cup {None} : t = find_leaf_type(i, r.labels)
      BY Leaf
    <3>3. PICK L : L = apply_entity_type_labels(i, t)
      OBVIOUS
    <3>4. rows[i] = r \/ (t # None /\ rows[i] = [r EXCEPT !.labels = L])
      BY <2>2, <3>2, <3>3 DEF Restamped
    <3>5. CASE rows[i] = r
      BY <3>1, <3>5
    <3>6. CASE t # None /\ rows[i] = [r EXCEPT !.labels = L]
      <4>1. L \in SUBSET Labels /\ "Entity" \in L /\ Kind[i] \in L
        BY <3>2, <3>3, <3>6, Stamped
      <4>2. QED
        BY <3>1, <3>6, <4>1, RowLabels
    <3>7. QED
      BY <3>4, <3>5, <3>6
  <2>5. QED
    BY <2>3, <2>4
<1>3. rows \in [Entities -> EntityRow \cup {None}]
  BY <1>1, <1>2
<1>4. ent' = [ent EXCEPT ![d] = rows]
  BY <1>1
<1>5. QED
  BY <1>2, <1>3, <1>4, Relabelled

\* It restamps one entity, which keeps its kind among its labels.
LEMMA WriteTypesInv ==
  ASSUME Inv, NEW s \in Sweeps, WriteTypes(s)
  PROVE  Inv'
<1>1. PICK p \in Passes : p = pass[s] /\ p.op = "types" /\ p.inst \in Insts /\ PlanOK(s)
  BY Underway DEF WriteTypes, PassKinds
<1>2. UNCHANGED <<inst, rt, index, built, lock, misled, asserted>> /\ lock = None
  BY DEF WriteTypes
<1>3. index' \subseteq Insts /\ built' \in BOOLEAN /\ misled' \in BOOLEAN /\ FlagTruthful'
  BY <1>2 DEF Inv, Typed, FlagTruthful
<1>4. CASE p.plan = <<>>
  <2>1. pass' = [pass EXCEPT ![s] = Idle]
    BY <1>1, <1>4 DEF WriteTypes, Step
  <2>2. PICK d \in Insts : d = p.inst
    BY <1>1
  <2>3. ent' = [ent EXCEPT ![d] = [i \in Entities |-> Restamped(i, ent[d][i])]]
    BY <1>1, <1>4, <2>2 DEF WriteTypes
  <2>4. ent' \in [Insts -> [Entities -> EntityRow \cup {None}]] /\ Labelled'
    BY <2>3, RestampOfRows
  <2>5. PlanOK(s)'
    BY <2>1, IdleOK
  <2>6. QED
    BY <1>2, <1>3, <2>1, <2>4, <2>5, Changes
<1>5. CASE p.plan # <<>>
  <2>1. p.plan \in Seq(Entities \X EntityTypes)
    BY <1>1 DEF PlanOK
  <2>2. /\ Head(p.plan) \in Entities \X EntityTypes
        /\ Tail(p.plan) \in Seq(Entities \X EntityTypes)
        /\ [p EXCEPT !.plan = Tail(@), !.pc = "load"] \in Passes
    BY <1>5, <2>1, Shorter
  <2>3. PICK h \in Entities \X EntityTypes : h = Head(p.plan)
    BY <2>2
  <2>4. PICK q \in Passes : q = [p EXCEPT !.plan = Tail(@), !.pc = "load"]
    BY <2>2
  <2>5. /\ ent' = IF ent[p.inst][h[1]] = None THEN ent
                  ELSE [ent EXCEPT ![p.inst][h[1]].labels = apply_entity_type_labels(h[1], h[2])]
        /\ pass' = [pass EXCEPT ![s] = q]
    BY <1>1, <1>5, <2>3, <2>4 DEF WriteTypes, Step
  <2>6. PICK d \in Insts, i \in Entities, t \in EntityTypes : d = p.inst /\ i = h[1] /\ t = h[2]
    BY <1>1
  <2>7. ent' \in [Insts -> [Entities -> EntityRow \cup {None}]] /\ Labelled'
    BY <2>5, <2>6, BatchOfTypes
  <2>8. q.op = "types" /\ q.plan = Tail(p.plan) /\ pass'[s] = q
    BY <1>1, <2>4, <2>5 DEF Inv, Typed, Passes
  <2>9. PlanOK(s)'
    BY <2>2, <2>8 DEF PlanOK, RelationOps
  <2>10. QED
    BY <1>2, <1>3, <2>5, <2>7, <2>9, Changes
<1>6. QED
  BY <1>4, <1>5

-----------------------------------------------------------------------------
(* The summary pass.                                                       *)

\* The summary pass takes the lock, then reads what its plan holds.
LEMMA ReadSummariesInv ==
  ASSUME Inv, NEW s \in Sweeps, ReadSummaries(s)
  PROVE  Inv'
<1>1. PICK p \in Passes : p = pass[s] /\ p.op = "summaries" /\ p.inst \in Insts
  BY Underway DEF ReadSummaries, PassKinds
<1>2. PICK d \in Insts : d = p.inst
  BY <1>1
<1>3. PICK W : W = {<<i, ent[d][i].summary>> : i \in EntityRows(d)}
  OBVIOUS
<1>4. PICK f : f = [i \in Entities |-> ent[d][i].summary]
  OBVIOUS
<1>5. PairsOver(W, Entities, f)
  BY <1>3, <1>4 DEF EntityRows, PairsOver
<1>6. W \subseteq Current(d)
  <2> SUFFICES ASSUME NEW i \in EntityRows(d) PROVE <<i, ent[d][i].summary>> \in Current(d)
    BY <1>3
  <2>1. i \in Entities /\ ent[d][i] \in EntityRow
    BY DEF EntityRows, Inv, Typed
  <2>2. ent[d][i].summary \in Texts
    BY <2>1 DEF EntityRow
  <2>3. QED
    BY <2>1, <2>2 DEF Current
<1>7. PICK S : S = Current(d)
  OBVIOUS
<1>8. PICK plan : plan = SetToSeq(W)
  OBVIOUS
<1>9. plan \in Seq(S)
  <2>1. W \in SUBSET S
    BY <1>6, <1>7
  <2>2. QED
    BY <1>5, <1>8, <2>1, SweepsAssumption, Listed
<1>10. plan \in Plans
  <2>1. S \subseteq Entities \X Texts
    BY <1>7 DEF Current
  <2>2. QED
    BY <1>9, <2>1, Wider DEF Plans
<1>11. PICK q : q = [p EXCEPT !.pc = "drop", !.plan = plan]
  OBVIOUS
<1>12. q \in Passes /\ q.op = "summaries" /\ q.plan = plan /\ q.inst = d
  BY <1>1, <1>2, <1>10, <1>11 DEF Passes
<1>13. pass' = [pass EXCEPT ![s] = [pass[s] EXCEPT !.pc = "drop",
         !.plan = SetToSeq({<<i, ent[pass[s].inst][i].summary>> : i \in EntityRows(pass[s].inst)})]]
  BY Zenon DEF ReadSummaries, Step
<1>14. pass' = [pass EXCEPT ![s] = q]
  BY <1>1, <1>2, <1>3, <1>8, <1>11, <1>13
<1>15. UNCHANGED <<inst, rt, ent, index, built, misled, asserted>> /\ lock = None /\ lock' = s
  BY DEF ReadSummaries, SummariesLock
<1>16. pass'[s] = q
  BY <1>14 DEF Inv, Typed
<1>17. Current(d)' = Current(d)
  BY <1>15 DEF Current
<1>18. PlanOK(s)'
  BY <1>7, <1>9, <1>12, <1>15, <1>16, <1>17 DEF PlanOK, RelationOps
<1>19. QED
  BY <1>12, <1>14, <1>15, <1>18, Moves

\* A summary pass past its read has the lock and a plan that agrees with the rows.
LEMMA Holding ==
  ASSUME Inv, NEW s \in Sweeps, pass[s].op = "summaries", pass[s].pc # "read"
  PROVE  /\ pass[s] \in Passes /\ pass[s].inst \in Insts /\ lock = s
         /\ pass[s].plan \in Seq(Current(pass[s].inst))
  BY Underway DEF PlanOK, PassKinds

\* The index is dropped with indices_built lowered first.
LEMMA DropSummaryIndexInv ==
  ASSUME Inv, NEW s \in Sweeps, DropSummaryIndex(s)
  PROVE  Inv'
<1>1. PICK p \in Passes : /\ p = pass[s] /\ p.op = "summaries" /\ p.inst \in Insts /\ lock = s
                           /\ p.plan \in Seq(Current(p.inst))
  BY Holding DEF DropSummaryIndex
<1>2. PICK q : q = [p EXCEPT !.pc = "write"]
  OBVIOUS
<1>3. q \in Passes /\ q.op = "summaries" /\ q.plan = p.plan /\ q.inst = p.inst
  BY <1>1, <1>2 DEF Passes
<1>4. pass' = [pass EXCEPT ![s] = q] /\ built' = FALSE /\ UNCHANGED <<inst, rt, ent, lock, misled, asserted>>
  BY <1>1, <1>2 DEF DropSummaryIndex, Step, FlagAtDrop
<1>5. pass'[s] = q
  BY <1>4 DEF Inv, Typed
<1>6. PlanOK(s)'
  <2>1. PICK d : d = p.inst
    OBVIOUS
  <2>2. Current(d)' = Current(d)
    BY <1>4 DEF Current
  <2>3. QED
    BY <1>1, <1>3, <1>4, <1>5, <2>1, <2>2 DEF PlanOK, RelationOps
<1>7. /\ ent' \in [Insts -> [Entities -> EntityRow \cup {None}]] /\ Labelled'
      /\ index' \subseteq Insts /\ built' \in BOOLEAN /\ misled' \in BOOLEAN /\ FlagTruthful'
  BY <1>4 DEF Inv, Typed, Labelled, FlagTruthful, DropSummaryIndex
<1>8. QED
  BY <1>1, <1>3, <1>4, <1>6, <1>7, Changes

\* A row written back with the summary it has: nothing but its embedding changes.
LEMMA WrittenBack ==
  ASSUME Inv, NEW d \in Insts, NEW h \in Current(d),
         ent' = [ent EXCEPT ![d][h[1]].summary = h[2], ![d][h[1]].of = h[2]]
  PROVE  /\ ent' \in [Insts -> [Entities -> EntityRow \cup {None}]] /\ Labelled'
         /\ Current(d) \subseteq Current(d)'
         /\ \A x \in Insts : \A i \in EntityRows(x) : ent'[x][i].summary = ent[x][i].summary
<1>1. PICK i \in Entities, text \in Texts : i = h[1] /\ text = h[2] /\ ent[d][i].summary = text
  BY DEF Current
<1>2. PICK r \in EntityRow : r = ent[d][i]
  BY <1>1 DEF Current
<1>3. PICK w : w = [r EXCEPT !.summary = text, !.of = text]
  OBVIOUS
<1>4. w \in EntityRow /\ w.labels = r.labels /\ w.summary = r.summary
  BY <1>1, <1>2, <1>3 DEF EntityRow
<1>5. ent[d] \in [Entities -> EntityRow \cup {None}] /\ ent \in [Insts -> [Entities -> EntityRow \cup {None}]]
  BY DEF Inv, Typed
<1>6. PICK rows : rows = [ent[d] EXCEPT ![i] = w]
  OBVIOUS
<1>7. ent' = [ent EXCEPT ![d] = rows]
  <2>0. ent' = [ent EXCEPT ![d][i].summary = text, ![d][i].of = text]
    BY <1>1
  <2>1. ent' = [ent EXCEPT ![d] = [ent[d] EXCEPT ![i] = [ent[d][i] EXCEPT !.summary = text, !.of = text]]]
    BY <1>2, <1>5, <2>0 DEF EntityRow
  <2>2. QED
    BY <1>2, <1>3, <1>6, <2>1
<1>8. rows \in [Entities -> EntityRow \cup {None}] /\ \A j \in Entities : rows[j] = IF j = i THEN w ELSE ent[d][j]
  BY <1>4, <1>5, <1>6
<1>9. \A j \in Entities : rows[j] # None => "Entity" \in rows[j].labels /\ Kind[j] \in rows[j].labels
  <2>1. r # None
    BY <1>2
  <2>2. "Entity" \in w.labels /\ Kind[i] \in w.labels
    BY <1>2, <1>4, <2>1 DEF Inv, Labelled
  <2>3. QED
    BY <1>8, <2>2 DEF Inv, Labelled
<1>10. ent' \in [Insts -> [Entities -> EntityRow \cup {None}]] /\ Labelled'
  BY <1>7, <1>8, <1>9, Relabelled
<1>11. \A x \in Insts, j \in Entities : ent'[x][j] = IF x = d /\ j = i THEN w ELSE ent[x][j]
  BY <1>5, <1>7, <1>8
<1>12. \A x \in Insts, j \in Entities : ent'[x][j].summary = ent[x][j].summary
  <2> SUFFICES ASSUME NEW x \in Insts, NEW j \in Entities PROVE ent'[x][j].summary = ent[x][j].summary
    OBVIOUS
  <2>1. CASE x = d /\ j = i
    BY <1>2, <1>4, <1>11, <2>1
  <2>2. CASE ~(x = d /\ j = i)
    <3>1. ent'[x][j] = ent[x][j]
      BY <1>11, <2>2
    <3>2. QED
      BY <3>1
  <2>3. QED
    BY <2>1, <2>2
<1>13. \A j \in Entities : ent[d][j] \in EntityRow => ent'[d][j] \in EntityRow
  <2> SUFFICES ASSUME NEW j \in Entities, ent[d][j] \in EntityRow PROVE ent'[d][j] \in EntityRow
    OBVIOUS
  <2>a. ent'[d][j] = IF j = i THEN w ELSE ent[d][j]
    BY <1>11
  <2>1. CASE j = i
    BY <1>4, <2>a, <2>1
  <2>2. CASE j # i
    BY <2>a, <2>2
  <2>3. QED
    BY <2>1, <2>2
<1>14. Current(d) \subseteq Current(d)'
  <2> SUFFICES ASSUME NEW pr \in Current(d) PROVE pr \in Current(d)'
    OBVIOUS
  <2>1. pr \in Entities \X Texts /\ ent[d][pr[1]] \in EntityRow /\ ent[d][pr[1]].summary = pr[2]
    BY DEF Current
  <2>2. PICK j : j = pr[1]
    OBVIOUS
  <2>3. j \in Entities
    BY <2>1, <2>2
  <2>4. ent'[d][j] \in EntityRow /\ ent'[d][j].summary = pr[2]
    BY <1>12, <1>13, <2>1, <2>2, <2>3
  <2>5. QED
    BY <2>1, <2>2, <2>4 DEF Current
<1>15. QED
  BY <1>10, <1>12, <1>14 DEF EntityRows

\* A batch of summaries, with the database, the entry and the pass it leads to.
LEMMA SummaryBatch ==
  ASSUME Inv, NEW s \in Sweeps, WriteSummaries(s), pass[s].plan # <<>>
  PROVE  \E d \in Insts : \E h \in Current(d) : \E q \in Passes :
           /\ d = pass[s].inst /\ lock = s
           /\ ent' = [ent EXCEPT ![d][h[1]].summary = h[2], ![d][h[1]].of = h[2]]
           /\ pass' = [pass EXCEPT ![s] = q]
           /\ q.op = "summaries" /\ q.inst = d /\ q.plan \in Seq(Current(d))
           /\ UNCHANGED <<inst, rt, index, built, lock, misled, asserted>>
<1>1. PICK p \in Passes : /\ p = pass[s] /\ p.op = "summaries" /\ p.inst \in Insts /\ lock = s
                           /\ p.plan \in Seq(Current(p.inst))
  BY Holding DEF WriteSummaries
<1>2. PICK d \in Insts : d = p.inst
  BY <1>1
<1>3. PICK S : S = Current(d)
  OBVIOUS
<1>4. S \subseteq Entities \X Texts
  BY <1>3 DEF Current
<1>5. Head(p.plan) \in S /\ Tail(p.plan) \in Seq(S) /\ [p EXCEPT !.plan = Tail(@)] \in Passes
  BY <1>1, <1>2, <1>3, <1>4, Shorter
<1>6. PICK h \in S : h = Head(p.plan)
  BY <1>5
<1>7. PICK q \in Passes : q = [p EXCEPT !.plan = Tail(@)]
  BY <1>5
<1>8. q.op = "summaries" /\ q.inst = d /\ q.plan = Tail(p.plan)
  BY <1>1, <1>2, <1>7 DEF Passes
<1>9. /\ ent' = [ent EXCEPT ![d][h[1]].summary = h[2], ![d][h[1]].of = h[2]]
      /\ pass' = [pass EXCEPT ![s] = q]
      /\ UNCHANGED <<inst, rt, index, built, lock, misled, asserted>>
  <2>1. pass[s].plan # <<>> /\ pass[s] = p
    BY <1>1
  <2>2. /\ ent' = [ent EXCEPT ![p.inst][Head(p.plan)[1]].summary = Head(p.plan)[2],
                             ![p.inst][Head(p.plan)[1]].of = Head(p.plan)[2]]
        /\ pass' = [pass EXCEPT ![s] = [p EXCEPT !.plan = Tail(@)]]
        /\ UNCHANGED <<inst, rt, index, built, lock, misled, asserted>>
    BY <2>1 DEF WriteSummaries, Step
  <2>3. pass' = [pass EXCEPT ![s] = q]
    BY <1>7, <2>2
  <2>4. ent' = [ent EXCEPT ![d][h[1]].summary = h[2], ![d][h[1]].of = h[2]]
    BY <1>2, <1>6, <2>2
  <2>5. QED
    BY <2>2, <2>3, <2>4
<1>10. d = pass[s].inst /\ lock = s /\ h \in Current(d) /\ q.plan \in Seq(Current(d))
  BY <1>1, <1>2, <1>3, <1>5, <1>6, <1>8
<1>11. QED
  BY <1>8, <1>9, <1>10

\* A summary is written while the plan agrees with the rows.
LEMMA WriteSummariesInv ==
  ASSUME Inv, NEW s \in Sweeps, WriteSummaries(s)
  PROVE  Inv'
<1>1. CASE pass[s].plan # <<>>
  <2> DEFINE Batch(d, h, q) ==
           /\ d = pass[s].inst /\ lock = s
           /\ ent' = [ent EXCEPT ![d][h[1]].summary = h[2], ![d][h[1]].of = h[2]]
           /\ pass' = [pass EXCEPT ![s] = q]
           /\ q.op = "summaries" /\ q.inst = d /\ q.plan \in Seq(Current(d))
           /\ UNCHANGED <<inst, rt, index, built, lock, misled, asserted>>
  <2>0. \E d \in Insts : \E h \in Current(d) : \E q \in Passes : Batch(d, h, q)
    BY <1>1, SummaryBatch
  <2>a. PICK d \in Insts : \E h \in Current(d) : \E q \in Passes : Batch(d, h, q)
    BY <2>0
  <2>1. PICK h \in Current(d), q \in Passes : Batch(d, h, q)
    BY <2>a
  <2>2. /\ ent' \in [Insts -> [Entities -> EntityRow \cup {None}]] /\ Labelled'
        /\ Current(d) \subseteq Current(d)'
    BY <2>1, WrittenBack
  <2>3. q.plan \in Seq(Current(d)')
    BY <2>1, <2>2, Wider
  <2>4. pass'[s] = q
    BY <2>1 DEF Inv, Typed
  <2>5. PlanOK(s)'
    BY <2>1, <2>3, <2>4 DEF PlanOK, RelationOps
  <2>6. index' \subseteq Insts /\ built' \in BOOLEAN /\ misled' \in BOOLEAN /\ FlagTruthful'
    BY <2>1 DEF Inv, Typed, FlagTruthful
  <2>7. QED
    BY <2>1, <2>2, <2>5, <2>6, Changes
<1>2. CASE pass[s].plan = <<>>
  <2>1. /\ index' = index \cup {pass[s].inst} /\ built' = TRUE /\ lock' = None
        /\ misled' = (pass[s].inst # inst)
        /\ pass' = [pass EXCEPT ![s] = Idle] /\ UNCHANGED <<ent, inst, rt, asserted>>
    BY <1>2 DEF WriteSummaries, Step
  <2>2. pass[s].inst \in Insts /\ lock = s
    BY Holding DEF WriteSummaries
  <2>3. /\ ent' \in [Insts -> [Entities -> EntityRow \cup {None}]] /\ Labelled'
        /\ index' \subseteq Insts /\ built' \in BOOLEAN /\ misled' \in BOOLEAN /\ FlagTruthful'
    BY <2>1, <2>2 DEF Inv, Typed, Labelled, FlagTruthful
  <2>4. PlanOK(s)'
    BY <2>1, IdleOK
  <2>5. QED
    BY <2>1, <2>2, <2>3, <2>4, Changes
<1>3. QED
  BY <1>1, <1>2

\* A failed summary pass gives the lock back and leaves the flag lowered.
LEMMA SummariesFailInv ==
  ASSUME Inv, NEW s \in Sweeps, SummariesFail(s)
  PROVE  Inv'
<1>1. /\ lock' = None /\ pass' = [pass EXCEPT ![s] = Idle]
      /\ UNCHANGED <<inst, rt, ent, index, built, misled, asserted>>
  BY DEF SummariesFail, ReleaseLock, Step
<1>2. lock = s
  BY Holding DEF SummariesFail
<1>3. /\ ent' \in [Insts -> [Entities -> EntityRow \cup {None}]] /\ Labelled'
      /\ index' \subseteq Insts /\ built' \in BOOLEAN /\ misled' \in BOOLEAN /\ FlagTruthful'
  BY <1>1 DEF Inv, Typed, Labelled, FlagTruthful
<1>4. PlanOK(s)'
  BY <1>1, IdleOK
<1>5. QED
  BY <1>1, <1>2, <1>3, <1>4, Changes

-----------------------------------------------------------------------------
(* Clients.                                                                *)

\* Nobody holds the lock: no pass has a plan that the rows could leave behind.
LEMMA ClientKeepsPlans ==
  ASSUME Inv, lock = None, pass' = pass
  PROVE  \A s \in Sweeps : PlanOK(s)'
<1> SUFFICES ASSUME NEW s \in Sweeps PROVE PlanOK(s)'
  OBVIOUS
<1>1. lock # s /\ pass'[s] = pass[s]
  OBVIOUS
<1>2. QED
  BY <1>1, PlanKept

\* An assertion may give a type that no pass may.
LEMMA AssertRelationInv ==
  ASSUME Inv, NEW e \in Edges, NEW t \in Types \cup AssertOnly, AssertRelation(e, t)
  PROVE  Inv'
<1>1. /\ lock = None /\ rt' = [rt EXCEPT ![inst][e] = t]
      /\ asserted' = asserted \cup {<<inst, e, t>>}
      /\ UNCHANGED <<inst, ent, index, built, lock, pass, misled>>
  BY DEF AssertRelation, Write
<1>2. t \in RelationTypes
  BY DEF RelationTypes
<1>3. rt' \in [Insts -> [Edges -> RelationTypes \cup {None}]]
  BY <1>1, <1>2 DEF Inv, Typed
<1>4. \A d \in Insts, x \in Edges : rt'[d][x] = IF d = inst /\ x = e THEN t ELSE rt[d][x]
  BY <1>1 DEF Inv, Typed
<1>5. AssertOnlyByAssertion'
  BY <1>1, <1>4 DEF Inv, AssertOnlyByAssertion
<1>6. Typed' /\ Labelled' /\ FlagTruthful'
  BY <1>1, <1>3 DEF Inv, Typed, Labelled, FlagTruthful
<1>7. QED
  BY <1>1, <1>5, <1>6, ClientKeepsPlans DEF Inv

\* A summary is written by a request only while no pass holds the lock.
LEMMA AssertSummaryInv ==
  ASSUME Inv, NEW i \in Entities, AssertSummary(i, "s1")
  PROVE  Inv'
<1>1. /\ lock = None /\ ent' = [ent EXCEPT ![inst][i].summary = "s1"]
      /\ UNCHANGED <<inst, rt, index, built, lock, pass, misled, asserted>>
  BY DEF AssertSummary, Write
<1>2. PICK d \in Insts : d = inst
  BY DEF Inv, Typed
<1>3. ent[d][i] # None
  BY <1>2 DEF AssertSummary, EntityRows
<1>4. PICK r \in EntityRow : r = ent[d][i] /\ "Entity" \in r.labels /\ Kind[i] \in r.labels
  BY <1>3, RowIsThere
<1>5. PICK w : w = [r EXCEPT !.summary = "s1"]
  OBVIOUS
<1>6. w \in EntityRow /\ w.labels = r.labels
  BY <1>5 DEF EntityRow, Texts
<1>7. PICK rows : rows = [ent[d] EXCEPT ![i] = w]
  OBVIOUS
<1>8. ent[d] \in [Entities -> EntityRow \cup {None}]
  BY DEF Inv, Typed
<1>9. ent' = [ent EXCEPT ![d] = rows]
  BY <1>1, <1>2, <1>4, <1>5, <1>7
<1>10. rows \in [Entities -> EntityRow \cup {None}] /\ \A j \in Entities : rows[j] = IF j = i THEN w ELSE ent[d][j]
  BY <1>6, <1>7, <1>8
<1>11. \A j \in Entities : rows[j] # None => "Entity" \in rows[j].labels /\ Kind[j] \in rows[j].labels
  BY <1>4, <1>6, <1>10 DEF Inv, Labelled
<1>12. ent' \in [Insts -> [Entities -> EntityRow \cup {None}]] /\ Labelled'
  BY <1>9, <1>10, <1>11, Relabelled
<1>13. Typed' /\ AssertOnlyByAssertion' /\ FlagTruthful'
  BY <1>1, <1>12 DEF Inv, Typed, AssertOnlyByAssertion, FlagTruthful
<1>14. QED
  BY <1>1, <1>12, <1>13, ClientKeepsPlans DEF Inv

\* A row of the first episode.
LEMMA Fresh ==
  ASSUME NEW i \in Entities
  PROVE  /\ FreshEntity(i) \in EntityRow
         /\ "Entity" \in FreshEntity(i).labels /\ Kind[i] \in FreshEntity(i).labels
<1>1. PICK L : L = {"Entity", Kind[i]} \cup (IF i = Tombstone THEN {"Merged"} ELSE {})
  OBVIOUS
<1>2. L \in SUBSET Labels /\ "Entity" \in L /\ Kind[i] \in L
  BY <1>1 DEF Labels
<1>3. FreshEntity(i) = [labels |-> L, summary |-> "s0", of |-> None]
  BY <1>1 DEF FreshEntity
<1>4. QED
  BY <1>2, <1>3 DEF EntityRow, Texts

\* knowledge_clear_all puts an empty database in place.
LEMMA ClearAllInv ==
  ASSUME Inv, ClearAll
  PROVE  Inv'
<1>1. PICK d : d = inst + 1
  OBVIOUS
<1>2. d \in Insts
  BY <1>1 DEF Inv, Typed, ClearAll, Insts
<1>3. PICK rows : rows = [i \in Entities |-> FreshEntity(i)]
  OBVIOUS
<1>4. /\ lock = None /\ inst' = d /\ rt' = [rt EXCEPT ![d] = FreshRows]
      /\ ent' = [ent EXCEPT ![d] = rows] /\ built' = FALSE /\ misled' = FALSE
      /\ UNCHANGED <<index, lock, pass, asserted>>
  BY <1>1, <1>3 DEF ClearAll
<1>5. rows \in [Entities -> EntityRow \cup {None}]
  BY <1>3, Fresh
<1>6. \A i \in Entities : rows[i] # None => "Entity" \in rows[i].labels /\ Kind[i] \in rows[i].labels
  BY <1>3, Fresh
<1>7. ent' \in [Insts -> [Entities -> EntityRow \cup {None}]] /\ Labelled'
  BY <1>2, <1>4, <1>5, <1>6, Relabelled
<1>8. FreshRows \in [Edges -> RelationTypes] /\ \A e \in Edges : FreshRows[e] \notin AssertOnly
  BY DEF FreshRows, RelationTypes
<1>9. rt' \in [Insts -> [Edges -> RelationTypes \cup {None}]]
  BY <1>2, <1>4, <1>8 DEF Inv, Typed
<1>10. \A x \in Insts : rt'[x] = IF x = d THEN FreshRows ELSE rt[x]
  BY <1>2, <1>4 DEF Inv, Typed
<1>11. AssertOnlyByAssertion'
  BY <1>4, <1>8, <1>10 DEF Inv, AssertOnlyByAssertion
<1>12. Typed' /\ FlagTruthful'
  BY <1>2, <1>4, <1>7, <1>9 DEF Inv, Typed, FlagTruthful
<1>13. QED
  BY <1>4, <1>7, <1>11, <1>12, ClientKeepsPlans DEF Inv

\* knowledge_build_indices raises the flag with the index.
LEMMA BuildIndicesInv ==
  ASSUME Inv, BuildIndices
  PROVE  Inv'
<1>1. /\ lock = None /\ built' = TRUE /\ index' = index \cup {inst}
      /\ UNCHANGED <<inst, rt, ent, lock, pass, misled, asserted>>
  BY DEF BuildIndices
<1>2. Typed' /\ Labelled' /\ AssertOnlyByAssertion' /\ FlagTruthful'
  BY <1>1 DEF Inv, Typed, Labelled, AssertOnlyByAssertion, FlagTruthful
<1>3. QED
  BY <1>1, <1>2, ClientKeepsPlans DEF Inv

-----------------------------------------------------------------------------
(* The theorems.                                                           *)

\* No pass runs and the index is there.
LEMMA InvInit ==
  ASSUME Init
  PROVE  Inv
<1>1. 1 \in Insts
  BY DEF Insts
<1>2. \A i \in Entities : FreshEntity(i) \in EntityRow
        /\ "Entity" \in FreshEntity(i).labels /\ Kind[i] \in FreshEntity(i).labels
  BY Fresh
<1>3. rt \in [Insts -> [Edges -> RelationTypes \cup {None}]]
  BY DEF Init
<1>4. ent \in [Insts -> [Entities -> EntityRow \cup {None}]]
  BY <1>2 DEF Init
<1>5. Labelled
  BY <1>2 DEF Init, Labelled
<1>6. Typed
  BY <1>1, <1>3, <1>4 DEF Init, Typed
<1>7. AssertOnlyByAssertion
  <2> SUFFICES ASSUME NEW d \in Insts, NEW e \in Edges, rt[d][e] \in AssertOnly PROVE FALSE
    BY DEF AssertOnlyByAssertion
  <2>1. rt[d][e] = Before[e] \/ rt[d][e] = None
    BY DEF Init
  <2>2. None \notin AssertOnly
    BY DEF RelationTypes
  <2>3. QED
    BY <2>1, <2>2
<1>8. FlagTruthful
  BY DEF Init, FlagTruthful
<1>9. \A s \in Sweeps : PlanOK(s)
  <2> SUFFICES ASSUME NEW s \in Sweeps PROVE PlanOK(s)
    OBVIOUS
  <2>1. pass[s] = Idle /\ Idle.op = None
    BY DEF Init, Idle
  <2>2. QED
    BY <2>1 DEF PlanOK, RelationOps, PassKinds
<1>10. QED
  BY <1>5, <1>6, <1>7, <1>8, <1>9 DEF Inv

\* Every step of a pass and of a client keeps the invariant.
LEMMA InvNext ==
  ASSUME Inv, [Next]_vars
  PROVE  Inv'
<1>1. CASE Client
  BY <1>1, AssertRelationInv, AssertSummaryInv, ClearAllInv, BuildIndicesInv DEF Client
<1>2. ASSUME NEW s \in Sweeps, NEW r \in Requests[s], Begin(s, r[1], r[2]) PROVE Inv'
  BY <1>2, BeginInv
<1>3. ASSUME NEW s \in Sweeps, Sweep(s) PROVE Inv'
  BY <1>3, ReadRelationsInv, WriteRelationsInv, PassFailsInv, ReadTypesInv, LoadForTypesInv,
     WriteTypesInv, ReadSummariesInv, DropSummaryIndexInv, WriteSummariesInv, SummariesFailInv DEF Sweep
<1>4. CASE UNCHANGED vars
  <2>1. UNCHANGED <<inst, rt, ent, index, built, lock, pass, misled, asserted>>
    BY <1>4 DEF vars
  <2>2. Typed' /\ Labelled' /\ AssertOnlyByAssertion' /\ FlagTruthful'
    BY <2>1 DEF Inv, Typed, Labelled, AssertOnlyByAssertion, FlagTruthful
  <2>3. \A s \in Sweeps : PlanOK(s)'
    BY <2>1, PlanKept
  <2>4. QED
    BY <2>2, <2>3 DEF Inv
<1>5. QED
  BY <1>1, <1>2, <1>3, <1>4 DEF Next

\* The invariant holds of every behaviour.
THEOREM Invariant == Spec => []Inv
<1>1. Init => Inv
  BY InvInit
<1>2. Inv /\ [Next]_vars => Inv'
  BY InvNext
<1>3. QED
  BY <1>1, <1>2, PTL DEF Spec

(* No pass gives an edge a type declared `extract: false`, unless the edge *)
(* spells it itself, and no restamp takes the kind from an entity.         *)
THEOREM LabelsEarned == Spec => []TypesEarned
<1>1. Inv => TypesEarned
  BY DEF Inv, Typed, Labelled, TypesEarned, TypeOK, KindSurvives, EntityRows
<1>2. QED
  BY <1>1, Invariant, PTL

(* indices_built is up only while the loaded database has its index, or    *)
(* after a pass that held another database finished.                       *)
THEOREM IndexFlagTruthful == Spec => []FlagTruthful
<1>1. Inv => FlagTruthful
  BY DEF Inv
<1>2. QED
  BY <1>1, Invariant, PTL

\* Only its own step moves a pass that is under way.
LEMMA OwnStep ==
  ASSUME Inv, Next, NEW s \in Sweeps, pass[s].op \in PassKinds, pass'[s] # pass[s]
  PROVE  Sweep(s)
<1>1. CASE Client
  BY <1>1 DEF Client, AssertRelation, AssertSummary, ClearAll, BuildIndices
<1>2. ASSUME NEW u \in Sweeps, NEW r \in Requests[u], Begin(u, r[1], r[2]) PROVE FALSE
  <2>1. u = s
    BY <1>2 DEF Begin, Step, Inv, Typed
  <2>2. QED
    BY <1>2, <2>1 DEF Begin, Idle
<1>3. ASSUME NEW u \in Sweeps, Sweep(u) PROVE u = s
  <2>1. \E p : pass' = [pass EXCEPT ![u] = p]
    <3>1. CASE ReadRelations(u)
      BY <3>1, Zenon DEF ReadRelations, Step
    <3>2. CASE WriteRelations(u)
      BY <3>2 DEF WriteRelations, Step
    <3>3. CASE PassFails(u) \/ LoadForTypes(u) \/ DropSummaryIndex(u) \/ SummariesFail(u)
      BY <3>3 DEF PassFails, LoadForTypes, DropSummaryIndex, SummariesFail, Step
    <3>4. CASE ReadTypes(u)
      BY <3>4, Zenon DEF ReadTypes, Step
    <3>5. CASE WriteTypes(u)
      BY <3>5 DEF WriteTypes, Step
    <3>6. CASE ReadSummaries(u)
      BY <3>6, Zenon DEF ReadSummaries, Step
    <3>7. CASE WriteSummaries(u)
      BY <3>7 DEF WriteSummaries, Step
    <3>8. QED
      BY <1>3, <3>1, <3>2, <3>3, <3>4, <3>5, <3>6, <3>7 DEF Sweep
  <2>2. QED
    BY <2>1 DEF Inv, Typed
<1>4. QED
  BY <1>1, <1>2, <1>3 DEF Next

\* A step of the backfill leaves typed edges alone.
LEMMA BackfillStep ==
  ASSUME Inv, NEW s \in Sweeps, Sweep(s), pass[s].op = "backfill"
  PROVE  \A e \in Rows(pass[s].inst) : rt[pass[s].inst][e] # Untyped
            => rt'[pass[s].inst][e] = rt[pass[s].inst][e]
<1>1. ReadRelations(s) \/ WriteRelations(s)
  BY DEF Sweep, PassFails, ReadTypes, LoadForTypes, WriteTypes, ReadSummaries, DropSummaryIndex,
         WriteSummaries, SummariesFail
<1>2. CASE ReadRelations(s)
  BY <1>2 DEF ReadRelations
<1>3. CASE WriteRelations(s)
  <2>1. PICK p \in Passes : p = pass[s] /\ p.op = "backfill" /\ p.inst \in Insts
    BY Underway DEF PassKinds
  <2>2. PICK x : x = Head(p.plan)[1]
    OBVIOUS
  <2>3. \/ rt' = rt
        \/ rt[p.inst][x] = Untyped /\ rt' = [rt EXCEPT ![p.inst][x] = Head(p.plan)[2]]
    BY <1>3, <2>1, <2>2 DEF WriteRelations, Sets
  <2>4. QED
    BY <2>1, <2>3 DEF Rows, Inv, Typed
<1>4. QED
  BY <1>1, <1>2, <1>3

\* A step of the summary pass changes no summary.
LEMMA SummaryStep ==
  ASSUME Inv, NEW s \in Sweeps, Sweep(s), pass[s].op = "summaries"
  PROVE  \A d \in Insts : \A i \in EntityRows(d) : ent'[d][i].summary = ent[d][i].summary
<1>1. ReadSummaries(s) \/ DropSummaryIndex(s) \/ WriteSummaries(s) \/ SummariesFail(s)
  BY DEF Sweep, ReadRelations, WriteRelations, PassFails, ReadTypes, LoadForTypes, WriteTypes
<1>2. CASE ent' = ent
  BY <1>2
<1>3. CASE WriteSummaries(s) /\ pass[s].plan # <<>>
  <2>1. PICK d \in Insts : \E h \in Current(d) : \E q \in Passes :
           /\ d = pass[s].inst /\ lock = s
           /\ ent' = [ent EXCEPT ![d][h[1]].summary = h[2], ![d][h[1]].of = h[2]]
           /\ pass' = [pass EXCEPT ![s] = q]
           /\ q.op = "summaries" /\ q.inst = d /\ q.plan \in Seq(Current(d))
           /\ UNCHANGED <<inst, rt, index, built, lock, misled, asserted>>
    BY <1>3, SummaryBatch
  <2>2. PICK h \in Current(d) :
           ent' = [ent EXCEPT ![d][h[1]].summary = h[2], ![d][h[1]].of = h[2]]
    BY <2>1
  <2>3. QED
    BY <2>2, WrittenBack
<1>4. QED
  BY <1>1, <1>2, <1>3 DEF ReadSummaries, DropSummaryIndex, WriteSummaries, SummariesFail

(* Neither backfill overwrites what a request wrote between the backfill's *)
(* read and its write: that of relation types looks again in the statement *)
(* that sets the type, and the summary pass keeps the lock from its read   *)
(* to its last write. canonicalize_relations and the reprocess passes do.  *)
THEOREM BackfillsRespectWrites == Spec => BackfillsKeepWrites
<1>1. Inv /\ [Next]_vars =>
        [\A s \in Sweeps : (pass[s].op = "backfill" /\ pass'[s] # pass[s]) =>
           \A e \in Rows(pass[s].inst) : rt[pass[s].inst][e] # Untyped
              => rt'[pass[s].inst][e] = rt[pass[s].inst][e]]_vars
  <2> SUFFICES ASSUME Inv, Next, NEW s \in Sweeps, pass[s].op = "backfill", pass'[s] # pass[s]
               PROVE  \A e \in Rows(pass[s].inst) : rt[pass[s].inst][e] # Untyped
                         => rt'[pass[s].inst][e] = rt[pass[s].inst][e]
    OBVIOUS
  <2>1. QED
    BY OwnStep, BackfillStep DEF PassKinds
<1>2. Inv /\ [Next]_vars =>
        [\A s \in Sweeps : (pass[s].op = "summaries" /\ pass'[s] # pass[s]) =>
           \A d \in Insts : \A i \in EntityRows(d) : ent'[d][i].summary = ent[d][i].summary]_vars
  <2> SUFFICES ASSUME Inv, Next, NEW s \in Sweeps, pass[s].op = "summaries", pass'[s] # pass[s]
               PROVE  \A d \in Insts : \A i \in EntityRows(d) : ent'[d][i].summary = ent[d][i].summary
    OBVIOUS
  <2>1. QED
    BY OwnStep, SummaryStep DEF PassKinds
<1>3. QED
  BY <1>1, <1>2, Invariant, PTL DEF Spec, BackfillsKeepWrites, BackfillOnlyFills, NoSummaryLost

=============================================================================
