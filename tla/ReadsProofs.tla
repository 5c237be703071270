----------------------------- MODULE ReadsProofs -----------------------------
(***************************************************************************)
(* A search fails for want of an index only when another request disturbed *)
(* it, its own build failed or the flag had been set over a database       *)
(* without its indexes: FindsHeal is an invariant for every set of clients,*)
(* rows and indexes' orders and every bound.                               *)
(*                                                                         *)
(* The argument follows a search nobody disturbed (Calm). It has the       *)
(* database that is served, nobody who holds the lock touches the indexes, *)
(* and, unless the flag was set wrongly, what it found missing is not      *)
(* flagged as built and what it healed is complete. That rests on the flag *)
(* itself: built means that the database has its indexes, except while     *)
(* clear_all is between storing a fresh database and resetting the flag.   *)
(*                                                                         *)
(* And a walk through a listing gives what it should: PagesExact, from a   *)
(* second invariant, about the rows, the cursors and what stayed (below).  *)
(***************************************************************************)
EXTENDS Reads, FiniteSetTheorems, FunctionTheorems, WellFoundedInduction, TLAPS

Held == {"reopen", "reset", "build", "nothing", "embed", "replay"}
OpPCs == Held \cup {"idle", "wait", "built", "unbuilt"}
OpRow == [pc : OpPCs, kind : Ops \cup {None}, db : Insts \cup {None}, row : Written \cup {0}]

\* A search: its lists are a sequence, of whatever its indexes rank.
FindRow(S, H) ==
    [pc : {"idle", "search", "missing", "heal", "again", "done", "error"},
     kind : {"entities", "relationships", "passages"}, groups : Scopes \cup {{}}, n : Tops \cup {0},
     floor : BOOLEAN \cup Floors, db : Insts \cup {None}, lists : Seq(S), retry : BOOLEAN,
     hits : H, raced : BOOLEAN]
IsFind(k) == \E S, H : k \in FindRow(S, H)
Finding == find = [f \in Finders |-> find[f]] /\ \A f \in Finders : IsFind(find[f])

\* The writing requests that may still create a database.
Pending == {a \in Admins : op[a].pc \in {"wait", "reopen"}}

TypeInv ==
    /\ db \in Insts \cup {None} /\ insts \in Nat /\ ops \in Nat
    /\ insts >= 1 /\ insts + Cardinality(Pending) <= ops + 1 /\ ops <= MaxOps
    /\ built \in BOOLEAN /\ misled \in BOOLEAN
    /\ index \in [Insts -> SUBSET AllIndexes]
    /\ lock \in Admins \cup {None}
    /\ op \in [Admins -> OpRow]

\* Who holds the lock is at a step that holds it, and nobody else is; a request that began
\* has a database.
LockInv ==
    /\ \A a \in Admins : op[a].pc \in Held <=> lock = a
    /\ \A a \in Admins : op[a].pc # "idle" => op[a].db \in Insts

\* The flag is true of the database that is served.
Resetting == lock # None /\ op[lock].pc = "reset"
Flagged == (built /\ ~misled /\ db # None) => (index[db] = AllIndexes \/ Resetting)

\* A search that nobody disturbed.
Calm(f) ==
    (Searching(f) /\ ~find[f].raced) =>
      /\ db # None /\ find[f].db = db
      /\ lock # None => op[lock].pc = "nothing"
      /\ (~misled /\ find[f].pc = "missing") => ~built
      /\ (~misled /\ (find[f].pc = "again" \/ find[f].retry)) => index[db] = AllIndexes

ReadsInv ==
    TypeInv /\ LockInv /\ Finding /\ Flagged /\ (\A f \in Finders : Calm(f)) /\ FindsHeal

-----------------------------------------------------------------------------
(* What a step leaves of the searches.                                     *)

\* A query's next index is one of the six.
LEMMA IndexKnown ==
  ASSUME NEW kind, NEW x \in 1..Len(IndexesOf(kind))
  PROVE  IndexesOf(kind)[x] \in AllIndexes
  <1>1. /\ <<"node_fts", "name", "summary">> \in Seq(AllIndexes)
        /\ <<"edge_fts", "fact">> \in Seq(AllIndexes)
        /\ <<"content">> \in Seq(AllIndexes)
    BY DEF AllIndexes, VectorIndexes, TextIndexes
  <1>2. IndexesOf(kind) \in Seq(AllIndexes)
    BY <1>1, Zenon DEF IndexesOf
  <1> QED BY <1>2

\* One search moves: the others are as they were.
LEMMA FindSet ==
  ASSUME Finding, NEW f \in Finders, NEW k, IsFind(k), find' = [find EXCEPT ![f] = k]
  PROVE  Finding' /\ find'[f] = k /\ \A g \in Finders : g # f => find'[g] = find[g]
  <1>1. find' = [g \in Finders |-> IF g = f THEN k ELSE find[g]]
    BY DEF Finding
  <1>2. \A g \in Finders : find'[g] = IF g = f THEN k ELSE find[g]
    BY <1>1
  <1>3. find' = [g \in Finders |-> find'[g]]
    BY <1>1, <1>2, Zenon
  <1>4. \A g \in Finders : IsFind(find'[g])
    BY <1>2, Zenon DEF Finding
  <1> QED BY <1>2, <1>3, <1>4, Zenon DEF Finding

\* A search that is marked as disturbed is the search it was.
LEMMA Marked ==
  ASSUME NEW k, IsFind(k), NEW b \in BOOLEAN, NEW m, m = [k EXCEPT !.raced = b]
  PROVE  IsFind(m) /\ m.raced = b /\ m.pc = k.pc /\ m.db = k.db /\ m.retry = k.retry
  <1>1. PICK S, H : k \in FindRow(S, H)
    BY Zenon DEF IsFind
  <1>2. /\ m \in FindRow(S, H)
        /\ m.raced = b /\ m.pc = k.pc /\ m.db = k.db /\ m.retry = k.retry
    BY <1>1 DEF FindRow
  <1> QED BY <1>2, Zenon DEF IsFind

\* A search has a pc, and a flag for having been disturbed.
LEMMA FindTyped ==
  ASSUME NEW k, IsFind(k)
  PROVE  /\ k.raced \in BOOLEAN /\ k.retry \in BOOLEAN
         /\ k.pc \in {"idle", "search", "missing", "heal", "again", "done", "error"}
         /\ k.db \in Insts \cup {None}
  BY DEF IsFind, FindRow

\* A disturbance: no search is calm, and those that ended in an error before stay excused.
LEMMA Disturb ==
  ASSUME Finding, FindsHeal, Disturbed, misled => misled'
  PROVE  Finding' /\ (\A f \in Finders : Calm(f))' /\ FindsHeal'
  <1>1. ASSUME NEW f \in Finders
        PROVE  /\ IsFind(find'[f]) /\ find'[f].pc = find[f].pc
               /\ find'[f].raced = (find[f].raced \/ Searching(f))
    <2>1. IsFind(find[f]) /\ find[f].raced \in BOOLEAN
      BY FindTyped, Zenon DEF Finding
    <2>2. find'[f] = [find[f] EXCEPT !.raced = find[f].raced \/ Searching(f)]
      BY Zenon DEF Disturbed
    <2> DEFINE b == find[f].raced \/ Searching(f)
    <2>3. b \in BOOLEAN /\ find'[f] = [find[f] EXCEPT !.raced = b]
      BY <2>1, <2>2
    <2> HIDE DEF b
    <2>4. /\ IsFind(find'[f]) /\ find'[f].pc = find[f].pc
          /\ find'[f].raced = b
      BY <2>1, <2>3, Marked
    <2> QED BY <2>4 DEF b
  <1>2. find' = [f \in Finders |-> find'[f]]
    BY Zenon DEF Disturbed
  <1>3. Finding'
    BY <1>1, <1>2, Zenon DEF Finding
  <1>4. \A f \in Finders : Searching(f)' => find'[f].raced
    BY <1>1, Zenon DEF Searching
  <1>5. (\A f \in Finders : Calm(f))'
    BY <1>4, Zenon DEF Calm
  <1>6. FindsHeal'
    BY <1>1, Zenon DEF FindsHeal
  <1> QED BY <1>3, <1>5, <1>6

\* Nothing a calm search rests on was touched, or no search is calm.
LEMMA Untouched ==
  ASSUME Finding, FindsHeal, \A f \in Finders : Calm(f), UNCHANGED find, misled => misled',
         \/ lock # None /\ op[lock].pc # "nothing"
         \/ /\ db' = db /\ (built' => built) /\ (index[db] = AllIndexes => index'[db] = AllIndexes)
            /\ lock' # None => op'[lock'].pc = "nothing"
  PROVE  Finding' /\ (\A f \in Finders : Calm(f))' /\ FindsHeal'
  <1>1. Finding' /\ FindsHeal'
    BY Zenon DEF Finding, FindsHeal
  <1>2. ASSUME NEW f \in Finders PROVE Calm(f)'
    BY <1>2, Zenon DEF Calm, Searching
  <1> QED BY <1>1, <1>2

-----------------------------------------------------------------------------
(* How a writing request moves on.                                         *)

\* One request moves: the table keeps its type, and the lock stays with who is at a step
\* that holds it.
LEMMA OpMoves ==
  ASSUME TypeInv, LockInv, NEW a \in Admins, NEW r \in OpRow, op' = [op EXCEPT ![a] = r],
         r.pc # "idle" => r.db \in Insts,
         \/ lock \in {a, None} /\ lock' = (IF r.pc \in Held THEN a ELSE None)
         \/ lock' = lock /\ op[a].pc \notin Held /\ r.pc \notin Held
  PROVE  /\ op' \in [Admins -> OpRow] /\ op'[a] = r
         /\ \A b \in Admins : b # a => op'[b] = op[b]
         /\ lock' \in Admins \cup {None} /\ LockInv'
  <1>1. /\ op' \in [Admins -> OpRow] /\ op'[a] = r
        /\ \A b \in Admins : b # a => op'[b] = op[b]
    BY DEF TypeInv
  <1>2. lock' \in Admins \cup {None}
    BY DEF TypeInv
  <1>3. ASSUME NEW b \in Admins
        PROVE  (op'[b].pc \in Held <=> lock' = b) /\ (op'[b].pc # "idle" => op'[b].db \in Insts)
    BY <1>1, ReadsAssumption DEF LockInv
  <1> QED BY <1>1, <1>2, <1>3, Zenon DEF LockInv

\* Going on to another step changes a request's pc alone.
LEMMA OpGoes ==
  ASSUME TypeInv, NEW a \in Admins, NEW l \in OpPCs, Goes(a, l)
  PROVE  \E r \in OpRow : op' = [op EXCEPT ![a] = r] /\ r.pc = l /\ r.db = op[a].db
  <1> DEFINE r == [op[a] EXCEPT !.pc = l]
  <1>1. r \in OpRow /\ r.pc = l /\ r.db = op[a].db
    BY DEF TypeInv, OpRow
  <1>2. op' = [op EXCEPT ![a] = r]
    BY DEF Goes
  <1> QED BY <1>1, <1>2, Zenon

\* A request that ended is idle.
LEMMA OpEnds ==
  ASSUME NEW a, Ended(a)
  PROVE  NoOp \in OpRow /\ NoOp.pc = "idle" /\ op' = [op EXCEPT ![a] = NoOp]
  BY DEF Ended, NoOp, OpRow, OpPCs, Held

\* The pending requests are finite in number, and a request that moves on adds none.
LEMMA PendingMoves ==
  ASSUME TypeInv, NEW a \in Admins, NEW r \in OpRow, op' = [op EXCEPT ![a] = r],
         r.pc \in {"wait", "reopen"} => op[a].pc \in {"wait", "reopen"}
  PROVE  /\ Cardinality(Pending) \in Nat /\ Cardinality(Pending') \in Nat
         /\ Cardinality(Pending') <= Cardinality(Pending)
         /\ (op[a].pc = "reopen" /\ r.pc \notin {"wait", "reopen"}) =>
              Cardinality(Pending') = Cardinality(Pending) - 1
  <1>1. op'[a] = r /\ \A b \in Admins : b # a => op'[b] = op[b]
    BY DEF TypeInv
  <1>2. IsFiniteSet(Pending) /\ Pending' \subseteq Pending
    <2>1. Pending \subseteq Admins
      BY DEF Pending
    <2>2. Pending' \subseteq Pending
      BY <1>1 DEF Pending
    <2> QED BY <2>1, <2>2, FS_Subset, ReadsAssumption
  <1>3. IsFiniteSet(Pending') /\ Cardinality(Pending') <= Cardinality(Pending)
    BY <1>2, FS_Subset
  <1>4. ASSUME op[a].pc = "reopen", r.pc \notin {"wait", "reopen"}
        PROVE  Cardinality(Pending') = Cardinality(Pending) - 1
    <2>1. a \in Pending /\ Pending' = Pending \ {a}
      BY <1>1, <1>4 DEF Pending
    <2> QED BY <2>1, <1>2, FS_RemoveElement
  <1>5. Cardinality(Pending) \in Nat /\ Cardinality(Pending') \in Nat
    BY <1>2, <1>3, FS_CardinalityType
  <1> QED BY <1>3, <1>4, <1>5

\* The steps of a request under way that create no database keep its type.
LEMMA OpType ==
  ASSUME TypeInv, LockInv, NEW a \in Admins, NEW r \in OpRow, op' = [op EXCEPT ![a] = r],
         r.pc \in {"wait", "reopen"} => op[a].pc \in {"wait", "reopen"},
         r.pc # "idle" => r.db \in Insts,
         \/ lock \in {a, None} /\ lock' = (IF r.pc \in Held THEN a ELSE None)
         \/ lock' = lock /\ op[a].pc \notin Held /\ r.pc \notin Held,
         UNCHANGED <<insts, ops>>, db' \in {db, None}, built' \in BOOLEAN, misled' \in BOOLEAN,
         index' \in [Insts -> SUBSET AllIndexes]
  PROVE  TypeInv' /\ LockInv'
  <1>1. /\ op' \in [Admins -> OpRow] /\ lock' \in Admins \cup {None} /\ LockInv'
    BY OpMoves
  <1>2. /\ Cardinality(Pending) \in Nat /\ Cardinality(Pending') \in Nat
        /\ Cardinality(Pending') <= Cardinality(Pending)
    BY PendingMoves
  <1>3. insts' >= 1 /\ insts' + Cardinality(Pending)' <= ops' + 1
    BY <1>2 DEF TypeInv
  <1> QED BY <1>1, <1>3 DEF TypeInv

-----------------------------------------------------------------------------
(* The requests that write.                                                *)

\* Who holds the lock is at a step that holds it.
LEMMA Holder ==
  ASSUME ReadsInv, NEW a \in Admins, op[a].pc \in Held
  PROVE  lock = a /\ lock # None /\ op[a].db \in Insts
  BY ReadsAssumption DEF ReadsInv, LockInv, Held

\* A request that begins waits for the lock.
LEMMA BeginOpInv ==
  ASSUME ReadsInv, NEW a \in Admins, NEW kind \in Ops, NEW i \in Written, BeginOp(a, kind, i)
  PROVE  ReadsInv'
  <1> DEFINE r == [pc |-> "wait", kind |-> kind, db |-> db,
                   row |-> IF kind \in {"insert", "delete"} THEN i ELSE 0]
  <1>1. /\ r \in OpRow /\ r.db \in Insts /\ r.pc = "wait" /\ op[a].pc = "idle"
        /\ op' = [op EXCEPT ![a] = r] /\ lock' = lock
    BY DEF ReadsInv, TypeInv, BeginOp, OpRow, OpPCs
  <1> HIDE DEF r
  <1>2. /\ op' \in [Admins -> OpRow] /\ op'[a] = r /\ \A b \in Admins : b # a => op'[b] = op[b]
        /\ lock' \in Admins \cup {None} /\ LockInv'
    BY <1>1, OpMoves DEF ReadsInv, Held
  <1>3. Cardinality(Pending)' = Cardinality(Pending) + 1 /\ Cardinality(Pending) \in Nat
    <2>1. Pending \subseteq Admins /\ a \notin Pending /\ Pending' = Pending \cup {a}
      BY <1>1, <1>2 DEF Pending
    <2> QED BY <2>1, FS_Subset, FS_AddElement, FS_CardinalityType, ReadsAssumption
  <1>4. TypeInv'
    BY <1>2, <1>3, ReadsAssumption DEF ReadsInv, TypeInv, BeginOp
  <1>5. lock # None => op'[lock] = op[lock]
    BY <1>1, <1>2 DEF ReadsInv, TypeInv, LockInv, Held
  <1>6. Finding' /\ (\A f \in Finders : Calm(f))' /\ FindsHeal'
    <2>1. UNCHANGED <<find, misled, db, built, index, lock>>
      BY Zenon DEF BeginOp
    <2>2. \A f \in Finders : Calm(f)'
      BY <1>5, <2>1, Zenon DEF ReadsInv, Calm, Searching
    <2> QED BY <2>1, <2>2, Zenon DEF ReadsInv, Finding, FindsHeal
  <1>7. Flagged'
    BY <1>5 DEF ReadsInv, Flagged, Resetting, BeginOp
  <1> QED BY <1>2, <1>4, <1>6, <1>7 DEF ReadsInv

\* A write touches the rows.
LEMMA WriteRowInv ==
  ASSUME ReadsInv, NEW a \in Admins, WriteRow(a)
  PROVE  ReadsInv'
  <1>1. UNCHANGED <<db, insts, index, built, lock, find, misled, ops, reads>> /\ lock = None /\ Ended(a)
    BY DEF WriteRow
  <1>2. TypeInv' /\ LockInv'
    BY <1>1, OpEnds, OpType DEF ReadsInv, TypeInv, Held
  <1>3. Finding' /\ (\A f \in Finders : Calm(f))' /\ FindsHeal'
    BY <1>1, Untouched DEF ReadsInv
  <1>4. Flagged'
    BY <1>1 DEF ReadsInv, Flagged, Resetting
  <1> QED BY <1>2, <1>3, <1>4 DEF ReadsInv

\* knowledge_clear_all: the flag lies about the fresh database until it is reset.
LEMMA ClearInv ==
  ASSUME ReadsInv, NEW a \in Admins, ClearUnload(a) \/ ClearReopen(a) \/ ClearReset(a)
  PROVE  ReadsInv'
  <1> USE DEF Held
  <1>1. CASE ClearUnload(a)
    <2>1. PICK r \in OpRow : op' = [op EXCEPT ![a] = r] /\ r.pc = "reopen" /\ r.db = op[a].db
      BY <1>1, OpGoes DEF ReadsInv, ClearUnload, OpPCs
    <2>2. /\ op[a].pc = "wait" /\ lock = None /\ lock' = a /\ db' = None /\ Disturbed
          /\ UNCHANGED <<insts, index, built, misled, ops>>
      BY <1>1 DEF ClearUnload, Takes
    <2>3. TypeInv' /\ LockInv'
      BY <2>1, <2>2, OpType DEF ReadsInv, TypeInv, LockInv
    <2>4. Finding' /\ (\A f \in Finders : Calm(f))' /\ FindsHeal'
      BY <2>2, Disturb DEF ReadsInv
    <2> QED BY <2>2, <2>3, <2>4 DEF ReadsInv, Flagged
  <1>2. CASE ClearReopen(a)
    <2>1. /\ op[a].pc = "reopen" /\ lock = a /\ lock # None /\ op[a].db \in Insts
          /\ UNCHANGED <<rows, index, built, walk, find, misled, ops, reads>>
      BY <1>2, Holder DEF ClearReopen
    <2>2. Finding' /\ (\A f \in Finders : Calm(f))' /\ FindsHeal'
      BY <2>1, Untouched DEF ReadsInv
    <2>3. CASE db' = insts + 1 /\ insts' = insts + 1 /\ Goes(a, "reset") /\ UNCHANGED lock
      <3>1. PICK r \in OpRow : op' = [op EXCEPT ![a] = r] /\ r.pc = "reset" /\ r.db = op[a].db
        BY <2>3, OpGoes DEF ReadsInv, OpPCs
      <3>2. /\ op' \in [Admins -> OpRow] /\ op'[a] = r
            /\ lock' \in Admins \cup {None} /\ LockInv'
        BY <2>1, <2>3, <3>1, OpMoves DEF ReadsInv
      <3>3. /\ Cardinality(Pending) \in Nat /\ Cardinality(Pending)' \in Nat
            /\ Cardinality(Pending)' = Cardinality(Pending) - 1
        BY <2>1, <3>1, PendingMoves DEF ReadsInv
      <3>4. TypeInv'
        BY <2>1, <2>3, <3>2, <3>3, ReadsAssumption DEF ReadsInv, TypeInv, Insts
      <3>5. Resetting'
        BY <2>1, <2>3, <3>1, <3>2 DEF Resetting
      <3> QED BY <2>2, <3>2, <3>4, <3>5 DEF ReadsInv, Flagged
    <2>4. CASE Ended(a) /\ lock' = None /\ UNCHANGED <<db, insts>>
      <3>1. TypeInv' /\ LockInv'
        BY <2>1, <2>4, OpEnds, OpType DEF ReadsInv, TypeInv
      <3>2. ~Resetting
        BY <2>1 DEF Resetting
      <3> QED BY <2>1, <2>2, <2>4, <3>1, <3>2 DEF ReadsInv, Flagged
    <2> QED BY <1>2, <2>3, <2>4 DEF ClearReopen
  <1>3. CASE ClearReset(a)
    <2>1. /\ op[a].pc = "reset" /\ lock = a /\ lock # None /\ lock' = None /\ Ended(a)
          /\ built' = FALSE /\ Disturbed /\ UNCHANGED <<db, insts, index, misled, ops>>
      BY <1>3, Holder DEF ClearReset
    <2>2. TypeInv' /\ LockInv'
      BY <2>1, OpEnds, OpType DEF ReadsInv, TypeInv
    <2>3. Finding' /\ (\A f \in Finders : Calm(f))' /\ FindsHeal'
      BY <2>1, Disturb DEF ReadsInv
    <2> QED BY <2>1, <2>2, <2>3 DEF ReadsInv, Flagged
  <1> QED BY <1>1, <1>2, <1>3

\* knowledge_build_indices: the flag is set after the lock is released, and says what it
\* should or misled records that it does not.
LEMMA BuildInv ==
  ASSUME ReadsInv, NEW a \in Admins, BuildTake(a) \/ BuildMake(a) \/ BuildFlag(a)
  PROVE  ReadsInv'
  <1> USE DEF Held
  <1>1. CASE BuildTake(a)
    <2>1. PICK r \in OpRow : op' = [op EXCEPT ![a] = r] /\ r.pc = "build" /\ r.db = op[a].db
      BY <1>1, OpGoes DEF ReadsInv, BuildTake, OpPCs
    <2>2. /\ op[a].pc = "wait" /\ lock = None /\ lock' = a /\ built' = FALSE /\ Disturbed
          /\ UNCHANGED <<db, insts, index, misled, ops>>
      BY <1>1 DEF BuildTake, Takes
    <2>3. TypeInv' /\ LockInv'
      BY <2>1, <2>2, OpType DEF ReadsInv, TypeInv, LockInv
    <2>4. Finding' /\ (\A f \in Finders : Calm(f))' /\ FindsHeal'
      BY <2>2, Disturb DEF ReadsInv
    <2> QED BY <2>2, <2>3, <2>4 DEF ReadsInv, Flagged
  <1>2. CASE BuildMake(a)
    <2>1. /\ op[a].pc = "build" /\ lock = a /\ lock # None /\ lock' = None /\ op[a].db \in Insts
          /\ UNCHANGED <<db, insts, built, find, misled, ops>>
      BY <1>2, Holder DEF BuildMake
    <2>2. PICK l \in {"built", "unbuilt"} :
            Goes(a, l) /\ index' \in {index, [index EXCEPT ![op[a].db] = AllIndexes]}
      BY <1>2 DEF BuildMake
    <2>3. PICK r \in OpRow : op' = [op EXCEPT ![a] = r] /\ r.pc = l /\ r.db = op[a].db
      BY <2>2, OpGoes DEF ReadsInv, OpPCs
    <2>4. TypeInv' /\ LockInv'
      BY <2>1, <2>2, <2>3, OpType DEF ReadsInv, TypeInv
    <2>5. Finding' /\ (\A f \in Finders : Calm(f))' /\ FindsHeal'
      BY <2>1, Untouched DEF ReadsInv
    <2>6. ~Resetting /\ (db # None /\ index[db] = AllIndexes => index'[db] = AllIndexes)
      BY <2>1, <2>2 DEF Resetting, ReadsInv, TypeInv
    <2> QED BY <2>1, <2>4, <2>5, <2>6 DEF ReadsInv, Flagged
  <1>3. CASE BuildFlag(a)
    <2>1. /\ op[a].pc \in {"built", "unbuilt"} /\ Ended(a) /\ Disturbed
          /\ built' = (op[a].pc = "built")
          /\ misled' = (misled \/ (op[a].pc = "built" /\ Incomplete))
          /\ UNCHANGED <<db, insts, index, lock, ops>>
      BY <1>3 DEF BuildFlag
    <2>2. TypeInv' /\ LockInv'
      BY <2>1, OpEnds, OpType DEF ReadsInv, TypeInv
    <2>3. Finding' /\ (\A f \in Finders : Calm(f))' /\ FindsHeal'
      BY <2>1, Disturb DEF ReadsInv
    <2>4. Flagged'
      BY <2>1 DEF Flagged, Incomplete
    <2> QED BY <2>2, <2>3, <2>4 DEF ReadsInv
  <1> QED BY <1>1, <1>2, <1>3

\* The passes that drop indexes: the flag is off while an index is away, and those that
\* set it put the indexes back or record in misled that the served database lacks some.
LEMMA PassInv ==
  ASSUME ReadsInv, NEW a \in Admins, SummaryTake(a) \/ RebuildTake(a) \/ SummaryEnd(a) \/ RebuildEnd(a)
  PROVE  ReadsInv'
  <1> USE DEF Held
  <1>1. CASE Takes(a, "summaries") /\ Goes(a, "nothing")
             /\ UNCHANGED <<db, insts, index, built, misled, ops, find>>
    <2>1. PICK r \in OpRow : op' = [op EXCEPT ![a] = r] /\ r.pc = "nothing" /\ r.db = op[a].db
      BY <1>1, OpGoes DEF ReadsInv, OpPCs
    <2>2. op[a].pc = "wait" /\ lock = None /\ lock' = a
      BY <1>1 DEF Takes
    <2>3. TypeInv' /\ LockInv'
      BY <1>1, <2>1, <2>2, OpType DEF ReadsInv, TypeInv, LockInv
    <2>4. op'[a].pc = "nothing"
      BY <2>1 DEF ReadsInv, TypeInv
    <2>5. Finding' /\ (\A f \in Finders : Calm(f))' /\ FindsHeal'
      BY <1>1, <2>2, <2>4, Untouched DEF ReadsInv
    <2> QED BY <1>1, <2>2, <2>3, <2>5 DEF ReadsInv, Flagged, Resetting
  <1>2. ASSUME NEW kind, NEW l \in {"embed", "replay"}, NEW X, Takes(a, kind), Goes(a, l),
               built' = FALSE, Disturbed, index' = [index EXCEPT ![op[a].db] = @ \ X],
               UNCHANGED <<db, insts, misled, ops>>
        PROVE  ReadsInv'
    <2>1. PICK r \in OpRow : op' = [op EXCEPT ![a] = r] /\ r.pc = l /\ r.db = op[a].db
      BY <1>2, OpGoes DEF ReadsInv, OpPCs
    <2>2. op[a].pc = "wait" /\ lock = None /\ lock' = a
      BY <1>2 DEF Takes
    <2>3. index' \in [Insts -> SUBSET AllIndexes]
      BY <1>2 DEF ReadsInv, TypeInv
    <2>4. TypeInv' /\ LockInv'
      BY <1>2, <2>1, <2>2, <2>3, OpType DEF ReadsInv, TypeInv, LockInv
    <2>5. Finding' /\ (\A f \in Finders : Calm(f))' /\ FindsHeal'
      BY <1>2, Disturb DEF ReadsInv
    <2> QED BY <1>2, <2>4, <2>5 DEF ReadsInv, Flagged
  <1>3. CASE SummaryTake(a)
    <2>1. CASE rows[op[a].db] = {}
      BY <1>1, <1>3, <2>1 DEF SummaryTake
    <2>2. CASE rows[op[a].db] # {}
      BY <1>2, <1>3, <2>2 DEF SummaryTake
    <2> QED BY <2>1, <2>2
  <1>4. CASE RebuildTake(a)
    BY <1>2, <1>4 DEF RebuildTake
  <1>5. ASSUME op[a].pc \in {"nothing", "embed", "replay"}, lock' = None, Ended(a),
               UNCHANGED <<db, insts, ops>>, built' \in BOOLEAN, misled' \in BOOLEAN,
               index' \in [Insts -> SUBSET AllIndexes]
        PROVE  TypeInv' /\ LockInv' /\ ~Resetting /\ op[a].db \in Insts /\ lock = a /\ lock # None
    <2>1. lock = a /\ lock # None /\ op[a].db \in Insts
      BY <1>5, Holder
    <2>2. TypeInv' /\ LockInv'
      BY <1>5, <2>1, OpEnds, OpType DEF ReadsInv
    <2> QED BY <1>5, <2>1, <2>2 DEF Resetting
  <1>6. ASSUME NEW X \in SUBSET AllIndexes, op[a].pc \in {"embed", "replay"}, lock' = None, Ended(a),
               UNCHANGED <<db, insts, ops>>, built' = TRUE, Disturbed,
               index' = [index EXCEPT ![op[a].db] = X],
               misled' \in BOOLEAN, misled => misled',
               ~misled' => IF op[a].db = db THEN index'[db] = AllIndexes ELSE ~Incomplete
        PROVE  ReadsInv'
    <2>1. index' \in [Insts -> SUBSET AllIndexes]
      BY <1>6 DEF ReadsInv, TypeInv
    <2>2. TypeInv' /\ LockInv' /\ op[a].db \in Insts
      BY <1>5, <1>6, <2>1
    <2>3. Finding' /\ (\A f \in Finders : Calm(f))' /\ FindsHeal'
      BY <1>6, Disturb DEF ReadsInv
    <2>4. Flagged'
      BY <1>6, <2>2 DEF Flagged, Incomplete, ReadsInv, TypeInv
    <2> QED BY <2>2, <2>3, <2>4 DEF ReadsInv
  <1>7. CASE SummaryEnd(a)
    <2>0. index[op[a].db] \cup {"summary"} \in SUBSET AllIndexes
      BY <1>7, Holder DEF SummaryEnd, ReadsInv, TypeInv, AllIndexes, VectorIndexes
    <2>1. CASE /\ op[a].pc = "embed"
               /\ index' = [index EXCEPT ![op[a].db] = @ \cup {"summary"}]
               /\ built' = TRUE
               /\ misled' = (misled \/ (IF op[a].db = db THEN index'[db] # AllIndexes ELSE Incomplete))
               /\ Disturbed
      <3>1. misled' \in BOOLEAN
        BY <2>1 DEF ReadsInv, TypeInv, Incomplete
      <3> QED BY <1>6, <1>7, <2>0, <2>1, <3>1 DEF SummaryEnd
    <2>2. CASE UNCHANGED <<index, built, misled, find>>
      <3>1. TypeInv' /\ LockInv' /\ ~Resetting /\ op[a].db \in Insts /\ lock = a /\ lock # None
        BY <1>5, <1>7, <2>2 DEF SummaryEnd, ReadsInv, TypeInv
      <3>2. Finding' /\ (\A f \in Finders : Calm(f))' /\ FindsHeal'
        BY <1>7, <2>2, Untouched DEF SummaryEnd, ReadsInv
      <3> QED BY <1>7, <2>2, <3>1, <3>2 DEF SummaryEnd, ReadsInv, Flagged
    <2> QED BY <1>7, <2>1, <2>2 DEF SummaryEnd
  <1>8. CASE RebuildEnd(a)
    <2>1. CASE /\ index' = [index EXCEPT ![op[a].db] = AllIndexes] /\ built' = TRUE
               /\ misled' = (misled \/ (op[a].db # db /\ Incomplete))
      <3>1. /\ misled' \in BOOLEAN /\ op[a].db \in Insts
            /\ op[a].db = db => index'[db] = AllIndexes
        BY <1>8, <2>1, Holder DEF RebuildEnd, ReadsInv, TypeInv, Incomplete
      <3> QED BY <1>6, <1>8, <2>1, <3>1 DEF RebuildEnd
    <2>2. CASE built' = FALSE /\ UNCHANGED <<index, misled>>
      <3>1. TypeInv' /\ LockInv'
        BY <1>5, <1>8, <2>2 DEF RebuildEnd, ReadsInv, TypeInv
      <3>2. Finding' /\ (\A f \in Finders : Calm(f))' /\ FindsHeal'
        BY <1>8, <2>2, Disturb DEF RebuildEnd, ReadsInv
      <3> QED BY <2>2, <3>1, <3>2 DEF ReadsInv, Flagged
    <2> QED BY <1>8, <2>1, <2>2 DEF RebuildEnd
  <1> QED BY <1>3, <1>4, <1>7, <1>8

-----------------------------------------------------------------------------
(* The searches.                                                           *)

\* What Calm says of a search k in the present state.
CalmAt(k) ==
    (k.pc \notin {"idle", "done", "error"} /\ ~k.raced) =>
      /\ db # None /\ k.db = db
      /\ lock # None => op[lock].pc = "nothing"
      /\ (~misled /\ k.pc = "missing") => ~built
      /\ (~misled /\ (k.pc = "again" \/ k.retry)) => index[db] = AllIndexes

\* A step of one search alone.
LEMMA FindMoves ==
  ASSUME ReadsInv, NEW f \in Finders, NEW k, IsFind(k), find' = [find EXCEPT ![f] = k],
         UNCHANGED <<db, insts, index, built, lock, op, misled, ops>>,
         CalmAt(k), k.pc = "error" => k.raced \/ misled
  PROVE  ReadsInv'
  <1>1. Finding' /\ find'[f] = k /\ \A g \in Finders : g # f => find'[g] = find[g]
    BY FindSet, Zenon DEF ReadsInv
  <1>2. TypeInv' /\ LockInv' /\ Flagged'
    <2>1. TypeInv'
      BY DEF ReadsInv, TypeInv, Pending
    <2> QED BY <2>1 DEF ReadsInv, LockInv, Flagged, Resetting
  <1>3. ASSUME NEW g \in Finders PROVE Calm(g)'
    <2>1. CASE g = f
      BY <1>1, <2>1 DEF Calm, CalmAt, Searching
    <2>2. CASE g # f
      BY <1>1, <2>2 DEF ReadsInv, Calm, Searching
    <2> QED BY <2>1, <2>2
  <1>4. FindsHeal'
    BY <1>1 DEF ReadsInv, FindsHeal
  <1> QED BY <1>1, <1>2, <1>3, <1>4 DEF ReadsInv

\* A search loads the database that is served, or ends.
LEMMA Loaded ==
  ASSUME TypeInv, NEW k, IsFind(k)
  PROVE  LET m == load_db(k)
         IN  /\ IsFind(m)
             /\ db = None => m.pc = "error" /\ m.raced
             /\ db # None => /\ m.pc = "search" /\ m.db = db
                             /\ m.raced = k.raced /\ m.retry = k.retry
  <1>1. PICK S, H : k \in FindRow(S, H)
    BY Zenon DEF IsFind
  <1> DEFINE m == load_db(k)
  <1>2. CASE db = None
    <2>1. m \in FindRow(S, H) /\ m.pc = "error" /\ m.raced
      BY <1>1, <1>2 DEF load_db, FindRow
    <2> QED BY <1>2, <2>1, Zenon DEF IsFind
  <1>3. CASE db # None
    <2>1. <<>> \in Seq(S)
      OBVIOUS
    <2>2. m \in FindRow(S, H) /\ m.pc = "search" /\ m.db = db /\ m.raced = k.raced /\ m.retry = k.retry
      BY <1>1, <1>3, <2>1 DEF load_db, FindRow, TypeInv
    <2> QED BY <1>3, <2>2, Zenon DEF IsFind
  <1> QED BY <1>2, <1>3

\* A search begins; with the lock held it may meet anything.
LEMMA BeginFindInv ==
  ASSUME ReadsInv, NEW f \in Finders, NEW kind \in {"entities", "relationships", "passages"},
         NEW g \in Scopes, NEW n \in Tops, NEW fl \in Floors, BeginFind(f, kind, g, n, fl)
  PROVE  ReadsInv'
  <1> DEFINE b == lock # None
             k == [NoFind EXCEPT !.kind = kind, !.groups = g, !.n = n, !.floor = fl, !.raced = b]
  <1> DEFINE m == load_db(k)
  <1>3. /\ find' = [find EXCEPT ![f] = m]
        /\ UNCHANGED <<db, insts, index, built, lock, op, misled, ops>>
    BY DEF BeginFind, store
  <1>0. b \in BOOLEAN /\ (b <=> lock # None)
    OBVIOUS
  <1> HIDE DEF b
  <1>1. k \in FindRow({}, {<<>>}) /\ k.raced = b /\ k.retry = FALSE
    <2>1. <<>> \in Seq({})
      OBVIOUS
    <2> QED BY <1>0, <2>1 DEF NoFind, FindRow
  <1>2. IsFind(k)
    BY <1>1, Zenon DEF IsFind
  <1> HIDE DEF k
  <1>4. /\ IsFind(m)
        /\ db = None => m.pc = "error" /\ m.raced
        /\ db # None => m.pc = "search" /\ m.db = db /\ m.raced = k.raced /\ m.retry = k.retry
    BY <1>2, Loaded DEF ReadsInv
  <1> HIDE DEF m
  <1>5. CalmAt(m) /\ (m.pc = "error" => m.raced)
    BY <1>0, <1>1, <1>4 DEF CalmAt
  <1> QED BY <1>3, <1>4, <1>5, FindMoves

\* An index is queried: what a calm search misses is not flagged, and after it healed the
\* indexes it misses none.
LEMMA QueryIndexInv ==
  ASSUME ReadsInv, NEW f \in Finders, QueryIndex(f)
  PROVE  ReadsInv'
  <1> DEFINE k == find[f]
             x == IndexesOf(k.kind)[Len(k.lists) + 1]
  <1>1. PICK S, H : k \in FindRow(S, H)
    BY Zenon DEF ReadsInv, Finding, IsFind
  <1>2. /\ k.pc = "search" /\ Len(k.lists) < Len(IndexesOf(k.kind))
        /\ UNCHANGED <<db, insts, index, built, lock, op, misled, ops>>
    BY DEF QueryIndex, store
  <1>3. CASE x \in index[k.db]
    <2> DEFINE c == Candidates(x, k)
               m == [k EXCEPT !.lists = Append(@, c)]
    <2>1. find' = [find EXCEPT ![f] = m]
      BY <1>3 DEF QueryIndex
    <2> HIDE DEF c
    <2>2. Append(k.lists, c) \in Seq(S \cup {c})
      <3>1. k.lists \in Seq(S)
        BY <1>1 DEF FindRow
      <3>2. k.lists \in Seq(S \cup {c})
        BY <3>1
      <3> QED BY <3>2
    <2>3. m \in FindRow(S \cup {c}, H) /\ m.pc = "search" /\ m.db = k.db /\ m.raced = k.raced /\ m.retry = k.retry
      BY <1>1, <1>2, <2>2 DEF FindRow
    <2>4. IsFind(m)
      BY <2>3, Zenon DEF IsFind
    <2> HIDE DEF m
    <2>5. CalmAt(m) /\ m.pc # "error"
      BY <1>2, <2>3 DEF CalmAt, ReadsInv, Calm, Searching
    <2> QED BY <1>2, <2>1, <2>4, <2>5, FindMoves
  <1>4. CASE x \notin index[k.db]
    <2> DEFINE m == [k EXCEPT !.pc = IF k.retry THEN "error" ELSE "missing"]
    <2>1. find' = [find EXCEPT ![f] = m]
      BY <1>4 DEF QueryIndex
    <2>2. /\ m \in FindRow(S, H) /\ m.pc = (IF k.retry THEN "error" ELSE "missing")
          /\ m.db = k.db /\ m.raced = k.raced /\ m.retry = k.retry
      BY <1>1 DEF FindRow
    <2>3. IsFind(m)
      BY <2>2, Zenon DEF IsFind
    <2>4. x \in AllIndexes
      <3>1. k.lists \in Seq(S)
        BY <1>1 DEF FindRow
      <3>2. Len(IndexesOf(k.kind)) \in Nat
        BY DEF IndexesOf
      <3>3. Len(k.lists) + 1 \in 1..Len(IndexesOf(k.kind))
        BY <1>2, <3>1, <3>2
      <3> QED BY <3>3, IndexKnown
    <2> HIDE DEF m, x
    <2>5. ASSUME ~k.raced, ~misled
          PROVE  k.db = db /\ db # None /\ ~k.retry /\ ~built /\ (lock # None => op[lock].pc = "nothing")
      <3>1. k.db = db /\ db # None /\ (lock # None => op[lock].pc = "nothing")
        BY <1>2, <2>5 DEF ReadsInv, Calm, Searching
      <3>2. index[db] # AllIndexes
        BY <1>4, <2>4, <3>1
      <3>3. ~k.retry
        BY <1>2, <2>5, <3>2 DEF ReadsInv, Calm, Searching
      <3>4. ~built
        BY <2>5, <3>1, <3>2 DEF ReadsInv, Flagged, Resetting
      <3> QED BY <3>1, <3>3, <3>4
    <2>6. ASSUME ~k.raced
          PROVE  k.db = db /\ db # None /\ (lock # None => op[lock].pc = "nothing")
      BY <1>2, <2>6 DEF ReadsInv, Calm, Searching
    <2>7. k.raced \in BOOLEAN /\ k.retry \in BOOLEAN
      BY <1>1 DEF FindRow
    <2>8. CalmAt(m) /\ (m.pc = "error" => m.raced \/ misled)
      BY <2>2, <2>5, <2>6, <2>7 DEF CalmAt
    <2> QED BY <1>2, <2>1, <2>3, <2>8, FindMoves
  <1> QED BY <1>3, <1>4

\* A search answers.
LEMMA AnswerFindInv ==
  ASSUME ReadsInv, NEW f \in Finders, AnswerFind(f)
  PROVE  ReadsInv'
  <1>1. PICK h : find' = [find EXCEPT ![f] = [@ EXCEPT !.pc = "done", !.hits = h]]
    BY Zenon DEF AnswerFind
  <1>2. PICK S, H : find[f] \in FindRow(S, H)
    BY Zenon DEF ReadsInv, Finding, IsFind
  <1> DEFINE m == [find[f] EXCEPT !.pc = "done", !.hits = h]
  <1>3. m \in FindRow(S, {h}) /\ m.pc = "done"
    BY <1>2 DEF FindRow
  <1>4. IsFind(m)
    BY <1>3, Zenon DEF IsFind
  <1>5. find' = [find EXCEPT ![f] = m] /\ UNCHANGED <<db, insts, index, built, lock, op, misled, ops>>
    BY <1>1 DEF AnswerFind, store
  <1> HIDE DEF m
  <1>6. CalmAt(m) /\ m.pc # "error"
    BY <1>3 DEF CalmAt
  <1> QED BY <1>4, <1>5, <1>6, FindMoves

\* A calm search that missed an index does not find the flag set, unless it was set wrongly.
LEMMA MissingIndexInv ==
  ASSUME ReadsInv, NEW f \in Finders, MissingIndex(f)
  PROVE  ReadsInv'
  <1> DEFINE l == IF built THEN "error" ELSE "heal"
             m == [find[f] EXCEPT !.pc = l]
  <1>1. find[f].pc = "missing" /\ UNCHANGED <<db, insts, index, built, lock, op, misled, ops>>
    BY DEF MissingIndex, store
  <1>2. PICK S, H : find[f] \in FindRow(S, H)
    BY Zenon DEF ReadsInv, Finding, IsFind
  <1>3. /\ m \in FindRow(S, H) /\ m.pc = l /\ m.db = find[f].db /\ m.raced = find[f].raced
        /\ m.retry = find[f].retry
    BY <1>2 DEF FindRow
  <1>4. IsFind(m)
    BY <1>3, Zenon DEF IsFind
  <1>5. find' = [find EXCEPT ![f] = m]
    BY DEF MissingIndex
  <1> HIDE DEF m
  <1>6. CalmAt(m) /\ (m.pc = "error" => m.raced \/ misled)
    BY <1>1, <1>3 DEF CalmAt, ReadsInv, Calm, Searching, TypeInv
  <1> QED BY <1>1, <1>4, <1>5, <1>6, FindMoves

\* The search that healed the indexes tries again, in the database that is served now.
LEMMA RetryFindInv ==
  ASSUME ReadsInv, NEW f \in Finders, RetryFind(f)
  PROVE  ReadsInv'
  <1> DEFINE k == [find[f] EXCEPT !.retry = TRUE]
             m == load_db(k)
  <1>1. find[f].pc = "again" /\ UNCHANGED <<db, insts, index, built, lock, op, misled, ops>>
    BY DEF RetryFind, store
  <1>2. PICK S, H : find[f] \in FindRow(S, H)
    BY Zenon DEF ReadsInv, Finding, IsFind
  <1>3. k \in FindRow(S, H) /\ k.raced = find[f].raced /\ k.retry
    BY <1>2 DEF FindRow
  <1>4. IsFind(k)
    BY <1>3, Zenon DEF IsFind
  <1>5. find' = [find EXCEPT ![f] = m]
    BY DEF RetryFind
  <1> HIDE DEF k
  <1>6. /\ IsFind(m)
        /\ db = None => m.pc = "error" /\ m.raced
        /\ db # None => m.pc = "search" /\ m.db = db /\ m.raced = k.raced /\ m.retry = k.retry
    BY <1>4, Loaded DEF ReadsInv
  <1> HIDE DEF m
  <1>7. CalmAt(m) /\ (m.pc = "error" => m.raced)
    BY <1>1, <1>3, <1>6 DEF CalmAt, ReadsInv, Calm, Searching
  <1> QED BY <1>1, <1>5, <1>6, <1>7, FindMoves

\* The indexes are built once, in the database that is served by then: who built them, or
\* finds them built while it is calm, has them all; the others that are under way are
\* disturbed.
LEMMA HealInv ==
  ASSUME ReadsInv, NEW f \in Finders, build_indices_once(f)
  PROVE  ReadsInv'
  <1>1. /\ find[f].pc = "heal" /\ lock = None
        /\ UNCHANGED <<db, insts, lock, op, misled, ops>>
    BY DEF build_indices_once
  <1>2. CASE /\ built \/ db # None
             /\ built' = TRUE
             /\ index' = IF built THEN index ELSE [index EXCEPT ![db] = AllIndexes]
             /\ Healed(f)
    <2>1. TypeInv'
      <3>1. index' \in [Insts -> SUBSET AllIndexes]
        BY <1>2 DEF ReadsInv, TypeInv
      <3> QED BY <1>1, <1>2, <3>1 DEF ReadsInv, TypeInv, Pending
    <2>2. LockInv'
      BY <1>1 DEF ReadsInv, LockInv
    <2>3. misled \/ db = None \/ index'[db] = AllIndexes
      BY <1>1, <1>2 DEF ReadsInv, TypeInv, Flagged, Resetting
    <2>4. Flagged'
      BY <1>1, <2>3 DEF Flagged
    <2>5. /\ IsFind(find'[f]) /\ find'[f].pc = "again" /\ find'[f].db = find[f].db
          /\ find'[f].raced = find[f].raced
      <3>1. find'[f] = [find[f] EXCEPT !.pc = "again"]
        BY <1>2 DEF Healed
      <3>2. PICK S, H : find[f] \in FindRow(S, H)
        BY Zenon DEF ReadsInv, Finding, IsFind
      <3>3. /\ find'[f] \in FindRow(S, H) /\ find'[f].pc = "again" /\ find'[f].db = find[f].db
            /\ find'[f].raced = find[f].raced
        BY <3>1, <3>2 DEF FindRow
      <3> QED BY <3>3, Zenon DEF IsFind
    <2>6. ASSUME NEW g \in Finders, g # f
          PROVE  /\ IsFind(find'[g]) /\ find'[g].pc = find[g].pc /\ find'[g].db = find[g].db
                 /\ find'[g].retry = find[g].retry
                 /\ find'[g].raced = (find[g].raced \/ (~built /\ Searching(g)))
      <3>1. IsFind(find[g]) /\ find[g].raced \in BOOLEAN
        BY FindTyped, Zenon DEF ReadsInv, Finding
      <3> DEFINE b == find[g].raced \/ (~built /\ Searching(g))
      <3>2. b \in BOOLEAN /\ find'[g] = [find[g] EXCEPT !.raced = b]
        BY <1>2, <2>6, <3>1 DEF Healed
      <3> HIDE DEF b
      <3>3. /\ IsFind(find'[g]) /\ find'[g].pc = find[g].pc /\ find'[g].db = find[g].db
            /\ find'[g].retry = find[g].retry /\ find'[g].raced = b
        BY <3>1, <3>2, Marked
      <3> QED BY <3>3 DEF b
    <2>7. Finding'
      <3>1. find' = [g \in Finders |-> find'[g]]
        BY <1>2, Zenon DEF Healed
      <3> QED BY <2>5, <2>6, <3>1, Zenon DEF Finding
    <2>8. FindsHeal'
      BY <1>1, <2>5, <2>6 DEF ReadsInv, FindsHeal
    <2>9. ASSUME NEW g \in Finders PROVE Calm(g)'
      <3>1. CASE g = f
        BY <1>1, <2>3, <2>5, <3>1 DEF ReadsInv, Calm, Searching
      <3>2. CASE g # f
        <4>1. CASE built
          BY <1>1, <1>2, <2>6, <3>2, <4>1 DEF ReadsInv, Calm, Searching
        <4>2. CASE ~built
          BY <2>6, <3>2, <4>2 DEF Calm, Searching
        <4> QED BY <4>1, <4>2
      <3> QED BY <3>1, <3>2
    <2> QED BY <2>1, <2>2, <2>4, <2>7, <2>8, <2>9 DEF ReadsInv
  <1>3. CASE /\ find' = [find EXCEPT ![f] = [@ EXCEPT !.pc = "error", !.raced = TRUE]]
             /\ UNCHANGED <<built, index>>
    <2> DEFINE m == [find[f] EXCEPT !.pc = "error", !.raced = TRUE]
    <2>1. PICK S, H : find[f] \in FindRow(S, H)
      BY Zenon DEF ReadsInv, Finding, IsFind
    <2>2. m \in FindRow(S, H) /\ m.pc = "error" /\ m.raced
      BY <2>1 DEF FindRow
    <2>3. IsFind(m) /\ find' = [find EXCEPT ![f] = m]
      BY <1>3, <2>2, Zenon DEF IsFind
    <2> HIDE DEF m
    <2>4. CalmAt(m)
      BY <2>2 DEF CalmAt
    <2> QED BY <1>1, <1>3, <2>2, <2>3, <2>4, FindMoves
  <1> QED BY <1>2, <1>3 DEF build_indices_once

-----------------------------------------------------------------------------
(* The invariant, and what it says of the searches.                        *)

\* A process starts with a database of an earlier run and no request.
LEMMA ReadsInit == Init => ReadsInv
  <1> SUFFICES ASSUME Init PROVE ReadsInv
    OBVIOUS
  <1>1. NoOp \in OpRow
    BY DEF NoOp, OpRow, OpPCs
  <1>2. Pending = {}
    BY DEF Init, Pending, NoOp
  <1>3. 1 \in Insts /\ insts + Cardinality(Pending) <= ops + 1 /\ ops <= MaxOps
    BY <1>2, FS_EmptySet, ReadsAssumption DEF Init, Insts
  <1>4. TypeInv
    <2>1. index \in [Insts -> SUBSET AllIndexes]
      <3>1. index = [d \in Insts |-> IF d = 1 THEN AllIndexes ELSE {}]
        BY Zenon DEF Init
      <3> QED BY <3>1
    <2>2. op \in [Admins -> OpRow]
      BY <1>1 DEF Init
    <2>3. /\ db = 1 /\ insts = 1 /\ ops = 0 /\ built = TRUE /\ misled = FALSE /\ lock = None
      BY Zenon DEF Init
    <2>4. lock \in Admins \cup {None} /\ db \in Insts \cup {None} /\ insts \in Nat /\ ops \in Nat
      BY <1>3, <2>3
    <2>5. built \in BOOLEAN /\ misled \in BOOLEAN
      BY <2>3, Zenon
    <2>6. insts >= 1
      <3>1. insts = 1
        BY <2>3
      <3> QED BY <3>1
    <2> QED BY <1>3, <2>1, <2>2, <2>4, <2>5, <2>6, Zenon DEF TypeInv
  <1>5. LockInv
    BY ReadsAssumption DEF Init, LockInv, NoOp, Held
  <1>6. NoFind \in FindRow({}, {<<>>})
    <2>1. <<>> \in Seq({})
      OBVIOUS
    <2> QED BY <2>1 DEF NoFind, FindRow
  <1>7. IsFind(NoFind)
    BY <1>6, Zenon DEF IsFind
  <1>8. find = [f \in Finders |-> NoFind]
    BY DEF Init
  <1>9. Finding
    BY <1>7, <1>8, Zenon DEF Finding
  <1>10. \A f \in Finders : find[f].pc = "idle"
    BY <1>8 DEF NoFind
  <1>11. (\A f \in Finders : Calm(f)) /\ FindsHeal
    BY <1>10 DEF Calm, Searching, FindsHeal
  <1>12. Flagged
    <2>1. db = 1 /\ index = [d \in Insts |-> IF d = 1 THEN AllIndexes ELSE {}]
      BY Zenon DEF Init
    <2>2. index[db] = AllIndexes
      BY <1>3, <2>1
    <2> QED BY <2>2 DEF Flagged
  <1> QED BY <1>4, <1>5, <1>9, <1>11, <1>12 DEF ReadsInv

\* Every step keeps the invariant; the walks do not touch what it speaks of.
LEMMA ReadsNext == ReadsInv /\ [Next]_vars => ReadsInv'
  <1> SUFFICES ASSUME ReadsInv, [Next]_vars PROVE ReadsInv'
    OBVIOUS
  <1>1. ASSUME UNCHANGED <<store, find>> PROVE ReadsInv'
    <2>1. UNCHANGED <<db, insts, index, built, lock, op, misled, ops, find>>
      BY <1>1 DEF store
    <2>2. TypeInv' /\ LockInv' /\ Flagged'
      BY <2>1 DEF ReadsInv, TypeInv, Pending, LockInv, Flagged, Resetting
    <2>3. Finding' /\ FindsHeal' /\ \A f \in Finders : Calm(f)'
      BY <2>1, Zenon DEF ReadsInv, Finding, FindsHeal, Calm, Searching
    <2> QED BY <2>2, <2>3 DEF ReadsInv
  <1>2. ASSUME NEW w \in Walkers, Walk(w) PROVE ReadsInv'
    BY <1>1, <1>2, Zenon DEF Walk, BeginWalk, ReadPage, NextPage
  <1>3. ASSUME NEW f \in Finders, Search(f) PROVE ReadsInv'
    BY <1>3, QueryIndexInv, AnswerFindInv, MissingIndexInv, HealInv, RetryFindInv DEF Search
  <1>4. ASSUME NEW a \in Admins, Administer(a) PROVE ReadsInv'
    BY <1>4, WriteRowInv, ClearInv, BuildInv, PassInv DEF Administer
  <1>5. CASE UNCHANGED vars
    BY <1>1, <1>5 DEF vars
  <1>6. CASE Next
    BY <1>2, <1>3, <1>4, <1>6, BeginFindInv, BeginOpInv DEF Next
  <1> QED BY <1>5, <1>6

\* FindsHeal (search.rs and build_indices_once of app_state.rs): a search answers that an
\* index is missing only if another request dropped or built an index or replaced the
\* database while it ran, its own build failed, or the flag had been set over a database
\* without its indexes; for every set of clients, every ranking and every bound.
THEOREM SearchesHeal == Spec => []FindsHeal
  <1>1. ReadsInv => FindsHeal
    BY DEF ReadsInv
  <1> QED BY <1>1, ReadsInit, ReadsNext, PTL DEF Spec

-----------------------------------------------------------------------------
(* Walks. A page is what is left behind the last row that was given, in    *)
(* the order of the listing: what was there all the time is given already, *)
(* or behind the cursor, whatever came and went before it. The database a  *)
(* page reads is the one the rows that stayed are in, or none stayed: a    *)
(* clear_all took them all.                                                *)

\* Rows in the order of a listing.
Down(tag, q) == \A x, y \in DOMAIN q : x < y => Behind(tag, q[y], q[x])

Cursors == [tag : Listings, shape : Listings \X (Scopes \cup {{}}), pos : Ids]
WalkRow ==
    [pc : {"idle", "page", "next", "done", "refused"}, tag : Listings, groups : Scopes \cup {{}},
     cursor : Cursors \cup {None}, db : Insts \cup {None}, got : Seq(Ids),
     stay : SUBSET Ids, ever : SUBSET Ids]

\* A request writes to a database that was opened, and what it inserts is a row; while one is
\* about to open a fresh database there is none.
Writes(r) ==
    /\ r.pc = "reopen" => db = None
    /\ r.pc # "idle" => r.db <= insts
    /\ (r.pc = "wait" /\ r.kind = "insert") => r.row \in Ids

\* The database served is the last that was opened, a later one is empty,
\* and nobody writes to one that was not opened.
StoreInv ==
    /\ rows \in [Insts -> SUBSET Ids]
    /\ db # None => db = insts
    /\ \A d \in Insts : d > insts => rows[d] = {}
    /\ \A a \in Admins : Writes(op[a])

\* What a walk has given.
Given(k) ==
    /\ Down(k.tag, k.got)
    /\ ToSet(k.got) \subseteq k.ever
    /\ k.pc = "done" => {i \in k.stay : InScope(i, k.groups)} \subseteq ToSet(k.got)

\* The cursor is the last row given, and the query it was made for.
CursorOK(k) ==
    /\ k.cursor = None => k.got = <<>>
    /\ k.cursor # None =>
         k.got # <<>> /\ k.cursor = encode_cursor(k.tag, k.groups, k.got[Len(k.got)])
    /\ k.pc = "next" => k.cursor # None

\* What stayed is given, or still to come.
ToCome(k) ==
    \A i \in k.stay : InScope(i, k.groups) =>
        i \in ToSet(k.got) \/ (k.cursor # None => Behind(k.tag, i, k.cursor.pos))

\* What stayed is in the database, and what is in it was seen.
Seen(k) ==
    /\ k.db \in Insts /\ k.db <= insts
    /\ \A d \in Insts : d >= k.db => rows[d] \subseteq k.ever
    /\ k.stay = {} \/ (db # None /\ k.db = db /\ k.stay \subseteq rows[db])

WalkOK(k) ==
    /\ k \in WalkRow /\ Given(k)
    /\ k.pc \in {"page", "next"} => CursorOK(k) /\ ToCome(k) /\ Seen(k)

WalkInv == StoreInv /\ DOMAIN walk = Walkers /\ \A w \in Walkers : WalkOK(walk[w])

-----------------------------------------------------------------------------
(* The order of a listing, and the page it gives.                          *)

\* One of two rows is behind the other.
LEMMA Ordered ==
  ASSUME NEW tag
  PROVE  /\ \A i, j \in Ids : i # j => Behind(tag, i, j) \/ Behind(tag, j, i)
         /\ \A i \in Ids : ~Behind(tag, i, i)
         /\ \A i, j, k \in Ids : Behind(tag, i, j) /\ Behind(tag, j, k) => Behind(tag, i, k)
<1>1. \A i \in Ids : i \in Int /\ At[i] \in Int
  BY WalkAssumption
<1>2. CASE tag = "entities"
  BY <1>1, <1>2 DEF Behind
<1>3. CASE tag # "entities"
  BY <1>1, <1>3 DEF Behind
<1> QED BY <1>2, <1>3

\* A family of sets of rows has a member with no smaller one in it.
LEMMA SmallestSet ==
  ASSUME NEW C, C \subseteq SUBSET Ids, C # {}
  PROVE  \E T \in C : \A U \in C : ~(U \subseteq T /\ U # T)
<1>1. FiniteSubsetsOf(Ids) = SUBSET Ids
  BY WalkAssumption, FS_FiniteSubsetsOfFinite
<1>2. IsWellFoundedOn(StrictSubsetOrdering(Ids), FiniteSubsetsOf(Ids))
  BY FS_StrictSubsetOrderingWellFounded
<1>3. PICK T \in C : \A U \in C : ~(<<U, T>> \in StrictSubsetOrdering(Ids))
  BY <1>1, <1>2, WFMin
<1>4. ASSUME NEW U \in C, U \subseteq T, U # T PROVE FALSE
  BY <1>3, <1>4 DEF StrictSubsetOrdering
<1> QED BY <1>3, <1>4

\* Some row of a set is behind all others.
LEMMA LastRow ==
  ASSUME NEW tag, NEW S \in SUBSET Ids, S # {}
  PROVE  \E m \in S : \A x \in S : x # m => Behind(tag, m, x)
<1> DEFINE B(x) == {y \in S : Behind(tag, y, x)}
           C == {B(x) : x \in S}
<1>1. C \subseteq SUBSET Ids /\ C # {} /\ \A T \in C : \E m \in S : T = B(m)
  OBVIOUS
<1>c. \A m \in S : B(m) \in C
  OBVIOUS
<1> HIDE DEF C
<1>2. PICK T \in C : \A U \in C : ~(U \subseteq T /\ U # T)
  BY <1>1, SmallestSet
<1>3. PICK m \in S : T = B(m)
  BY <1>1, <1>2
<1>4. ASSUME NEW x \in S, x # m, ~Behind(tag, m, x) PROVE FALSE
  <2>1. Behind(tag, x, m)
    BY <1>4, Ordered
  <2>2. B(x) \subseteq B(m) /\ x \in B(m) /\ x \notin B(x)
    BY <2>1, Ordered
  <2> QED BY <1>2, <1>3, <1>c, <2>2
<1> QED BY <1>4

\* Any set of rows can be put in the order of a listing.
LEMMA Sortable ==
  ASSUME NEW tag, NEW S \in SUBSET Ids
  PROVE  \E q \in [1..Cardinality(S) -> S] : Down(tag, q)
<1> DEFINE Q(T) == \E q \in [1..Cardinality(T) -> T] : Down(tag, q)
           C == {T \in SUBSET Ids : ~Q(T)}
<1> SUFFICES ASSUME C # {} PROVE FALSE
  OBVIOUS
<1>0. C \subseteq SUBSET Ids /\ (\A T \in C : ~Q(T)) /\ \A T \in SUBSET Ids : T \notin C => Q(T)
  <2> HIDE DEF Q
  <2> QED OBVIOUS
<1> HIDE DEF C
<1>1. PICK T \in C : \A U \in C : ~(U \subseteq T /\ U # T)
  BY <1>0, SmallestSet
<1>2. T \in SUBSET Ids /\ IsFiniteSet(T) /\ ~Q(T)
  <2> HIDE DEF Q
  <2> QED BY <1>0, <1>1, WalkAssumption, FS_Subset
<1>3. CASE T = {}
  <2>1. Cardinality(T) = 0 /\ 1..0 = {}
    BY <1>3, FS_EmptySet
  <2> DEFINE q == [k \in {} |-> k]
  <2>2. q \in [1..Cardinality(T) -> T] /\ Down(tag, q)
    BY <2>1, <1>3 DEF Down
  <2> QED BY <1>2, <2>2
<1>4. CASE T # {}
  <2>1. PICK m \in T : \A x \in T : x # m => Behind(tag, m, x)
    BY <1>2, <1>4, LastRow
  <2> DEFINE U == T \ {m}
             n == Cardinality(T)
  <2>2. n \in Nat /\ Cardinality(U) = n - 1 /\ Cardinality(U) \in Nat
    BY <1>2, FS_RemoveElement, FS_CardinalityType
  <2>3. Q(U)
    <3>1. U \in SUBSET Ids /\ U \subseteq T /\ U # T
      BY <1>2, <2>1
    <3> HIDE DEF Q, U
    <3> QED BY <1>0, <1>1, <3>1
  <2>4. PICK r \in [1..(n - 1) -> U] : Down(tag, r)
    BY <2>2, <2>3
  <2> DEFINE q == [k \in 1..n |-> IF k = n THEN m ELSE r[k]]
  <2> HIDE DEF n
  <2>5. q \in [1..n -> T]
    BY <2>1, <2>2, <2>4
  <2>6. Down(tag, q)
    <3> SUFFICES ASSUME NEW x \in 1..n, NEW y \in 1..n, x < y PROVE Behind(tag, q[y], q[x])
      BY DEF Down
    <3>1. x \in 1..(n - 1) /\ q[x] = r[x] /\ r[x] \in U
      BY <2>2, <2>4
    <3>2. CASE y = n
      BY <2>1, <3>1, <3>2
    <3>3. CASE y # n
      BY <2>2, <2>4, <3>1, <3>3 DEF Down
    <3> QED BY <3>2, <3>3
  <2> QED BY <1>2, <2>5, <2>6 DEF n
<1> QED BY <1>3, <1>4

\* Rows in order are each once, and as many as the set has are all of it.
LEMMA AllRows ==
  ASSUME NEW tag, NEW S \in SUBSET Ids, NEW q \in [1..Cardinality(S) -> S], Down(tag, q)
  PROVE  q \in Seq(Ids) /\ Len(q) = Cardinality(S) /\ ToSet(q) = S
<1> DEFINE n == Cardinality(S)
<1>1. IsFiniteSet(S) /\ n \in Nat
  BY WalkAssumption, FS_Subset, FS_CardinalityType
<1> HIDE DEF n
<1>2. q \in Seq(Ids) /\ Len(q) = n /\ DOMAIN q = 1..n
  BY <1>1 DEF n
<1>3. q \in Injection(1..n, S)
  <2>1. ASSUME NEW x \in 1..n, NEW y \in 1..n, x < y PROVE q[x] # q[y]
    BY <1>2, <2>1, Ordered DEF Down, n
  <2>2. ASSUME NEW x \in 1..n, NEW y \in 1..n, q[x] = q[y] PROVE x = y
    BY <2>1, <2>2, <1>1
  <2> QED BY <2>2 DEF Injection, IsInjective, n
<1>4. IsFiniteSet(1..n) /\ Cardinality(1..n) = n
  BY <1>1, FS_Interval
<1>5. q \in Surjection(1..n, S)
  BY <1>1, <1>3, <1>4, FS_Injection DEF n
<1>6. ToSet(q) = S
  BY <1>2, <1>5 DEF Surjection, ToSet, n
<1> QED BY <1>2, <1>6 DEF n

\* A page holds the rows that match, in order.
LEMMA PageOf ==
  ASSUME NEW tag \in Listings, NEW d \in Insts, rows[d] \in SUBSET Ids, NEW groups, NEW after,
         NEW page, page = Page(tag, d, groups, after)
  PROVE  page \in Seq(Ids) /\ Down(tag, page) /\ ToSet(page) = Matching(tag, d, groups, after)
<1> DEFINE all == Matching(tag, d, groups, after)
<1>1. all \in SUBSET Ids
  BY DEF Matching
<1>2. page \in [1..Cardinality(all) -> all] /\ Down(tag, page)
  <2>1. CASE tag = "entities"
    <3>1. page = CHOOSE q \in [1..Cardinality(all) -> all] :
                   \A x, y \in DOMAIN q : x < y => q[y] < q[x]
      BY <2>1 DEF Page, list_entities_page
    <3>2. ASSUME NEW q PROVE Down(tag, q) <=> \A x, y \in DOMAIN q : x < y => q[y] < q[x]
      BY <2>1 DEF Down, Behind
    <3>3. \E q \in [1..Cardinality(all) -> all] : \A x, y \in DOMAIN q : x < y => q[y] < q[x]
      BY <1>1, <3>2, Sortable
    <3> HIDE DEF all
    <3>4. page \in [1..Cardinality(all) -> all] /\ \A x, y \in DOMAIN page : x < y => page[y] < page[x]
      BY <3>1, <3>3
    <3> QED BY <3>2, <3>4
  <2>2. CASE tag # "entities"
    <3>0. tag = "episodes"
      BY <2>2 DEF Listings
    <3>1. page = CHOOSE q \in [1..Cardinality(all) -> all] :
                   \A x, y \in DOMAIN q : x < y =>
                     At[q[y]] < At[q[x]] \/ (At[q[y]] = At[q[x]] /\ q[y] < q[x])
      BY <2>2, <3>0 DEF Page, retrieve_episodes_page
    <3>2. ASSUME NEW q PROVE Down(tag, q) <=> \A x, y \in DOMAIN q : x < y =>
                     At[q[y]] < At[q[x]] \/ (At[q[y]] = At[q[x]] /\ q[y] < q[x])
      BY <2>2 DEF Down, Behind
    <3>3. \E q \in [1..Cardinality(all) -> all] : \A x, y \in DOMAIN q : x < y =>
                     At[q[y]] < At[q[x]] \/ (At[q[y]] = At[q[x]] /\ q[y] < q[x])
      BY <1>1, <3>2, Sortable
    <3> HIDE DEF all
    <3>4. page \in [1..Cardinality(all) -> all] /\ \A x, y \in DOMAIN page : x < y =>
                     At[page[y]] < At[page[x]] \/ (At[page[y]] = At[page[x]] /\ page[y] < page[x])
      BY <3>1, <3>3
    <3> QED BY <3>2, <3>4
  <2> QED BY <2>1, <2>2
<1> HIDE DEF all
<1>3. page \in Seq(Ids) /\ ToSet(page) = all
  BY <1>1, <1>2, AllRows
<1> QED BY <1>2, <1>3 DEF all

-----------------------------------------------------------------------------
(* What a page adds to a walk.                                             *)

\* What is given, and what is given after it.
Joined(all, got, kept) == all = got \o kept
Follows(tag, kept, got) == got # <<>> => \A i \in ToSet(kept) : Behind(tag, i, got[Len(got)])
EndsWith(all, kept) == kept # <<>> => all # <<>> /\ all[Len(all)] = kept[Len(kept)]

\* Rows behind the last one given go after it.
LEMMA Appended ==
  ASSUME NEW tag, NEW got \in Seq(Ids), Down(tag, got), NEW kept \in Seq(Ids), Down(tag, kept),
         Follows(tag, kept, got),
         NEW all, Joined(all, got, kept)
  PROVE  /\ all \in Seq(Ids) /\ Down(tag, all) /\ ToSet(all) = ToSet(got) \cup ToSet(kept)
         /\ EndsWith(all, kept)
<1> DEFINE n == Len(got)
           m == Len(kept)
<1>1. /\ n \in Nat /\ m \in Nat /\ DOMAIN got = 1..n /\ DOMAIN kept = 1..m
      /\ all \in Seq(Ids) /\ Len(all) = n + m /\ DOMAIN all = 1..(n + m)
      /\ \A x \in 1..n : all[x] = got[x] /\ got[x] \in Ids
      /\ \A x \in 1..m : all[n + x] = kept[x] /\ kept[x] \in Ids
  BY DEF Joined
<1>e. (kept # <<>> => m > 0) /\ (n > 0 => got # <<>>)
  OBVIOUS
<1> HIDE DEF n, m
<1>2. \A x \in 1..(n + m) : x \in 1..n \/ (x - n \in 1..m /\ x = n + (x - n))
  BY <1>1
<1>3. ToSet(all) = ToSet(got) \cup ToSet(kept)
  <2>1. ASSUME NEW x \in 1..(n + m) PROVE all[x] \in ToSet(got) \cup ToSet(kept)
    BY <1>1, <1>2 DEF ToSet
  <2>2. ASSUME NEW x \in 1..n PROVE got[x] \in ToSet(all)
    <3>1. x \in 1..(n + m) /\ all[x] = got[x]
      BY <1>1
    <3> QED BY <1>1, <3>1 DEF ToSet
  <2>3. ASSUME NEW x \in 1..m PROVE kept[x] \in ToSet(all)
    <3>1. n + x \in 1..(n + m) /\ all[n + x] = kept[x]
      BY <1>1
    <3> QED BY <1>1, <3>1 DEF ToSet
  <2>4. \A i \in ToSet(all) : i \in ToSet(got) \cup ToSet(kept)
    <3> DEFINE both == ToSet(got) \cup ToSet(kept)
    <3> HIDE DEF both
    <3>1. \A x \in 1..(n + m) : all[x] \in both
      BY <2>1 DEF both
    <3>2. \A i \in ToSet(all) : i \in both
      BY <1>1, <3>1 DEF ToSet
    <3> QED BY <3>2 DEF both
  <2>5. \A i \in ToSet(got) : \E x \in 1..n : i = got[x]
    BY <1>1 DEF ToSet
  <2>6. \A i \in ToSet(kept) : \E x \in 1..m : i = kept[x]
    BY <1>1 DEF ToSet
  <2> QED BY <2>2, <2>3, <2>4, <2>5, <2>6
<1>4. ASSUME NEW x \in 1..(n + m), NEW y \in 1..(n + m), x < y PROVE Behind(tag, all[y], all[x])
  <2>1. CASE y \in 1..n
    <3>1. x \in 1..n
      BY <1>1, <1>4, <2>1
    <3> QED BY <1>1, <1>4, <2>1, <3>1 DEF Down
  <2>2. CASE x \notin 1..n
    <3>1. x - n \in 1..m /\ y - n \in 1..m /\ x - n < y - n /\ x = n + (x - n) /\ y = n + (y - n)
      BY <1>1, <1>4, <2>2
    <3>2. all[x] = kept[x - n] /\ all[y] = kept[y - n]
      BY <1>1, <3>1
    <3> QED BY <1>1, <3>1, <3>2 DEF Down
  <2>3. CASE x \in 1..n /\ y \notin 1..n
    <3>1. y - n \in 1..m /\ all[y] = kept[y - n] /\ n > 0
      BY <1>1, <1>2, <2>3
    <3>2. kept[y - n] \in ToSet(kept) /\ kept[y - n] \in Ids
      BY <1>1, <3>1 DEF ToSet
    <3>3. Behind(tag, all[y], got[n])
      BY <1>e, <3>1, <3>2 DEF n, Follows
    <3>4. CASE x = n
      BY <1>1, <2>3, <3>3, <3>4
    <3>5. CASE x # n
      <4>1. n \in 1..n /\ x < n
        BY <1>1, <2>3, <3>5
      <4>2. Behind(tag, got[n], got[x])
        BY <1>1, <2>3, <4>1 DEF Down
      <4> QED BY <1>1, <2>3, <3>1, <3>2, <3>3, <4>1, <4>2, Ordered
    <3> QED BY <3>4, <3>5
  <2> QED BY <2>1, <2>2, <2>3
<1>5. kept # <<>> => all # <<>> /\ all[Len(all)] = kept[Len(kept)]
  <2> SUFFICES ASSUME kept # <<>> PROVE all # <<>> /\ all[n + m] = kept[m]
    BY <1>1 DEF m
  <2>1. m \in 1..m /\ n + m > 0
    BY <1>1, <1>e
  <2> QED BY <1>1, <2>1
<1> QED BY <1>1, <1>3, <1>4, <1>5 DEF Down, EndsWith

\* The same, of one predicate: rows that go on from those given.
Extends(tag, got, kept, all) ==
    /\ got \in Seq(Ids) /\ Down(tag, got) /\ kept \in Seq(Ids) /\ Down(tag, kept)
    /\ Follows(tag, kept, got) /\ Joined(all, got, kept)
Extension(tag, got, kept, all) ==
    /\ all \in Seq(Ids) /\ Down(tag, all) /\ ToSet(all) = ToSet(got) \cup ToSet(kept)
    /\ EndsWith(all, kept)

\* A walk goes on in order.
LEMMA Extended ==
  ASSUME NEW tag, NEW got, NEW kept, NEW all, Extends(tag, got, kept, all)
  PROVE  Extension(tag, got, kept, all)
  BY Appended DEF Extends, Extension

\* The first rows of a page: what is left is behind the last of them.
LEMMA FirstRows ==
  ASSUME NEW tag, NEW page \in Seq(Ids), Down(tag, page), NEW n \in Nat \ {0}, n < Len(page),
         NEW kept, kept = SubSeq(page, 1, n)
  PROVE  /\ kept \in Seq(Ids) /\ kept # <<>> /\ Down(tag, kept) /\ ToSet(kept) \subseteq ToSet(page)
         /\ kept[Len(kept)] \in Ids
         /\ \A i \in ToSet(page) : i \in ToSet(kept) \/ Behind(tag, i, kept[Len(kept)])
<1>1. /\ kept \in Seq(Ids) /\ Len(kept) = n /\ DOMAIN kept = 1..n /\ DOMAIN page = 1..Len(page)
      /\ \A x \in 1..n : kept[x] = page[x] /\ kept[x] \in Ids /\ x \in 1..Len(page)
  OBVIOUS
<1>2. n \in 1..n /\ kept # <<>> /\ Len(page) \in Nat
  BY <1>1
<1>3. Down(tag, kept)
  BY <1>1 DEF Down
<1>4. ToSet(kept) \subseteq ToSet(page)
  BY <1>1 DEF ToSet
<1>5. ASSUME NEW x \in 1..Len(page) PROVE page[x] \in ToSet(kept) \/ Behind(tag, page[x], kept[n])
  <2>1. CASE x \in 1..n
    BY <1>1, <2>1 DEF ToSet
  <2>2. CASE x > n
    BY <1>1, <1>2, <2>2 DEF Down
  <2> QED BY <1>2, <2>1, <2>2
<1>6. \A i \in ToSet(page) : \E x \in 1..Len(page) : i = page[x]
  BY <1>1 DEF ToSet
<1> QED BY <1>1, <1>2, <1>3, <1>4, <1>5, <1>6

\* A walk that reads a page.
LEMMA PageRead ==
  ASSUME NEW k, WalkOK(k), k.pc = "page", StoreInv, NEW n \in Nat \ {0},
         NEW page, page = Page(k.tag, k.db, k.groups, IF k.cursor = None THEN None ELSE k.cursor.pos),
         NEW kept, kept = (IF Len(page) > n THEN SubSeq(page, 1, n) ELSE page),
         NEW m, m = [k EXCEPT !.pc = IF Len(page) > n THEN "next" ELSE "done",
                              !.got = k.got \o kept,
                              !.cursor = IF Len(page) > n THEN encode_cursor(k.tag, k.groups, Last(kept))
                                         ELSE None]
  PROVE  WalkOK(m)
<1> DEFINE after == IF k.cursor = None THEN None ELSE k.cursor.pos
           got == k.got \o kept
<1>1. /\ k \in WalkRow /\ Given(k) /\ CursorOK(k) /\ ToCome(k) /\ Seen(k)
  BY DEF WalkOK
<1>2. /\ k.tag \in Listings /\ k.groups \in Scopes \cup {{}} /\ k.db \in Insts /\ k.got \in Seq(Ids)
      /\ k.stay \in SUBSET Ids /\ k.ever \in SUBSET Ids
  BY <1>1 DEF WalkRow, Seen
<1>3. rows[k.db] \in SUBSET Ids /\ rows[k.db] \subseteq k.ever
  <2>1. rows[k.db] \in SUBSET Ids
    BY <1>2 DEF StoreInv
  <2>2. k.db >= k.db
    BY <1>2 DEF Insts
  <2> QED BY <1>1, <1>2, <2>1, <2>2 DEF Seen
<1>4. page \in Seq(Ids) /\ Down(k.tag, page) /\ ToSet(page) = Matching(k.tag, k.db, k.groups, after)
  <2>1. page = Page(k.tag, k.db, k.groups, after)
    OBVIOUS
  <2> HIDE DEF after
  <2> QED BY <1>2, <1>3, <2>1, PageOf
<1>5. /\ k.cursor = None => k.got = <<>> /\ after = None
      /\ k.cursor # None => /\ k.got # <<>> /\ after = k.got[Len(k.got)]
                            /\ after # None /\ after = k.cursor.pos
  <2>1. CASE k.cursor = None
    BY <1>1, <2>1 DEF CursorOK
  <2>2. CASE k.cursor # None
    <3>1. k.got # <<>> /\ k.cursor.pos = k.got[Len(k.got)]
      BY <1>1, <2>2 DEF CursorOK, encode_cursor
    <3>2. k.got[Len(k.got)] \in Ids
      BY <1>2, <3>1
    <3> QED BY <2>2, <3>1, <3>2, WalkAssumption
  <2> QED BY <2>1, <2>2
<1> HIDE DEF after
<1>6. /\ kept \in Seq(Ids) /\ Down(k.tag, kept) /\ ToSet(kept) \subseteq ToSet(page)
      /\ Len(page) > n =>
           /\ kept # <<>> /\ Last(kept) = kept[Len(kept)] /\ kept[Len(kept)] \in Ids
           /\ \A i \in ToSet(page) : i \in ToSet(kept) \/ Behind(k.tag, i, kept[Len(kept)])
      /\ ~(Len(page) > n) => kept = page
  <2>1. CASE Len(page) > n
    <3>1. n < Len(page) /\ kept = SubSeq(page, 1, n)
      BY <1>4, <2>1
    <3> QED BY <1>4, <2>1, <3>1, FirstRows DEF Last
  <2>2. CASE ~(Len(page) > n)
    BY <1>4, <2>2
  <2> QED BY <2>1, <2>2
<1>7. \A i \in ToSet(page) : /\ i \in rows[k.db] /\ InScope(i, k.groups)
                             /\ after # None => Behind(k.tag, i, after)
  BY <1>4 DEF Matching
<1>8. \A i \in rows[k.db] : InScope(i, k.groups) /\ (after # None => Behind(k.tag, i, after)) =>
                              i \in ToSet(page)
  BY <1>4 DEF Matching
<1>9. /\ got \in Seq(Ids) /\ Down(k.tag, got) /\ ToSet(got) = ToSet(k.got) \cup ToSet(kept)
      /\ kept # <<>> => got # <<>> /\ got[Len(got)] = kept[Len(kept)]
  <2>1. Follows(k.tag, kept, k.got)
    BY <1>5, <1>6, <1>7 DEF Follows
  <2>2. Down(k.tag, k.got)
    BY <1>1 DEF Given
  <2>3. Joined(got, k.got, kept)
    BY DEF Joined
  <2> HIDE DEF got
  <2>4. k.got \in Seq(Ids) /\ kept \in Seq(Ids) /\ Down(k.tag, kept)
    BY <1>2, <1>6
  <2>5. /\ got \in Seq(Ids) /\ Down(k.tag, got) /\ ToSet(got) = ToSet(k.got) \cup ToSet(kept)
        /\ EndsWith(got, kept)
    <3>1. Extends(k.tag, k.got, kept, got)
      BY <2>1, <2>2, <2>3, <2>4, Zenon DEF Extends
    <3>2. Extension(k.tag, k.got, kept, got)
      BY <3>1, Extended, Zenon
    <3> QED BY <3>2, Zenon DEF Extension
  <2> QED BY <2>5 DEF EndsWith
<1> HIDE DEF got
<1>10. ASSUME NEW i \in k.stay, InScope(i, k.groups) PROVE i \in ToSet(k.got) \/ i \in ToSet(page)
  <2>1. i \in rows[k.db]
    BY <1>1, <1>10 DEF Seen
  <2>2. i \in ToSet(k.got) \/ (k.cursor # None => Behind(k.tag, i, k.cursor.pos))
    BY <1>1, <1>10 DEF ToCome
  <2> QED BY <1>5, <1>8, <1>10, <2>1, <2>2
<1>11. ToSet(got) \subseteq k.ever
  BY <1>1, <1>3, <1>6, <1>7, <1>9 DEF Given
<1>12. CASE Len(page) > n
  <2> DEFINE c == encode_cursor(k.tag, k.groups, Last(kept))
  <2>1. c \in Cursors /\ c # None /\ c.pos = kept[Len(kept)]
    <3>1. c \in Cursors /\ c.pos = kept[Len(kept)]
      BY <1>2, <1>6, <1>12 DEF Cursors, encode_cursor, shape_hash
    <3> QED BY <3>1, WalkAssumption DEF Cursors
  <2>2. c = encode_cursor(k.tag, k.groups, got[Len(got)])
    BY <1>6, <1>9, <1>12
  <2> HIDE DEF c
  <2>3. m = [k EXCEPT !.pc = "next", !.got = got, !.cursor = c]
    BY <1>12 DEF got, c
  <2>4. /\ m \in WalkRow /\ m.pc = "next" /\ m.got = got /\ m.cursor = c /\ m.tag = k.tag
        /\ m.groups = k.groups /\ m.db = k.db /\ m.stay = k.stay /\ m.ever = k.ever
    BY <1>1, <1>9, <2>1, <2>3 DEF WalkRow
  <2>5. Given(m)
    BY <1>9, <1>11, <2>4 DEF Given
  <2>6. CursorOK(m)
    BY <1>6, <1>9, <1>12, <2>1, <2>2, <2>4 DEF CursorOK
  <2>7. ToCome(m)
    BY <1>6, <1>9, <1>10, <1>12, <2>1, <2>4 DEF ToCome
  <2>8. Seen(m)
    BY <1>1, <2>4 DEF Seen
  <2> QED BY <2>4, <2>5, <2>6, <2>7, <2>8 DEF WalkOK
<1>13. CASE ~(Len(page) > n)
  <2>3. m = [k EXCEPT !.pc = "done", !.got = got, !.cursor = None]
    BY <1>13 DEF got
  <2>4. /\ m \in WalkRow /\ m.pc = "done" /\ m.got = got /\ m.tag = k.tag
        /\ m.groups = k.groups /\ m.stay = k.stay /\ m.ever = k.ever
    BY <1>1, <1>9, <2>3 DEF WalkRow
  <2>5. Given(m)
    BY <1>6, <1>9, <1>10, <1>11, <1>13, <2>4 DEF Given
  <2> QED BY <2>4, <2>5 DEF WalkOK
<1> QED BY <1>12, <1>13

-----------------------------------------------------------------------------
(* The walks.                                                              *)

\* A walk that stays as it is, in a store that does.
LEMMA StoreSame ==
  ASSUME NEW k, WalkOK(k), UNCHANGED <<db, insts, rows>>
  PROVE  WalkOK(k)'
  BY DEF WalkOK, Given, CursorOK, ToCome, Seen

\* One walk moves.
LEMMA WalkMoves ==
  ASSUME WalkInv, NEW w \in Walkers, NEW k, WalkOK(k), walk' = [walk EXCEPT ![w] = k],
         UNCHANGED <<db, insts, rows, op>>
  PROVE  WalkInv'
<1>1. DOMAIN walk' = Walkers /\ walk'[w] = k /\ \A v \in Walkers : v # w => walk'[v] = walk[v]
  BY DEF WalkInv
<1>2. StoreInv'
  BY DEF WalkInv, StoreInv, Writes
<1>3. ASSUME NEW v \in Walkers PROVE WalkOK(walk[v])'
  <2>1. PICK m : m = walk'[v]
    OBVIOUS
  <2>2. WalkOK(m)
    <3>1. CASE v = w
      BY <1>1, <2>1, <3>1
    <3>2. CASE v # w
      BY <1>1, <2>1, <3>2 DEF WalkInv
    <3> QED BY <3>1, <3>2
  <2>3. WalkOK(m)'
    BY <2>2, StoreSame
  <2> QED BY <2>1, <2>3 DEF WalkOK, Given, CursorOK, ToCome, Seen
<1> QED BY <1>1, <1>2, <1>3 DEF WalkInv

\* A walk begins with all that is there.
LEMMA BeginWalkInv ==
  ASSUME ReadsInv, WalkInv, NEW w \in Walkers, NEW tag \in Listings, NEW g \in Scopes,
         BeginWalk(w, tag, g)
  PROVE  WalkInv'
<1>1. PICK k : k = [NoWalk EXCEPT !.pc = "page", !.tag = tag, !.groups = g,
                                  !.db = db, !.stay = rows[db], !.ever = rows[db]]
  OBVIOUS
<1>2. walk' = [walk EXCEPT ![w] = k] /\ UNCHANGED <<db, insts, rows, op>> /\ db # None
  BY <1>1 DEF BeginWalk, store
<1>3. db \in Insts /\ db = insts /\ rows[db] \in SUBSET Ids
  BY <1>2 DEF ReadsInv, TypeInv, WalkInv, StoreInv
<1>4. /\ k \in WalkRow /\ k.pc = "page" /\ k.tag = tag /\ k.groups = g /\ k.cursor = None
      /\ k.db = db /\ k.got = <<>> /\ k.stay = rows[db] /\ k.ever = rows[db]
  <2>1. k = [pc |-> "page", tag |-> tag, groups |-> g, cursor |-> None, db |-> db, got |-> <<>>,
             stay |-> rows[db], ever |-> rows[db]]
    BY <1>1 DEF NoWalk
  <2>2. <<>> \in Seq(Ids)
    OBVIOUS
  <2>3. k \in WalkRow
    BY <1>3, <2>1, <2>2 DEF WalkRow
  <2> QED BY <2>1, <2>3
<1>5. Given(k)
  <2>1. DOMAIN k.got = {} /\ ToSet(k.got) = {}
    BY <1>4 DEF ToSet
  <2> QED BY <1>4, <2>1 DEF Given, Down
<1>6. CursorOK(k)
  BY <1>4 DEF CursorOK
<1>7. ToCome(k)
  BY <1>4 DEF ToCome
<1>8. Seen(k)
  <2>1. ASSUME NEW d \in Insts, d >= db PROVE rows[d] \subseteq rows[db]
    <3>1. d = db \/ d > insts
      BY <1>3, <2>1 DEF Insts
    <3> QED BY <3>1 DEF WalkInv, StoreInv
  <2>2. db <= insts
    BY <1>3 DEF Insts
  <2> QED BY <1>2, <1>3, <1>4, <2>1, <2>2 DEF Seen
<1>9. WalkOK(k)
  BY <1>4, <1>5, <1>6, <1>7, <1>8 DEF WalkOK
<1> QED BY <1>2, <1>9, WalkMoves

\* A page is read.
LEMMA ReadPageInv ==
  ASSUME WalkInv, NEW w \in Walkers, NEW n \in Limits, ReadPage(w, n)
  PROVE  WalkInv'
<1>1. PICK k : k = walk[w]
  OBVIOUS
<1>2. PICK page : page = Page(k.tag, k.db, k.groups, IF k.cursor = None THEN None ELSE k.cursor.pos)
  OBVIOUS
<1>3. PICK kept : kept = (IF Len(page) > n THEN SubSeq(page, 1, n) ELSE page)
  OBVIOUS
<1>4. PICK m : m = [k EXCEPT !.pc = IF Len(page) > n THEN "next" ELSE "done",
                            !.got = k.got \o kept,
                            !.cursor = IF Len(page) > n THEN encode_cursor(k.tag, k.groups, Last(kept))
                                       ELSE None]
  OBVIOUS
<1>5. walk' = [walk EXCEPT ![w] = m] /\ UNCHANGED <<db, insts, rows, op>> /\ k.pc = "page"
  BY <1>1, <1>2, <1>3, <1>4, Zenon DEF ReadPage, store
<1>6. WalkOK(m)
  <2>1. WalkOK(k) /\ StoreInv /\ n \in Nat \ {0}
    BY <1>1, WalkAssumption DEF WalkInv
  <2> QED BY <1>2, <1>3, <1>4, <1>5, <2>1, PageRead
<1> QED BY <1>5, <1>6, WalkMoves

\* The next page is asked for, with the query of the cursor or refused.
LEMMA NextPageInv ==
  ASSUME ReadsInv, WalkInv, NEW w \in Walkers, NEW g \in Scopes, NextPage(w, g)
  PROVE  WalkInv'
<1>1. PICK k : k = walk[w]
  OBVIOUS
<1>2. /\ k.pc = "next" /\ UNCHANGED <<db, insts, rows, op>>
      /\ WalkOK(k) /\ StoreInv
  BY <1>1 DEF NextPage, store, WalkInv
<1>3. /\ k \in WalkRow /\ Given(k) /\ CursorOK(k) /\ ToCome(k) /\ Seen(k)
  BY <1>2 DEF WalkOK
<1>4. CASE db # None /\ decode_cursor(k.cursor, k.tag, g)
  <2>1. PICK m : m = [k EXCEPT !.pc = "page", !.db = db, !.groups = g]
    OBVIOUS
  <2>2. walk' = [walk EXCEPT ![w] = m]
    BY <1>1, <1>4, <2>1, Zenon DEF NextPage
  <2>3. db \in Insts /\ db = insts
    BY <1>2, <1>4 DEF ReadsInv, TypeInv, StoreInv
  <2>4. g = k.groups
    BY <1>2, <1>3, <1>4 DEF CursorOK, decode_cursor, encode_cursor, shape_hash
  <2>5. /\ m \in WalkRow /\ m.pc = "page" /\ m.got = k.got /\ m.cursor = k.cursor /\ m.tag = k.tag
        /\ m.groups = k.groups /\ m.db = db /\ m.stay = k.stay /\ m.ever = k.ever
    BY <1>3, <2>1, <2>3, <2>4 DEF WalkRow
  <2>6. Given(m)
    BY <1>3, <2>5 DEF Given
  <2>7. CursorOK(m) /\ ToCome(m)
    BY <1>2, <1>3, <2>5 DEF CursorOK, ToCome
  <2>8. Seen(m)
    <3>1. k.db \in Insts /\ k.db <= db /\ db <= insts
      BY <1>3, <2>3 DEF Seen, Insts
    <3>2. ASSUME NEW d \in Insts, d >= db PROVE rows[d] \subseteq k.ever
      <4>1. d >= k.db
        BY <2>3, <3>1, <3>2 DEF Insts
      <4> QED BY <1>3, <4>1 DEF Seen
    <3> QED BY <1>3, <2>3, <2>5, <3>1, <3>2 DEF Seen
  <2>9. WalkOK(m)
    BY <2>5, <2>6, <2>7, <2>8 DEF WalkOK
  <2> QED BY <1>2, <2>2, <2>9, WalkMoves
<1>5. CASE ~(db # None /\ decode_cursor(k.cursor, k.tag, g))
  <2>1. PICK m : m = [k EXCEPT !.pc = "refused"]
    OBVIOUS
  <2>2. walk' = [walk EXCEPT ![w] = m]
    BY <1>1, <1>5, <2>1, Zenon DEF NextPage
  <2>3. /\ m \in WalkRow /\ m.pc = "refused" /\ m.got = k.got /\ m.tag = k.tag
        /\ m.groups = k.groups /\ m.stay = k.stay /\ m.ever = k.ever
    BY <1>3, <2>1 DEF WalkRow
  <2>4. WalkOK(m)
    BY <1>3, <2>3 DEF WalkOK, Given
  <2> QED BY <1>2, <2>2, <2>4, WalkMoves
<1> QED BY <1>4, <1>5

-----------------------------------------------------------------------------
(* The requests that write, as the walks see them.                         *)

\* The rows of a database that was opened are now others: what stayed is what is still there.
LEMMA WalkObserves ==
  ASSUME ReadsInv, StoreInv, NEW k, WalkOK(k), NEW d \in Insts, NEW now \in SUBSET Ids,
         UNCHANGED insts, rows' = [rows EXCEPT ![d] = now], UNCHANGED db,
         NEW m, m = (IF k.pc \notin {"page", "next"} THEN k
                     ELSE [k EXCEPT !.stay = IF d = db THEN k.stay \cap now ELSE k.stay,
                                    !.ever = k.ever \cup now])
  PROVE  WalkOK(m)'
<1>1. CASE k.pc \notin {"page", "next"}
  BY <1>1 DEF WalkOK, Given
<1>2. CASE k.pc \in {"page", "next"}
  <2>1. /\ k \in WalkRow /\ Given(k) /\ CursorOK(k) /\ ToCome(k) /\ Seen(k)
    BY <1>2 DEF WalkOK
  <2>2. PICK t : t = (IF d = db THEN k.stay \cap now ELSE k.stay)
    OBVIOUS
  <2>3. PICK e : e = k.ever \cup now
    OBVIOUS
  <2>4. k.stay \in SUBSET Ids /\ k.ever \in SUBSET Ids
    BY <2>1 DEF WalkRow
  <2>5. t \in SUBSET Ids /\ e \in SUBSET Ids /\ t \subseteq k.stay
    BY <2>2, <2>3, <2>4
  <2>6. m = [k EXCEPT !.stay = t, !.ever = e]
    BY <1>2, <2>2, <2>3
  <2>7. /\ m \in WalkRow /\ m.pc = k.pc /\ m.got = k.got /\ m.cursor = k.cursor /\ m.tag = k.tag
        /\ m.groups = k.groups /\ m.db = k.db /\ m.stay = t /\ m.ever = e
    BY <2>1, <2>5, <2>6 DEF WalkRow
  <2>8. Given(m)
    BY <1>2, <2>1, <2>3, <2>7 DEF Given
  <2>9. CursorOK(m)
    BY <2>1, <2>7 DEF CursorOK
  <2>10. ToCome(m)
    BY <2>1, <2>5, <2>7 DEF ToCome
  <2>11. Seen(m)'
    <3>1. \A x \in Insts : rows'[x] = IF x = d THEN now ELSE rows[x]
      BY DEF StoreInv
    <3>2. ASSUME NEW x \in Insts, x >= k.db PROVE rows'[x] \subseteq e
      BY <2>1, <2>3, <3>1, <3>2 DEF Seen
    <3>3. t = {} \/ (db # None /\ k.db = db /\ t \subseteq rows'[db])
      BY <2>1, <2>2, <3>1 DEF Seen
    <3> QED BY <2>1, <2>7, <3>2, <3>3 DEF Seen
  <2> QED BY <2>7, <2>8, <2>9, <2>10, <2>11 DEF WalkOK, Given, CursorOK, ToCome
<1> QED BY <1>1, <1>2

\* A request goes on or ends: it writes where it did, or not at all.
LEMMA OpsWrite ==
  ASSUME ReadsInv, StoreInv, NEW a \in Admins, NEW r \in OpRow, op' = [op EXCEPT ![a] = r],
         r.pc # "wait", r.pc # "idle" => r.db = op[a].db /\ op[a].pc # "idle",
         insts' \in Nat, insts <= insts', r.pc = "reopen" => db' = None,
         db' \in {db, None} \/ \A b \in Admins : b # a => op[b].pc # "reopen"
  PROVE  \A b \in Admins : Writes(op[b])'
<1>1. op'[a] = r /\ \A b \in Admins : b # a => op'[b] = op[b]
  BY DEF ReadsInv, TypeInv
<1>2. ASSUME NEW b \in Admins, op[b].pc # "idle" PROVE op[b].db <= insts'
  <2>1. op[b].db \in Nat /\ op[b].db <= insts /\ insts \in Nat
    BY <1>2 DEF ReadsInv, TypeInv, LockInv, StoreInv, Writes, Insts
  <2> QED BY <2>1
<1>3. ASSUME NEW b \in Admins PROVE Writes(op[b])'
  <2>1. CASE b = a
    BY <1>1, <1>2, <2>1 DEF Writes
  <2>2. CASE b # a
    BY <1>1, <1>2, <2>2 DEF Writes, StoreInv
  <2> QED BY <2>1, <2>2
<1> QED BY <1>3

\* The same, of the two ways a request moves.
LEMMA OpsMoveOn ==
  ASSUME ReadsInv, StoreInv, NEW a \in Admins, insts' \in Nat, insts <= insts',
         \/ Ended(a)
         \/ /\ op[a].pc # "idle"
            /\ \E l \in OpPCs \ {"idle", "wait"} : Goes(a, l) /\ (l = "reopen" => db' = None),
         db' \in {db, None} \/ \A b \in Admins : b # a => op[b].pc # "reopen"
  PROVE  \A b \in Admins : Writes(op[b])'
<1>1. CASE Ended(a)
  <2>1. NoOp \in OpRow /\ NoOp.pc = "idle" /\ op' = [op EXCEPT ![a] = NoOp]
    BY <1>1, OpEnds
  <2>2. PICK r : r = NoOp
    OBVIOUS
  <2> QED BY <2>1, <2>2, OpsWrite
<1>2. CASE /\ op[a].pc # "idle"
           /\ \E l \in OpPCs \ {"idle", "wait"} : Goes(a, l) /\ (l = "reopen" => db' = None)
  <2>1. PICK l \in OpPCs \ {"idle", "wait"} : Goes(a, l) /\ (l = "reopen" => db' = None)
    BY <1>2
  <2>2. PICK r \in OpRow : op' = [op EXCEPT ![a] = r] /\ r.pc = l /\ r.db = op[a].db
    BY <2>1, OpGoes DEF ReadsInv
  <2> QED BY <1>2, <2>1, <2>2, OpsWrite
<1> QED BY <1>1, <1>2

\* A step that leaves the rows and the walks.
LEMMA WalksStay ==
  ASSUME WalkInv, UNCHANGED <<db, insts, rows, walk>>, \A b \in Admins : Writes(op[b])'
  PROVE  WalkInv'
<1>1. StoreInv'
  BY DEF WalkInv, StoreInv
<1>2. ASSUME NEW v \in Walkers PROVE WalkOK(walk[v])'
  <2>1. PICK m : m = walk[v]
    OBVIOUS
  <2>2. WalkOK(m) /\ m = walk'[v]
    BY <2>1 DEF WalkInv
  <2>3. WalkOK(m)'
    BY <2>2, StoreSame
  <2> QED BY <2>2, <2>3 DEF WalkOK, Given, CursorOK, ToCome, Seen
<1> QED BY <1>1, <1>2 DEF WalkInv

\* A row is written or deleted.
LEMMA WriteRowWalks ==
  ASSUME ReadsInv, WalkInv, NEW a \in Admins, WriteRow(a)
  PROVE  WalkInv'
<1>1. PICK d : d = op[a].db
  OBVIOUS
<1>2. PICK now : now = (IF op[a].kind = "insert" THEN rows[d] \cup {op[a].row} ELSE rows[d] \ {op[a].row})
  OBVIOUS
<1>3. /\ op[a].pc = "wait" /\ rows' = [rows EXCEPT ![d] = now] /\ Observed(d, now)
      /\ Ended(a) /\ UNCHANGED <<db, insts>>
  BY <1>1, <1>2, Zenon DEF WriteRow
<1>4. StoreInv /\ d \in Insts /\ d <= insts /\ insts \in Nat
  BY <1>1, <1>3 DEF WalkInv, StoreInv, Writes, ReadsInv, TypeInv, LockInv
<1>5. now \in SUBSET Ids
  BY <1>1, <1>2, <1>3, <1>4 DEF StoreInv, Writes
<1>6. StoreInv'
  <2>1. \A b \in Admins : Writes(op[b])'
    BY <1>3, <1>4, OpsMoveOn
  <2>2. rows' \in [Insts -> SUBSET Ids] /\ \A x \in Insts : rows'[x] = IF x = d THEN now ELSE rows[x]
    BY <1>3, <1>4, <1>5 DEF StoreInv
  <2>3. ASSUME NEW x \in Insts, x > insts PROVE rows'[x] = {}
    <3>1. x # d
      BY <1>4, <2>3 DEF Insts
    <3> QED BY <1>4, <2>2, <2>3, <3>1 DEF StoreInv
  <2> QED BY <1>3, <1>4, <2>1, <2>2, <2>3 DEF StoreInv
<1>7. DOMAIN walk' = Walkers
  BY <1>3 DEF Observed
<1>8. ASSUME NEW v \in Walkers PROVE WalkOK(walk[v])'
  <2>1. PICK k : k = walk[v]
    OBVIOUS
  <2>2. PICK m : m = (IF k.pc \notin {"page", "next"} THEN k
                     ELSE [k EXCEPT !.stay = IF d = db THEN k.stay \cap now ELSE k.stay,
                                    !.ever = k.ever \cup now])
    OBVIOUS
  <2>3. walk'[v] = m
    BY <1>3, <2>1, <2>2, Zenon DEF Observed, Walking
  <2>4. WalkOK(k)
    BY <2>1 DEF WalkInv
  <2>5. WalkOK(m)'
    BY <1>3, <1>4, <1>5, <2>2, <2>4, WalkObserves
  <2> QED BY <2>3, <2>5 DEF WalkOK, Given, CursorOK, ToCome, Seen
<1> QED BY <1>6, <1>7, <1>8 DEF WalkInv

\* clear_all unloads the database: nothing stays.
LEMMA ClearUnloadWalks ==
  ASSUME ReadsInv, WalkInv, NEW a \in Admins, ClearUnload(a)
  PROVE  WalkInv'
<1>1. /\ db' = None /\ Observed(db, {}) /\ Goes(a, "reopen") /\ op[a].pc = "wait" /\ UNCHANGED <<insts, rows>>
  BY DEF ClearUnload, Takes
<1>2. StoreInv /\ insts \in Nat
  BY DEF WalkInv, ReadsInv, TypeInv
<1>3. StoreInv'
  <2>1. \A b \in Admins : Writes(op[b])'
    <3>1. "reopen" \in OpPCs \ {"idle", "wait"} /\ insts' \in Nat /\ insts <= insts'
      BY <1>1, <1>2 DEF OpPCs, Held
    <3> QED BY <1>1, <1>2, <3>1, OpsMoveOn
  <2> QED BY <1>1, <1>2, <2>1 DEF StoreInv
<1>4. DOMAIN walk' = Walkers
  BY <1>1 DEF Observed
<1>5. ASSUME NEW v \in Walkers PROVE WalkOK(walk[v])'
  <2>1. PICK k : k = walk[v]
    OBVIOUS
  <2>2. PICK m : m = (IF k.pc \notin {"page", "next"} THEN k ELSE [k EXCEPT !.stay = {}])
    OBVIOUS
  <2>3. WalkOK(k)
    BY <2>1 DEF WalkInv
  <2>4. walk'[v] = m
    <3>1. walk'[v] = IF k.pc \notin {"page", "next"} THEN k
                     ELSE [k EXCEPT !.stay = k.stay \cap {}, !.ever = k.ever \cup {}]
      BY <1>1, <2>1, Zenon DEF Observed, Walking
    <3>2. [k EXCEPT !.stay = k.stay \cap {}, !.ever = k.ever \cup {}] = [k EXCEPT !.stay = {}]
      <4>1. k.stay \cap {} = {} /\ k.ever \cup {} = k.ever
        BY Zenon
      <4>2. [k EXCEPT !.stay = {}, !.ever = k.ever] = [k EXCEPT !.stay = {}]
        BY <2>3 DEF WalkOK, WalkRow
      <4> QED BY <4>1, <4>2, Zenon
    <3> QED BY <2>2, <3>1, <3>2, Zenon
  <2>5. WalkOK(m)'
    <3>1. CASE k.pc \notin {"page", "next"}
      BY <2>2, <2>3, <3>1 DEF WalkOK, Given
    <3>2. CASE k.pc \in {"page", "next"}
      <4>1. /\ k \in WalkRow /\ Given(k) /\ CursorOK(k) /\ ToCome(k) /\ Seen(k)
        BY <2>3, <3>2 DEF WalkOK
      <4>2. /\ m \in WalkRow /\ m.pc = k.pc /\ m.got = k.got /\ m.cursor = k.cursor /\ m.tag = k.tag
            /\ m.groups = k.groups /\ m.db = k.db /\ m.stay = {} /\ m.ever = k.ever
        BY <2>2, <3>2, <4>1 DEF WalkRow
      <4>3. Given(m) /\ CursorOK(m) /\ ToCome(m)
        BY <3>2, <4>1, <4>2 DEF Given, CursorOK, ToCome
      <4>4. Seen(m)'
        BY <1>1, <4>1, <4>2 DEF Seen
      <4> QED BY <4>2, <4>3, <4>4 DEF WalkOK, Given, CursorOK, ToCome
    <3> QED BY <3>1, <3>2
  <2> QED BY <2>4, <2>5 DEF WalkOK, Given, CursorOK, ToCome, Seen
<1> QED BY <1>3, <1>4, <1>5 DEF WalkInv

\* A fresh database is empty, and no walk had rows that stayed.
LEMMA ClearReopenWalks ==
  ASSUME ReadsInv, WalkInv, NEW a \in Admins, ClearReopen(a), ReadsInv'
  PROVE  WalkInv'
<1>1. /\ op[a].pc = "reopen" /\ UNCHANGED <<rows, walk>> /\ StoreInv /\ insts \in Nat /\ insts' \in Nat
  BY DEF ClearReopen, WalkInv, ReadsInv, TypeInv
<1>2. CASE Ended(a) /\ UNCHANGED <<db, insts>>
  <2>1. \A b \in Admins : Writes(op[b])'
    BY <1>1, <1>2, OpsMoveOn
  <2> QED BY <1>1, <1>2, <2>1, WalksStay
<1>3. CASE db' = insts + 1 /\ insts' = insts + 1 /\ Goes(a, "reset")
  <2>1. \A b \in Admins : Writes(op[b])'
    <3>1. "reset" \in OpPCs \ {"idle", "wait"} /\ insts <= insts'
      BY <1>1, <1>3 DEF OpPCs, Held
    <3>2. \A b \in Admins : b # a => op[b].pc # "reopen"
      BY <1>1 DEF ReadsInv, LockInv, Held
    <3> QED BY <1>1, <1>3, <3>1, <3>2, OpsMoveOn
  <2>2. StoreInv'
    <3>1. ASSUME NEW x \in Insts, x > insts' PROVE rows[x] = {}
      <4>1. x > insts
        BY <1>1, <1>3, <3>1 DEF Insts
      <4> QED BY <1>1, <3>1, <4>1 DEF StoreInv
    <3> QED BY <1>1, <1>3, <2>1, <3>1 DEF StoreInv
  <2>3. db = None
    BY <1>1 DEF StoreInv, Writes
  <2>4. ASSUME NEW v \in Walkers PROVE WalkOK(walk[v])'
    <3>1. PICK k : k = walk[v]
      OBVIOUS
    <3>2. WalkOK(k) /\ k = walk'[v]
      BY <1>1, <3>1 DEF WalkInv
    <3>3. (k.pc \in {"page", "next"} => Seen(k)) => (k.pc \in {"page", "next"} => Seen(k)')
      <4> SUFFICES ASSUME Seen(k) PROVE Seen(k)'
        OBVIOUS
      <4>1. k.db <= insts'
        BY <1>1, <1>3 DEF Seen, Insts
      <4>2. k.stay = {}
        BY <2>3 DEF Seen
      <4> QED BY <1>1, <4>1, <4>2 DEF Seen
    <3> QED BY <3>2, <3>3 DEF WalkOK, Given, CursorOK, ToCome
  <2> QED BY <1>1, <2>2, <2>4 DEF WalkInv
<1> QED BY <1>2, <1>3 DEF ClearReopen

\* A request that begins has the database that is served.
LEMMA BeginOpWalks ==
  ASSUME ReadsInv, WalkInv, NEW a \in Admins, NEW kind \in Ops, NEW i \in Written, BeginOp(a, kind, i)
  PROVE  WalkInv'
<1>1. PICK r : r = [pc |-> "wait", kind |-> kind, db |-> db,
                    row |-> IF kind \in {"insert", "delete"} THEN i ELSE 0]
  OBVIOUS
<1>2. op' = [op EXCEPT ![a] = r] /\ db # None /\ UNCHANGED <<db, insts, rows, walk>>
  BY <1>1 DEF BeginOp
<1>3. op'[a] = r /\ \A b \in Admins : b # a => op'[b] = op[b]
  BY <1>2 DEF ReadsInv, TypeInv
<1>4. insts \in Nat /\ db = insts /\ i \in Ids
  BY <1>2, WalkAssumption DEF ReadsInv, TypeInv, WalkInv, StoreInv
<1>5. ASSUME NEW b \in Admins PROVE Writes(op[b])'
  <2>1. CASE b = a
    BY <1>1, <1>2, <1>3, <1>4, <2>1 DEF Writes
  <2>2. CASE b # a
    BY <1>2, <1>3, <2>2 DEF Writes, WalkInv, StoreInv
  <2> QED BY <2>1, <2>2
<1> QED BY <1>2, <1>5, WalksStay

\* The steps that build and drop indexes do not touch a row.
LEMMA IndexWalks ==
  ASSUME ReadsInv, WalkInv, NEW a \in Admins,
         \/ ClearReset(a) \/ BuildTake(a) \/ BuildMake(a) \/ BuildFlag(a)
         \/ SummaryTake(a) \/ SummaryEnd(a) \/ RebuildTake(a) \/ RebuildEnd(a)
  PROVE  WalkInv'
<1>1. /\ UNCHANGED <<db, insts, rows, walk>>
      /\ \/ Ended(a)
         \/ op[a].pc # "idle" /\ \E l \in {"build", "built", "unbuilt", "nothing", "embed", "replay"} : Goes(a, l)
  <2>1. CASE ClearReset(a) \/ BuildFlag(a) \/ SummaryEnd(a) \/ RebuildEnd(a)
    BY <2>1, Zenon DEF ClearReset, BuildFlag, SummaryEnd, RebuildEnd
  <2>2. CASE BuildTake(a)
    <3>1. UNCHANGED <<db, insts, rows, walk>> /\ op[a].pc = "wait" /\ Goes(a, "build")
      BY <2>2, Zenon DEF BuildTake, Takes
    <3> QED BY <3>1
  <2>3. CASE BuildMake(a)
    <3>1. /\ UNCHANGED <<db, insts, rows, walk>> /\ op[a].pc = "build"
          /\ Goes(a, "built") \/ Goes(a, "unbuilt")
      BY <2>3, Zenon DEF BuildMake
    <3> QED BY <3>1
  <2>4. CASE SummaryTake(a)
    <3>1. /\ UNCHANGED <<db, insts, rows, walk>> /\ op[a].pc = "wait"
          /\ Goes(a, "nothing") \/ Goes(a, "embed")
      BY <2>4, Zenon DEF SummaryTake, Takes
    <3> QED BY <3>1
  <2>5. CASE RebuildTake(a)
    <3>1. UNCHANGED <<db, insts, rows, walk>> /\ op[a].pc = "wait" /\ Goes(a, "replay")
      BY <2>5, Zenon DEF RebuildTake, Takes
    <3> QED BY <3>1
  <2> QED BY <2>1, <2>2, <2>3, <2>4, <2>5
<1>2. {"build", "built", "unbuilt", "nothing", "embed", "replay"} \subseteq OpPCs \ {"idle", "wait", "reopen"}
  BY DEF OpPCs, Held
<1>3. StoreInv /\ insts' \in Nat /\ insts <= insts'
  BY <1>1 DEF WalkInv, ReadsInv, TypeInv
<1>4. \A b \in Admins : Writes(op[b])'
  BY <1>1, <1>2, <1>3, OpsMoveOn
<1> QED BY <1>1, <1>4, WalksStay

-----------------------------------------------------------------------------
(* The walks' invariant, and what it says of them.                         *)

\* A process starts with some rows, no request and no walk.
LEMMA WalkInit == Init => WalkInv
  <1> SUFFICES ASSUME Init PROVE WalkInv
    OBVIOUS
  <1>1. StoreInv
    <2>1. PICK r \in Contents : rows = [d \in Insts |-> IF d = 1 THEN r ELSE {}]
      BY Zenon DEF Init
    <2>2. r \in SUBSET Ids
      BY WalkAssumption
    <2>3. db = 1 /\ insts = 1 /\ op = [a \in Admins |-> NoOp]
      BY Zenon DEF Init
    <2>4. rows \in [Insts -> SUBSET Ids] /\ \A d \in Insts : d > insts => rows[d] = {}
      BY <2>1, <2>2, <2>3
    <2>5. \A a \in Admins : Writes(op[a])
      BY <2>3 DEF Writes, NoOp
    <2> QED BY <2>3, <2>4, <2>5 DEF StoreInv
  <1>2. walk = [w \in Walkers |-> NoWalk]
    BY Zenon DEF Init
  <1>3. WalkOK(NoWalk)
    <2>1. /\ NoWalk.pc = "idle" /\ NoWalk.got = <<>> /\ NoWalk.ever = {}
      BY DEF NoWalk
    <2>2. NoWalk \in WalkRow
      <3>1. <<>> \in Seq(Ids)
        OBVIOUS
      <3> QED BY <3>1 DEF NoWalk, WalkRow, Listings
    <2>3. DOMAIN NoWalk.got = {} /\ ToSet(NoWalk.got) = {}
      BY <2>1 DEF ToSet
    <2> QED BY <2>1, <2>2, <2>3 DEF WalkOK, Given, Down
  <1> QED BY <1>1, <1>2, <1>3 DEF WalkInv

\* Every step keeps it.
LEMMA WalkNext == ReadsInv /\ WalkInv /\ [Next]_vars => WalkInv'
  <1> SUFFICES ASSUME ReadsInv, WalkInv, [Next]_vars PROVE WalkInv'
    OBVIOUS
  <1>1. ASSUME UNCHANGED <<db, insts, rows, walk, op>> PROVE WalkInv'
    <2>1. \A b \in Admins : Writes(op[b])'
      BY <1>1 DEF WalkInv, StoreInv, Writes
    <2> QED BY <1>1, <2>1, WalksStay
  <1>2. ASSUME NEW w \in Walkers, Walk(w) PROVE WalkInv'
    BY <1>2, BeginWalkInv, ReadPageInv, NextPageInv DEF Walk
  <1>3. ASSUME NEW f \in Finders, Search(f) PROVE WalkInv'
    <2>1. UNCHANGED <<db, insts, rows, walk, op>>
      BY <1>3, Zenon DEF Search, QueryIndex, AnswerFind, MissingIndex, build_indices_once, RetryFind, store
    <2> QED BY <1>1, <2>1
  <1>4. ASSUME NEW f \in Finders, NEW k, NEW g, NEW n, NEW fl, BeginFind(f, k, g, n, fl) PROVE WalkInv'
    <2>1. UNCHANGED <<db, insts, rows, walk, op>>
      BY <1>4, Zenon DEF BeginFind, store
    <2> QED BY <1>1, <2>1
  <1>5. ASSUME NEW a \in Admins, Administer(a) PROVE WalkInv'
    <2>1. CASE ClearReopen(a)
      <3>1. ReadsInv'
        BY <2>1, ClearInv
      <3> QED BY <2>1, <3>1, ClearReopenWalks
    <2>2. CASE ~ClearReopen(a)
      BY <1>5, <2>2, WriteRowWalks, ClearUnloadWalks, IndexWalks DEF Administer
    <2> QED BY <2>1, <2>2
  <1>6. CASE UNCHANGED vars
    BY <1>1, <1>6, Zenon DEF vars, store
  <1>7. CASE Next
    BY <1>2, <1>3, <1>4, <1>5, <1>7, BeginOpWalks DEF Next
  <1> QED BY <1>6, <1>7

\* PagesExact (read_page.rs, handle_list_entities and handle_get_episodes): a walk has given
\* rows in the order of its listing, each once and none that never was there, and when it
\* ends every row of its query that was there all the time, whatever was inserted, deleted
\* or cleared between its pages; for every set of rows, of times they may share, of page
\* sizes, of clients and of queries, and every bound.
THEOREM WalksExact == Spec => []PagesExact
  <1>1. WalkInv => PagesExact
    BY DEF WalkInv, WalkOK, Given, Down, PagesExact
  <1> QED BY <1>1, ReadsInit, ReadsNext, WalkInit, WalkNext, PTL DEF Spec

=============================================================================
