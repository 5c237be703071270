-------------------------------- MODULE Reads --------------------------------
(***************************************************************************)
(* Reading while the graph changes. A client walks a listing page by page  *)
(* with a cursor, each page read under the shared lock; a search queries   *)
(* one index after another without a lock, fuses the ranked lists and, when*)
(* an index is missing, has the indexes built once and tries again. Writes,*)
(* clear_all and three operations that drop or build indexes interleave.   *)
(***************************************************************************)
EXTENDS Integers, Sequences, FiniteSets, SequencesExt

CONSTANTS
    Ids,        \* rows, in the order of their uuids (integers)
    Group,      \* Group[i]: the group of a row
    At,         \* At[i]: created_at of a row, which several may share
    Order,      \* Order[x]: the rows in the order in which index x ranks them
    Near,       \* the rows whose vectors pass a similarity floor
    Scopes,     \* the sets of groups that are asked for; {} asks for all
    Limits,     \* page sizes
    Tops,       \* numbers of results a search is asked for
    Floors,     \* whether a search names a similarity floor
    Overdraw,   \* candidates per result: 3 in the code
    Walkers,    \* clients that walk a listing
    Finders,    \* clients that search
    Admins,     \* requests that write
    Ops,        \* what the writing requests do
    MaxOps,     \* bound: writing requests
    MaxReads,   \* bound: walks and searches
    Written,    \* the rows that are inserted or deleted
    Contents,   \* the rows a database of an earlier run may hold
    None

ASSUME ReadsAssumption ==
    /\ IsFiniteSet(Admins) /\ None \notin Admins /\ None \notin Nat
    /\ MaxOps \in Nat

VARIABLES
    db,         \* the database served, or None
    insts,      \* databases opened so far
    rows,       \* rows[d]: the rows of database d
    index,      \* index[d]: the indexes of database d
    built,      \* indices_built
    lock,       \* the request that holds the write lock
    op,         \* op[a]: what a writing request is doing
    walk,       \* walk[w]: the walk a client is on
    find,       \* find[f]: the search a client is in
    misled,     \* history: built was set over a database without its indexes
    ops,        \* writing requests so far
    reads       \* walks and searches so far

store == <<db, insts, rows, index, built, lock, op, misled, ops>>
vars == <<store, walk, find, reads>>

Insts == 1..(MaxOps + 1)

-----------------------------------------------------------------------------
(* read_page.rs and the listings of handlers.rs.                           *)

Listings == {"entities", "episodes"}

(* No groups, an empty list of groups: everything.                         *)
InScope(i, groups) == groups = {} \/ Group[i] \in groups

(* Two requests with one shape list the same rows.                         *)
shape_hash(tag, groups) == <<tag, groups>>

encode_cursor(tag, groups, i) == [tag |-> tag, shape |-> shape_hash(tag, groups), pos |-> i]

(* Uuids are ordered, created_at is a time, a page has room for a row, and *)
(* a cursor is there or not.                                               *)
ASSUME WalkAssumption ==
    /\ Ids \subseteq Int /\ IsFiniteSet(Ids) /\ At \in [Ids -> Int]
    /\ Written \subseteq Ids /\ Contents \subseteq SUBSET Ids
    /\ Limits \subseteq Nat \ {0}
    /\ None \notin Ids
    /\ None \notin [tag : Listings, shape : Listings \X (Scopes \cup {{}}), pos : Ids]

(* Mutant: a cursor is taken by any listing of its kind.                   *)
decode_any(cursor, tag, groups) == cursor = None \/ cursor.tag = tag

(* A cursor belongs to the query it was made for.                          *)
decode_cursor(cursor, tag, groups) ==
    cursor = None \/ (cursor.tag = tag /\ cursor.shape = shape_hash(tag, groups))

(* Mutant: episodes of one instant are passed over.                        *)
NewerOnly(tag, i, j) == IF tag = "entities" THEN i < j ELSE At[i] < At[j]

(* ORDER BY uuid DESC; for episodes ORDER BY created_at DESC, uuid DESC.   *)
Behind(tag, i, j) ==
    IF tag = "entities" THEN i < j ELSE At[i] < At[j] \/ (At[i] = At[j] /\ i < j)

Matching(tag, d, groups, after) ==
    {i \in rows[d] : InScope(i, groups) /\ (after # None => Behind(tag, i, after))}

list_entities_page(d, groups, after) ==
    LET all == Matching("entities", d, groups, after)
    IN CHOOSE page \in [1..Cardinality(all) -> all] :
          \A x, y \in DOMAIN page : x < y => page[y] < page[x]

retrieve_episodes_page(d, groups, after) ==
    LET all == Matching("episodes", d, groups, after)
    IN CHOOSE page \in [1..Cardinality(all) -> all] :
          \A x, y \in DOMAIN page : x < y =>
             At[page[y]] < At[page[x]] \/ (At[page[y]] = At[page[x]] /\ page[y] < page[x])

Page(tag, d, groups, after) ==
    IF tag = "entities" THEN list_entities_page(d, groups, after) ELSE retrieve_episodes_page(d, groups, after)

Reading == reads < MaxReads /\ reads' = reads + 1

NoWalk == [pc |-> "idle", tag |-> "entities", groups |-> {}, cursor |-> None, db |-> None,
           got |-> <<>>, stay |-> {}, ever |-> {}]

(* One listing is begun: stay and ever record what was there all the time, *)
(* and what was there at some time, of the walk.                           *)
BeginWalk(w, tag, groups) ==
    /\ walk[w].pc \notin {"page", "next"} /\ db # None /\ Reading
    /\ walk' = [walk EXCEPT ![w] = [NoWalk EXCEPT !.pc = "page", !.tag = tag, !.groups = groups,
                                        !.db = db, !.stay = rows[db], !.ever = rows[db]]]
    /\ UNCHANGED <<store, find>>

(* handle_list_entities, handle_get_episodes: one row more than asked for  *)
(* tells whether there is a next page.                                     *)
ReadPage(w, n) ==
    /\ walk[w].pc = "page" /\ lock = None
    /\ LET k == walk[w]
           page == Page(k.tag, k.db, k.groups, IF k.cursor = None THEN None ELSE k.cursor.pos)
           more == Len(page) > n
           kept == IF more THEN SubSeq(page, 1, n) ELSE page
       IN walk' = [walk EXCEPT ![w] = [k EXCEPT
                      !.pc = IF more THEN "next" ELSE "done",
                      !.got = @ \o kept,
                      !.cursor = IF more THEN encode_cursor(k.tag, k.groups, Last(kept)) ELSE None]]
    /\ UNCHANGED <<store, find, reads>>

(* The client asks for the next page, with the query of the cursor or with *)
(* another one, which is refused. The database is loaded before the lock.  *)
NextPage(w, groups) ==
    /\ walk[w].pc = "next"
    /\ LET k == walk[w]
       IN walk' = [walk EXCEPT ![w] =
              IF db # None /\ decode_cursor(k.cursor, k.tag, groups)
              THEN [@ EXCEPT !.pc = "page", !.db = db, !.groups = groups]
              ELSE [@ EXCEPT !.pc = "refused"]]
    /\ UNCHANGED <<store, find, reads>>

-----------------------------------------------------------------------------
(* search.rs.                                                              *)

IndexesOf(kind) ==
    CASE kind = "entities" -> <<"node_fts", "name", "summary">>
      [] kind = "relationships" -> <<"edge_fts", "fact">>
      [] OTHER -> <<"content">>

VectorIndexes == {"name", "summary", "fact", "content"}
TextIndexes == {"node_fts", "edge_fts"}
AllIndexes == VectorIndexes \cup TextIndexes

First(s, n) == SubSeq(s, 1, IF Len(s) < n THEN Len(s) ELSE n)
InGroups(s, groups) == SelectSeq(s, LAMBDA i : InScope(i, groups))

(* fts_search_*: ranked, filtered, limited.                                *)
fts_search(x, d, groups, n) == First(InGroups(SelectSeq(Order[x], LAMBDA i : i \in rows[d]), groups), n)

(* vector_search_*: the index yields its n nearest, of whatever group, and *)
(* the filter comes after.                                                 *)
vector_search(x, d, groups, n) == InGroups(First(SelectSeq(Order[x], LAMBDA i : i \in rows[d]), n), groups)

apply_similarity_floor(s, floor) == IF floor THEN SelectSeq(s, LAMBDA i : i \in Near) ELSE s

Candidates(x, k) ==
    IF x \in TextIndexes THEN fts_search(x, k.db, k.groups, Overdraw * k.n)
    ELSE apply_similarity_floor(vector_search(x, k.db, k.groups, Overdraw * k.n), k.floor)

RankIn(s, i) == CHOOSE r \in 1..Len(s) : s[r] = i
Listed(s, i) == \E r \in 1..Len(s) : s[r] = i

(* 1 / (60 + rank), over a common denominator for the first four ranks.    *)
Weight(s, i) == IF Listed(s, i) THEN (60 * 61 * 62 * 63) \div (59 + RankIn(s, i)) ELSE 0

Score(lists, i) == FoldLeft(LAMBDA sum, s : sum + Weight(s, i), 0, lists)

rrf_rank(lists) ==
    SetToSortSeq(UNION {ToSet(lists[l]) : l \in DOMAIN lists},
                 LAMBDA i, j : Score(lists, i) > Score(lists, j)
                                 \/ (Score(lists, i) = Score(lists, j) /\ i < j))

(* Mutant: rows are left in the order in which the database returns them.  *)
fetch_order(found, ranked) == SetToSortSeq(found, LAMBDA i, j : i < j)

order_by_rank(found, ranked) == SelectSeq(ranked, LAMBDA i : i \in found)

NoFind == [pc |-> "idle", kind |-> "entities", groups |-> {}, n |-> 0, floor |-> FALSE, db |-> None,
           lists |-> <<>>, retry |-> FALSE, hits |-> <<>>, raced |-> FALSE]

Searching(f) == find[f].pc \notin {"idle", "done", "error"}

(* The database is loaded, then the query is embedded.                     *)
load_db(k) == IF db = None THEN [k EXCEPT !.pc = "error", !.raced = TRUE]
              ELSE [k EXCEPT !.pc = "search", !.db = db, !.lists = <<>>]

(* handle_find_entities, handle_find_relationships, handle_search_passages.*)
BeginFind(f, kind, groups, n, floor) ==
    /\ ~Searching(f) /\ Reading
    /\ find' = [find EXCEPT ![f] = load_db([NoFind EXCEPT !.kind = kind, !.groups = groups,
                                                          !.n = n, !.floor = floor, !.raced = lock # None])]
    /\ UNCHANGED <<store, walk>>

(* One index is queried, without a lock.                                   *)
QueryIndex(f) ==
    /\ find[f].pc = "search" /\ Len(find[f].lists) < Len(IndexesOf(find[f].kind))
    /\ LET k == find[f]
           x == IndexesOf(k.kind)[Len(k.lists) + 1]
       IN find' = [find EXCEPT ![f] =
              IF x \in index[k.db] THEN [k EXCEPT !.lists = Append(@, Candidates(x, k))]
              ELSE [k EXCEPT !.pc = IF k.retry THEN "error" ELSE "missing"]]
    /\ UNCHANGED <<store, walk, reads>>

(* The fused top is fetched: what was deleted meanwhile drops out.         *)
AnswerFind(f) ==
    /\ find[f].pc = "search" /\ Len(find[f].lists) = Len(IndexesOf(find[f].kind))
    /\ LET k == find[f]
           top == First(rrf_rank(k.lists), k.n)
       IN find' = [find EXCEPT ![f] = [@ EXCEPT !.pc = "done",
                                          !.hits = order_by_rank(ToSet(top) \cap rows[k.db], top)]]
    /\ UNCHANGED <<store, walk, reads>>

(* An index is missing: with indices_built set that is an error.           *)
MissingIndex(f) ==
    /\ find[f].pc = "missing"
    /\ find' = [find EXCEPT ![f].pc = IF built THEN "error" ELSE "heal"]
    /\ UNCHANGED <<store, walk, reads>>

RetryFind(f) ==
    /\ find[f].pc = "again"
    /\ find' = [find EXCEPT ![f] = load_db([@ EXCEPT !.retry = TRUE])]
    /\ UNCHANGED <<store, walk, reads>>

(* The search goes on; one that builds the indexes disturbs the others: who*)
(* missed an index before and asks for the flag after is given the error.  *)
Healed(f) ==
    find' = [g \in Finders |-> IF g = f THEN [find[g] EXCEPT !.pc = "again"]
                               ELSE [find[g] EXCEPT !.raced = @ \/ (~built /\ Searching(g))]]

(* Mutant: the indexes are built in the database the search began with.    *)
BuildLoaded(f) ==
    /\ find[f].pc = "heal" /\ lock = None
    /\ built' = TRUE
    /\ index' = IF built THEN index ELSE [index EXCEPT ![find[f].db] = AllIndexes]
    /\ Healed(f)
    /\ UNCHANGED <<db, insts, rows, lock, op, misled, ops, walk, reads>>

(* Under the write lock, in the database served by then, and only if nobody*)
(* built them while this search waited. A build may fail.                  *)
build_indices_once(f) ==
    /\ find[f].pc = "heal" /\ lock = None
    /\ \/ /\ built \/ db # None
          /\ built' = TRUE
          /\ index' = IF built THEN index ELSE [index EXCEPT ![db] = AllIndexes]
          /\ Healed(f)
       \/ /\ ~built
          /\ find' = [find EXCEPT ![f] = [@ EXCEPT !.pc = "error", !.raced = TRUE]]
          /\ UNCHANGED <<built, index>>
    /\ UNCHANGED <<db, insts, rows, lock, op, misled, ops, walk, reads>>

-----------------------------------------------------------------------------
(* The requests that write.                                                *)

NoOp == [pc |-> "idle", kind |-> None, db |-> None, row |-> 0]

(* What the walks see of a change: the rows of database d are now these.   *)
Walking(w) == walk[w].pc \in {"page", "next"}
Observed(d, now) ==
    walk' = [w \in Walkers |->
                IF ~Walking(w) THEN walk[w]
                ELSE [walk[w] EXCEPT !.stay = IF d = db THEN @ \cap now ELSE @, !.ever = @ \cup now]]

(* An index may be missing for a search that is under way.                 *)
Disturbed == find' = [f \in Finders |-> [find[f] EXCEPT !.raced = @ \/ Searching(f)]]

BeginOp(a, kind, i) ==
    /\ op[a].pc = "idle" /\ ops < MaxOps /\ db # None
    /\ op' = [op EXCEPT ![a] = [pc |-> "wait", kind |-> kind, db |-> db,
                                row |-> IF kind \in {"insert", "delete"} THEN i ELSE 0]]
    /\ ops' = ops + 1
    /\ UNCHANGED <<db, insts, rows, index, built, lock, walk, find, misled, reads>>

Ended(a) == op' = [op EXCEPT ![a] = NoOp]

(* A row is written or deleted, in the database loaded before the lock.    *)
WriteRow(a) ==
    /\ op[a].pc = "wait" /\ op[a].kind \in {"insert", "delete"} /\ lock = None
    /\ LET now == IF op[a].kind = "insert" THEN rows[op[a].db] \cup {op[a].row}
                  ELSE rows[op[a].db] \ {op[a].row}
       IN /\ rows' = [rows EXCEPT ![op[a].db] = now]
          /\ Observed(op[a].db, now)
    /\ Ended(a)
    /\ UNCHANGED <<db, insts, index, built, lock, find, misled, ops, reads>>

(* The others take the lock for several steps.                             *)
Takes(a, kind) == op[a].pc = "wait" /\ op[a].kind = kind /\ lock = None /\ lock' = a
Goes(a, pc) == op' = [op EXCEPT ![a].pc = pc]

(* handle_clear_all: the database is unloaded, a fresh one is stored, and  *)
(* then the flag is reset. When the fresh one fails there is none.         *)
ClearUnload(a) ==
    /\ Takes(a, "clear")
    /\ db' = None /\ Observed(db, {}) /\ Disturbed /\ Goes(a, "reopen")
    /\ UNCHANGED <<insts, rows, index, built, misled, ops, reads>>

ClearReopen(a) ==
    /\ op[a].pc = "reopen"
    /\ \/ /\ db' = insts + 1 /\ insts' = insts + 1
          /\ Goes(a, "reset") /\ UNCHANGED lock
       \/ /\ Ended(a) /\ lock' = None
          /\ UNCHANGED <<db, insts>>
    /\ UNCHANGED <<rows, index, built, walk, find, misled, ops, reads>>

ClearReset(a) ==
    /\ op[a].pc = "reset"
    /\ built' = FALSE /\ lock' = None /\ Disturbed /\ Ended(a)
    /\ UNCHANGED <<db, insts, rows, index, walk, misled, ops, reads>>

(* handle_build_indices: the flag is set after the lock is released.       *)
BuildTake(a) ==
    /\ Takes(a, "build")
    /\ built' = FALSE /\ Disturbed /\ Goes(a, "build")
    /\ UNCHANGED <<db, insts, rows, index, walk, misled, ops, reads>>

BuildMake(a) ==
    /\ op[a].pc = "build"
    /\ \/ index' = [index EXCEPT ![op[a].db] = AllIndexes] /\ Goes(a, "built")
       \/ Goes(a, "unbuilt") /\ UNCHANGED index
    /\ lock' = None
    /\ UNCHANGED <<db, insts, rows, built, walk, find, misled, ops, reads>>

Incomplete == db # None /\ index[db] # AllIndexes

BuildFlag(a) ==
    /\ op[a].pc \in {"built", "unbuilt"}
    /\ built' = (op[a].pc = "built")
    /\ misled' = (misled \/ (op[a].pc = "built" /\ Incomplete))
    /\ Disturbed /\ Ended(a)
    /\ UNCHANGED <<db, insts, rows, index, lock, walk, ops, reads>>

(* backfill_summary_embeddings: one index is dropped and created around the*)
(* writes; without a row to write nothing is done; when the embedder fails *)
(* the index stays dropped.                                                *)
SummaryTake(a) ==
    /\ Takes(a, "summaries")
    /\ IF rows[op[a].db] = {} THEN Goes(a, "nothing") /\ UNCHANGED <<built, index, find>>
       ELSE /\ built' = FALSE /\ Disturbed /\ Goes(a, "embed")
            /\ index' = [index EXCEPT ![op[a].db] = @ \ {"summary"}]
    /\ UNCHANGED <<db, insts, rows, walk, misled, ops, reads>>

SummaryEnd(a) ==
    /\ op[a].pc \in {"nothing", "embed"}
    /\ \/ /\ op[a].pc = "embed"
          /\ index' = [index EXCEPT ![op[a].db] = @ \cup {"summary"}]
          /\ built' = TRUE
          /\ misled' = (misled \/ (IF op[a].db = db THEN index'[db] # AllIndexes ELSE Incomplete))
          /\ Disturbed
       \/ UNCHANGED <<index, built, misled, find>>
    /\ lock' = None /\ Ended(a)
    /\ UNCHANGED <<db, insts, rows, walk, ops, reads>>

(* handle_rebuild_from_wal: the vector indexes are dropped, the group's    *)
(* rows replayed as they were, all indexes built; or the build fails.      *)
RebuildTake(a) ==
    /\ Takes(a, "rebuild")
    /\ built' = FALSE /\ Disturbed /\ Goes(a, "replay")
    /\ index' = [index EXCEPT ![op[a].db] = @ \ VectorIndexes]
    /\ UNCHANGED <<db, insts, rows, walk, misled, ops, reads>>

RebuildEnd(a) ==
    /\ op[a].pc = "replay"
    /\ \/ /\ index' = [index EXCEPT ![op[a].db] = AllIndexes]
          /\ built' = TRUE
          /\ misled' = (misled \/ (op[a].db # db /\ Incomplete))
       \/ built' = FALSE /\ UNCHANGED <<index, misled>>
    /\ lock' = None /\ Disturbed /\ Ended(a)
    /\ UNCHANGED <<db, insts, rows, walk, ops, reads>>

-----------------------------------------------------------------------------

(* A database of an earlier run, with some rows: its indexes are built     *)
(* before the first request is served, and the flag says so.               *)
Init ==
    /\ db = 1 /\ insts = 1
    /\ \E r \in Contents : rows = [d \in Insts |-> IF d = 1 THEN r ELSE {}]
    /\ index = [d \in Insts |-> IF d = 1 THEN AllIndexes ELSE {}]
    /\ built = TRUE /\ lock = None /\ misled = FALSE
    /\ op = [a \in Admins |-> NoOp] /\ walk = [w \in Walkers |-> NoWalk] /\ find = [f \in Finders |-> NoFind]
    /\ ops = 0 /\ reads = 0

Walk(w) ==
    \/ \E tag \in Listings, g \in Scopes : BeginWalk(w, tag, g)
    \/ \E n \in Limits : ReadPage(w, n)
    \/ \E g \in Scopes : NextPage(w, g)

Search(f) ==
    QueryIndex(f) \/ AnswerFind(f) \/ MissingIndex(f) \/ build_indices_once(f) \/ RetryFind(f)

Administer(a) ==
    \/ WriteRow(a) \/ ClearUnload(a) \/ ClearReopen(a) \/ ClearReset(a)
    \/ BuildTake(a) \/ BuildMake(a) \/ BuildFlag(a)
    \/ SummaryTake(a) \/ SummaryEnd(a) \/ RebuildTake(a) \/ RebuildEnd(a)

Next ==
    \/ \E w \in Walkers : Walk(w)
    \/ \E f \in Finders : Search(f) \/ \E k \in {"entities", "relationships", "passages"},
           g \in Scopes, n \in Tops, fl \in Floors : BeginFind(f, k, g, n, fl)
    \/ \E a \in Admins : Administer(a) \/ \E k \in Ops, i \in Written : BeginOp(a, k, i)

Spec == Init /\ [][Next]_vars

-----------------------------------------------------------------------------
(* Properties.                                                             *)

(* A walk that ends has given every row of its query that was there all the*)
(* time exactly once, in order, and nothing that never was there, whatever *)
(* was inserted, deleted or cleared between its pages, and although rows   *)
(* may share their created_at.                                             *)
PagesExact ==
    \A w \in Walkers :
        LET k == walk[w]
        IN /\ \A x, y \in DOMAIN k.got : x < y => Behind(k.tag, k.got[y], k.got[x])
           /\ ToSet(k.got) \subseteq k.ever
           /\ k.pc = "done" => {i \in k.stay : InScope(i, k.groups)} \subseteq ToSet(k.got)

(* A search answers with an error about a missing index only if another    *)
(* request dropped or built an index or replaced the database while it ran,*)
(* its own build failed, or the flag had been set over a database without  *)
(* its indexes: otherwise it heals them and answers.                       *)
FindsHeal == \A f \in Finders : find[f].pc = "error" => find[f].raced \/ misled

(* Of two rows in an answer, the one that no index ranks behind the other, *)
(* and one ranks before it, comes first, although rows vanish between the  *)
(* queries and the fetch.                                                  *)
Dominates(lists, i, j) ==
    /\ i # j
    /\ \A l \in DOMAIN lists : Listed(lists[l], j) =>
          Listed(lists[l], i) /\ RankIn(lists[l], i) < RankIn(lists[l], j)
RankedByEvidence ==
    \A f \in Finders :
        LET k == find[f]
        IN k.pc = "done" => \A x, y \in DOMAIN k.hits : x < y => ~Dominates(k.lists, k.hits[y], k.hits[x])

=============================================================================
