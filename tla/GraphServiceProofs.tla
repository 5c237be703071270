------------------------- MODULE GraphServiceProofs -------------------------
(***************************************************************************)
(* What GraphService guarantees for every set of groups, requests, tasks   *)
(* and every bound: the state is well typed, the write_lock excludes, the  *)
(* seqs of every stream increase, every cached writer is ahead of its      *)
(* stream, and what a position records is there.                           *)
(*                                                                         *)
(* None of these is inductive alone. scan_max_seq needs increasing seqs to *)
(* have a maximum to find, the seqs increase because the writer is ahead,  *)
(* the writer keeps its stream's generation through knowledge_clear_all    *)
(* because nobody can create one while the log is being removed, and that  *)
(* is what holding the lock is for. A replay whose client disconnected     *)
(* runs on without the lock; then the seqs still increase, but a writer    *)
(* may outlive the generation it was created with. Inv is the conjunction. *)
(***************************************************************************)
EXTENDS GraphService, TLAPS

\* As long as no client has disconnected, no replay runs without its request.
Attached ==
    drops = 0 => \A t \in Tasks : task[t] # None => task[t].pc \notin {"detached", "leaving"}

Inv == TypeOK /\ SeqsIncrease /\ WriterAhead /\ LockHeld /\ WipeHasNoWriter /\ Attached

USE DEF Insts, Requests

-----------------------------------------------------------------------------
(* Updates that keep a record or a table well typed.                       *)

\* Overwriting an entry of a table indexed by incarnation and group keeps its type.
LEMMA EntryType ==
  ASSUME NEW S, NEW T, NEW V, NEW f \in [S -> [T -> V]], NEW a, NEW b, NEW v \in V
  PROVE  [f EXCEPT ![a][b] = v] \in [S -> [T -> V]]
  OBVIOUS

\* A commit's effect on a table of row sets keeps its type.
LEMMA RowsType ==
  ASSUME NEW S, NEW T, NEW f \in [S -> [T -> SUBSET Nat]], NEW a, NEW b, NEW n \in Nat
  PROVE  /\ [f EXCEPT ![a][b] = {}] \in [S -> [T -> SUBSET Nat]]
         /\ [f EXCEPT ![a][b] = @ \cup {n}] \in [S -> [T -> SUBSET Nat]]
  OBVIOUS

\* The request state every handler returns to is well typed.
LEMMA NoReqType == NoReq \in Request_
  BY ConstantsAssumption DEF NoReq, Request_

\* A request that is given the identity of its row stays well typed.
LEMMA RowType ==
  ASSUME NEW r \in Request_, NEW n \in Nat
  PROVE  [r EXCEPT !.row = n] \in Request_
  BY DEF Request_

\* A replay run keeps its type when it changes its place.
LEMMA TaskType ==
  ASSUME NEW k \in Task_, NEW p \in {"queued", "done"} \cup Replays
  PROVE  [k EXCEPT !.pc = p] \in Task_ /\ [k EXCEPT !.pc = p].pc = p
  BY DEF Task_

\* Marking a group of the current database as behind its stream keeps the type.
LEMMA BehindType ==
  ASSUME TypeOK, NEW c \in Clients
  PROVE  LineElsewhere(c) \in [Insts -> SUBSET Groups]
  <1>1. req[c].g \in Groups
    BY DEF TypeOK, Request_
  <1> QED
    BY <1>1 DEF TypeOK, LineElsewhere

\* A handler's return leaves the request state well typed.
LEMMA ReturnType ==
  ASSUME TypeOK, NEW c \in Clients, Return(c)
  PROVE  /\ pc' \in [Clients -> PCs] /\ req' \in [Clients -> Request_]
         /\ handle' \in [Clients -> Insts \cup {None}]
         /\ flushed' \in [Clients -> Position \cup {None}]
  BY NoReqType DEF TypeOK, Return, PCs

-----------------------------------------------------------------------------
(* The writer of a stream.                                                 *)

\* scan_max_seq is past every line of a stream whose seqs increase.
LEMMA ScanAhead ==
  ASSUME NEW s \in Seq(Line),
         \A j, k \in DOMAIN s : j < k => s[j].seq < s[k].seq
  PROVE  scan_max_seq(s) \in Nat /\ \A x \in Seqs(s) : x < scan_max_seq(s)
  <1>1. CASE s = <<>>
    BY <1>1 DEF scan_max_seq, Seqs
  <1>2. CASE s # <<>>
    <2> DEFINE top == s[Len(s)].seq
               IsTop(m) == \A x \in Seqs(s) : x <= m
    <2>1. Len(s) \in DOMAIN s /\ Len(s) \in Nat
      BY <1>2
    <2>2. ASSUME NEW k \in DOMAIN s PROVE s[k].seq \in Nat
      <3>1. s[k] \in Line
        OBVIOUS
      <3> QED
        BY <3>1 DEF Line
    <2>3. top \in Seqs(s)
      BY <2>1 DEF Seqs
    <2>4. ASSUME NEW x \in Seqs(s) PROVE x \in Nat /\ x <= top
      <3>1. PICK k \in DOMAIN s : x = s[k].seq
        BY <2>4 DEF Seqs
      <3>2. k < Len(s) \/ k = Len(s)
        BY <3>1, <2>1
      <3> QED
        BY <3>1, <3>2, <2>1, <2>2
    <2>5. \E m \in Seqs(s) : IsTop(m)
      BY <2>3, <2>4
    <2> DEFINE m == CHOOSE m \in Seqs(s) : IsTop(m)
    <2>6. m \in Seqs(s) /\ IsTop(m)
      BY <2>5
    <2>7. scan_max_seq(s) = 1 + m
      BY <1>2 DEF scan_max_seq
    <2> HIDE DEF m
    <2> QED
      BY <2>4, <2>6, <2>7
  <1> QED
    BY <1>1, <1>2

\* What with_wal_writer hands out: a well-typed writer past every line of the stream,
\* carrying the generation the stream has once a missing record has been minted.
LEMMA WriterReady ==
  ASSUME TypeOK, SeqsIncrease, WriterAhead, NEW g \in Groups
  PROVE  /\ with_wal_writer(g) \in Position
         /\ \A x \in Seqs(wal[g]) : x < with_wal_writer(g).seq
         /\ MintGeneration(g) => /\ drops = 0 => with_wal_writer(g).gen = gen'[g]
                                 /\ gen' \in [Groups -> Nat \cup {None}]
                                 /\ nextGen' \in Nat
                                 /\ \A h \in Groups \ {g} : gen'[h] = gen[h]
  <1> DEFINE x == IF Mints(g) THEN nextGen ELSE gen[g]
             m == scan_max_seq(wal[g])
  <1>1. m \in Nat /\ \A y \in Seqs(wal[g]) : y < m
    BY ScanAhead DEF TypeOK, SeqsIncrease
  <1>2. x \in Nat \cup {None}
    BY DEF TypeOK
  <1>3. MintGeneration(g) => /\ x = gen'[g]
                             /\ gen' \in [Groups -> Nat \cup {None}]
                             /\ nextGen' \in Nat
                             /\ \A h \in Groups \ {g} : gen'[h] = gen[h]
    BY DEF TypeOK, MintGeneration
  <1>4. CASE writer[g] = None
    <2>1. with_wal_writer(g) = [seq |-> m, gen |-> x]
      BY <1>4 DEF with_wal_writer, WalWriter_new
    <2> HIDE DEF x, m
    <2>2. /\ [seq |-> m, gen |-> x].seq = m /\ [seq |-> m, gen |-> x].gen = x
          /\ [seq |-> m, gen |-> x] \in Position
      BY <1>1, <1>2 DEF Position
    <2> QED
      BY <1>1, <1>3, <2>1, <2>2
  <1>5. CASE writer[g] # None
    <2>1. with_wal_writer(g) = writer[g] /\ x = gen[g]
      BY <1>5 DEF with_wal_writer, Mints
    <2>2. writer[g] \in Position
      BY <1>5 DEF TypeOK
    <2> HIDE DEF x, m
    <2> QED
      BY <1>3, <1>5, <2>1, <2>2 DEF WriterAhead
  <1> QED
    BY <1>4, <1>5

\* The types of the log's variables.
WalType ==
    /\ wal \in [Groups -> Seq(Line)] /\ gen \in [Groups -> Nat \cup {None}] /\ nextGen \in Nat
    /\ writer \in [Groups -> Position \cup {None}]
    /\ named \subseteq [g : Groups, gen : Nat \cup {None}, seq : Nat, row : Nat]

\* A writer of one stream replaced by one that is further ahead, nothing written.
LEMMA WriterMoves ==
  ASSUME TypeOK, SeqsIncrease, WriterAhead, NEW g \in Groups, NEW v \in Position,
         with_wal_writer(g).seq <= v.seq, v.gen = with_wal_writer(g).gen,
         writer' = [writer EXCEPT ![g] = v], MintGeneration(g), UNCHANGED <<wal, named, drops>>
  PROVE  WalType' /\ SeqsIncrease' /\ WriterAhead'
  <1> DEFINE w == with_wal_writer(g)
  <1>1. /\ w \in Position /\ \A x \in Seqs(wal[g]) : x < w.seq
        /\ drops = 0 => w.gen = gen'[g]
        /\ gen' \in [Groups -> Nat \cup {None}] /\ nextGen' \in Nat
        /\ \A h \in Groups \ {g} : gen'[h] = gen[h]
    BY WriterReady
  <1> HIDE DEF w
  <1>2. WalType'
    BY <1>1 DEF TypeOK, WalType
  <1>3. SeqsIncrease'
    BY DEF SeqsIncrease
  <1>4. ASSUME NEW h \in Groups, writer'[h] # None
        PROVE  /\ \A x \in Seqs(wal'[h]) : x < writer'[h].seq
               /\ drops' = 0 => writer'[h].gen = gen'[h]
    <2>1. CASE h = g
      <3>1. writer'[h] = v
        BY <2>1 DEF TypeOK
      <3>2. ASSUME NEW x \in Seqs(wal[g]) PROVE x < v.seq
        <4>1. PICK j \in DOMAIN wal[g] : x = wal[g][j].seq
          BY DEF Seqs
        <4>2. wal[g][j] \in Line
          BY DEF TypeOK
        <4>3. x \in Nat
          BY <4>1, <4>2 DEF Line
        <4> QED
          BY <4>3, <1>1 DEF Position, w
      <3> QED
        BY <2>1, <3>1, <3>2, <1>1 DEF w
    <2>2. CASE h # g
      BY <2>2, <1>1, <1>4 DEF WriterAhead, TypeOK
    <2> QED
      BY <2>1, <2>2
  <1> QED
    BY <1>2, <1>3, <1>4 DEF WriterAhead

\* A chunk that is written: its line extends the stream by a seq beyond all others.
LEMMA ChunkStep ==
  ASSUME TypeOK, SeqsIncrease, WriterAhead, NEW g \in Groups, NEW k \in {"create", "purge"},
         NEW r \in Nat, with_chunk(g, k, r), UNCHANGED drops
  PROVE  WalType' /\ SeqsIncrease' /\ WriterAhead'
  <1> DEFINE w == with_wal_writer(g)
             l == [seq |-> w.seq, kind |-> k, row |-> r]
             v == [w EXCEPT !.seq = @ + 1]
             s == Append(wal[g], l)
  <1>1. /\ w \in Position /\ \A x \in Seqs(wal[g]) : x < w.seq
        /\ drops = 0 => w.gen = gen'[g]
        /\ gen' \in [Groups -> Nat \cup {None}] /\ nextGen' \in Nat
        /\ \A h \in Groups \ {g} : gen'[h] = gen[h]
    BY WriterReady DEF with_chunk
  <1>2. w.seq \in Nat /\ w.gen \in Nat \cup {None}
    BY <1>1 DEF Position
  <1>3. l \in Line /\ l.seq = w.seq
    BY <1>2 DEF Line
  <1>4. v \in Position /\ v.seq = w.seq + 1 /\ v.gen = w.gen
    BY <1>1 DEF Position
  <1>5. /\ wal' = [wal EXCEPT ![g] = s]
        /\ writer' = [writer EXCEPT ![g] = v]
        /\ named' = named \cup {[g |-> g, gen |-> w.gen, seq |-> w.seq, row |-> r]}
    BY DEF with_chunk
  <1>6. wal[g] \in Seq(Line)
    BY DEF TypeOK
  <1> HIDE DEF w, l, v
  <1>7. /\ s \in Seq(Line) /\ DOMAIN s = 1..Len(wal[g]) + 1
        /\ \A j \in DOMAIN wal[g] : s[j] = wal[g][j]
        /\ s[Len(wal[g]) + 1] = l
    BY <1>3, <1>6
  <1>8. wal'[g] = s /\ \A h \in Groups \ {g} : wal'[h] = wal[h]
    BY <1>5 DEF TypeOK
  <1>9. WalType'
    <2>1. wal' \in [Groups -> Seq(Line)]
      BY <1>5, <1>7 DEF TypeOK
    <2>2. writer' \in [Groups -> Position \cup {None}]
      BY <1>4, <1>5 DEF TypeOK
    <2>3. named' \subseteq [g : Groups, gen : Nat \cup {None}, seq : Nat, row : Nat]
      BY <1>2, <1>5 DEF TypeOK
    <2> QED
      BY <1>1, <2>1, <2>2, <2>3 DEF WalType
  <1>10. \A j \in DOMAIN wal[g] : wal[g][j].seq \in Nat /\ wal[g][j].seq < w.seq
    <2> SUFFICES ASSUME NEW j \in DOMAIN wal[g]
                 PROVE  wal[g][j].seq \in Nat /\ wal[g][j].seq < w.seq
      OBVIOUS
    <2>1. wal[g][j] \in Line
      BY <1>6
    <2>2. wal[g][j].seq \in Seqs(wal[g])
      BY DEF Seqs
    <2> QED
      BY <2>1, <2>2, <1>1 DEF Line
  <1>11. \A i, j \in DOMAIN s : i < j => s[i].seq < s[j].seq
    <2> SUFFICES ASSUME NEW i \in DOMAIN s, NEW j \in DOMAIN s, i < j
                 PROVE  s[i].seq < s[j].seq
      OBVIOUS
    <2>1. i \in DOMAIN wal[g] /\ s[i] = wal[g][i]
      BY <1>6, <1>7
    <2>2. CASE j = Len(wal[g]) + 1
      BY <2>1, <2>2, <1>3, <1>7, <1>10
    <2>3. CASE j # Len(wal[g]) + 1
      <3>1. j \in DOMAIN wal[g] /\ s[j] = wal[g][j]
        BY <1>6, <1>7, <2>3
      <3> QED
        BY <2>1, <3>1 DEF SeqsIncrease
    <2> QED
      BY <2>2, <2>3
  <1>12. SeqsIncrease'
    <2> SUFFICES ASSUME NEW h \in Groups, NEW i \in DOMAIN wal'[h], NEW j \in DOMAIN wal'[h], i < j
                 PROVE  wal'[h][i].seq < wal'[h][j].seq
      BY DEF SeqsIncrease
    <2> HIDE DEF s
    <2>1. CASE h = g
      BY <2>1, <1>8, <1>11
    <2>2. CASE h # g
      BY <2>2, <1>8 DEF SeqsIncrease
    <2> QED
      BY <2>1, <2>2
  <1>13. ASSUME NEW x \in Seqs(s) PROVE x < v.seq
    <2>1. PICK j \in DOMAIN s : x = s[j].seq
      BY DEF Seqs
    <2>2. CASE j = Len(wal[g]) + 1
      BY <2>1, <2>2, <1>2, <1>3, <1>4, <1>7
    <2>3. CASE j # Len(wal[g]) + 1
      <3>1. j \in DOMAIN wal[g] /\ s[j] = wal[g][j]
        BY <1>6, <1>7, <2>3
      <3> QED
        BY <2>1, <3>1, <1>2, <1>4, <1>10
    <2> QED
      BY <2>2, <2>3
  <1>14. WriterAhead'
    <2> SUFFICES ASSUME NEW h \in Groups, writer'[h] # None
                 PROVE  /\ \A x \in Seqs(wal'[h]) : x < writer'[h].seq
                        /\ drops' = 0 => writer'[h].gen = gen'[h]
      BY DEF WriterAhead
    <2> HIDE DEF s
    <2>1. CASE h = g
      <3>1. writer'[h] = v
        BY <1>5, <2>1 DEF TypeOK
      <3> QED
        BY <2>1, <3>1, <1>1, <1>4, <1>8, <1>13
    <2>2. CASE h # g
      <3>1. writer'[h] = writer[h] /\ wal'[h] = wal[h] /\ gen'[h] = gen[h]
        BY <2>2, <1>1, <1>5, <1>8 DEF TypeOK
      <3> QED
        BY <3>1 DEF WriterAhead
    <2> QED
      BY <2>1, <2>2
  <1> QED
    BY <1>9, <1>12, <1>14

\* A chunk that fails only burns a seq.
LEMMA ChunkErrStep ==
  ASSUME TypeOK, SeqsIncrease, WriterAhead, NEW g \in Groups, with_chunk_err(g), UNCHANGED drops
  PROVE  WalType' /\ SeqsIncrease' /\ WriterAhead'
  <1> DEFINE w == with_wal_writer(g)
             v == [w EXCEPT !.seq = @ + 1]
  <1>1. w \in Position
    BY WriterReady
  <1>2. v \in Position /\ w.seq <= v.seq /\ v.gen = w.gen
    BY <1>1 DEF Position
  <1>3. writer' = [writer EXCEPT ![g] = v] /\ MintGeneration(g) /\ UNCHANGED <<wal, named>>
    BY DEF with_chunk_err
  <1> HIDE DEF v
  <1> QED
    BY <1>2, <1>3, WriterMoves

\* A resync never lowers the counter.
LEMMA ResyncStep ==
  ASSUME TypeOK, SeqsIncrease, WriterAhead, NEW g \in Groups, NEW last \in Nat \cup {None},
         resync_global_seq_after_rebuild(g, last), UNCHANGED <<wal, named, drops>>
  PROVE  WalType' /\ SeqsIncrease' /\ WriterAhead'
  <1> DEFINE w == with_wal_writer(g)
             v == resync_global_seq(w, g, last)
             m == scan_max_seq(wal[g])
             f == IF last = None THEN 0 ELSE last + 1
  <1>1. w \in Position /\ m \in Nat /\ f \in Nat
    BY WriterReady, ScanAhead DEF TypeOK, SeqsIncrease
  <1>2. v = [w EXCEPT !.seq = Larger(Larger(@, f), m)]
    BY DEF resync_global_seq
  <1> HIDE DEF w, m, f, v
  <1>3. w.seq \in Nat /\ Larger(Larger(w.seq, f), m) \in Nat /\ w.seq <= Larger(Larger(w.seq, f), m)
    BY <1>1 DEF Position, Larger
  <1>4. v \in Position /\ w.seq <= v.seq /\ v.gen = w.gen
    BY <1>1, <1>2, <1>3 DEF Position
  <1>5. CASE writer' = [writer EXCEPT ![g] = v] /\ MintGeneration(g)
    BY <1>4, <1>5, WriterMoves DEF w
  <1>6. CASE UNCHANGED <<writer, gen, nextGen>>
    BY <1>6 DEF TypeOK, WalType, SeqsIncrease, WriterAhead
  <1> QED
    BY <1>5, <1>6 DEF resync_global_seq_after_rebuild, v, w

-----------------------------------------------------------------------------
(* Every step keeps the invariant.                                         *)

\* A step that leaves the log and its writers alone keeps what is said of them.
LEMMA LogAlone ==
  ASSUME SeqsIncrease, WriterAhead, UNCHANGED <<walVars, drops>>
  PROVE  SeqsIncrease' /\ WriterAhead'
  BY DEF SeqsIncrease, WriterAhead, walVars

\* A handler that moves to a label outside the critical section, with the lock untouched
\* and no writer created, keeps the exclusion.
LEMMA MoveOutside ==
  ASSUME Inv, NEW c \in Clients, pc[c] \notin Critical, UNCHANGED <<lock, task, writer, drops>>,
         NEW l \in PCs \ Critical, pc' = [pc EXCEPT ![c] = l],
         \A d \in Clients \ {c} : req'[d] = req[d]
  PROVE  LockHeld' /\ WipeHasNoWriter' /\ Attached'
  <1>1. LockHeld'
    BY DEF Inv, TypeOK, LockHeld
  <1>2. WipeHasNoWriter'
    BY DEF Inv, TypeOK, WipeHasNoWriter, Preserves, Critical
  <1> QED
    BY <1>1, <1>2 DEF Inv, Attached

\* A handler that takes the free lock and enters a critical section other than the wipe.
LEMMA Enter ==
  ASSUME Inv, NEW c \in Clients, lock = None, lock' = c, UNCHANGED <<task, writer, drops>>,
         NEW l \in {"committed", "rb_reset"}, pc' = [pc EXCEPT ![c] = l],
         \A d \in Clients \ {c} : req'[d] = req[d]
  PROVE  LockHeld' /\ WipeHasNoWriter' /\ Attached'
  <1>1. LockHeld'
    BY ConstantsAssumption DEF Inv, TypeOK, LockHeld
  <1>2. WipeHasNoWriter'
    BY DEF Inv, TypeOK, WipeHasNoWriter, Preserves
  <1> QED
    BY <1>1, <1>2 DEF Inv, Attached

\* A handler in its critical section goes on to another label of it.
LEMMA Continue ==
  ASSUME Inv, NEW c \in Clients, pc[c] \in {"committed", "wiping", "wiping_log"},
         UNCHANGED <<lock, task, req, drops>>,
         NEW l \in {"flushed", "reinit"}, pc' = [pc EXCEPT ![c] = l]
  PROVE  LockHeld' /\ WipeHasNoWriter' /\ Attached'
  <1>1. lock = c
    BY DEF Inv, LockHeld, Critical
  <1>2. LockHeld'
    BY <1>1 DEF Inv, TypeOK, LockHeld
  <1>3. \A d \in Clients \ {c} : pc[d] \notin Critical
    BY <1>1 DEF Inv, LockHeld
  <1>4. WipeHasNoWriter'
    BY <1>3 DEF Inv, TypeOK, WipeHasNoWriter, Critical
  <1> QED
    BY <1>2, <1>4 DEF Inv, Attached

\* A handler leaves its critical section and drops the guard.
LEMMA Leave ==
  ASSUME Inv, NEW c \in Clients, pc[c] \in Critical, lock' = None, UNCHANGED <<task, drops>>,
         NEW l \in PCs \ Critical, pc' = [pc EXCEPT ![c] = l]
  PROVE  LockHeld' /\ WipeHasNoWriter' /\ Attached'
  <1>1. lock = c
    BY DEF Inv, LockHeld
  <1>2. \A d \in Clients : pc'[d] \notin Critical
    BY <1>1 DEF Inv, LockHeld, TypeOK
  <1>3. \A t \in Tasks : ~(task[t] # None /\ task[t].pc = "replay")
    BY <1>1, ConstantsAssumption DEF Inv, LockHeld
  <1> QED
    BY <1>2, <1>3 DEF Inv, LockHeld, WipeHasNoWriter, Attached, Critical

\* Steps of the requests that commit a mutation, up to the commit.
LEMMA WriteSteps ==
  ASSUME Inv, NEW c \in Clients
  PROVE  /\ \A op \in Requests, g \in Groups : BeginWrite(c, op, g) => Inv'
         /\ LoadDb(c) => Inv'
         /\ Commit(c) => Inv'
         /\ CommitFails(c) => Inv'
  <1> USE DEF dbVars, taskVars
  <1>1. ASSUME NEW op \in Requests, NEW g \in Groups, BeginWrite(c, op, g) PROVE Inv'
    <2>1. [NoReq EXCEPT !.op = op, !.g = g] \in Request_
      BY NoReqType DEF Request_
    <2>2. TypeOK'
      BY <1>1, <2>1 DEF Inv, TypeOK, BeginWrite, Goto, PCs, walVars
    <2>3. LockHeld' /\ WipeHasNoWriter' /\ Attached'
      <3>1. "start" \in PCs \ Critical /\ pc[c] \notin Critical
        BY <1>1 DEF BeginWrite, PCs, Critical
      <3> QED
        BY <1>1, <3>1, MoveOutside DEF BeginWrite, Goto, walVars, Inv, TypeOK
    <2> QED
      BY <1>1, <2>2, <2>3, LogAlone DEF Inv, BeginWrite
  <1>2. ASSUME LoadDb(c) PROVE Inv'
    <2>1. TypeOK'
      <3>1. CASE live = None
        BY <1>2, <3>1, ReturnType DEF Inv, TypeOK, LoadDb, walVars
      <3>2. CASE live # None
        BY <1>2, <3>2 DEF Inv, TypeOK, LoadDb, Goto, PCs, walVars
      <3> QED
        BY <3>1, <3>2
    <2>2. LockHeld' /\ WipeHasNoWriter' /\ Attached'
      <3>1. pc[c] \notin Critical /\ {"idle", "lock_wait"} \subseteq PCs \ Critical
        BY <1>2 DEF LoadDb, PCs, Critical
      <3>2. \E l \in {"idle", "lock_wait"} : pc' = [pc EXCEPT ![c] = l]
        BY <1>2 DEF LoadDb, Goto, Return
      <3>3. \A d \in Clients \ {c} : req'[d] = req[d]
        BY <1>2 DEF LoadDb, Return, Inv, TypeOK
      <3> QED
        BY <1>2, <3>1, <3>2, <3>3, MoveOutside DEF LoadDb, walVars
    <2> QED
      BY <1>2, <2>1, <2>2, LogAlone DEF Inv, LoadDb
  <1>3. ASSUME Commit(c) PROVE Inv'
    <2>1. row \in Nat /\ row' \in Nat /\ row + 1 \in Nat
      BY <1>3 DEF Inv, TypeOK, Commit
    <2>2. [req[c] EXCEPT !.row = row + 1] \in Request_
      <3>1. req[c] \in Request_
        BY DEF Inv, TypeOK
      <3> QED
        BY <2>1, <3>1, RowType
    <2>3. req' = [req EXCEPT ![c] = [req[c] EXCEPT !.row = row + 1]]
      BY <1>3 DEF Commit
    <2>4. req' \in [Clients -> Request_] /\ \A d \in Clients \ {c} : req'[d] = req[d]
      BY <2>2, <2>3 DEF Inv, TypeOK
    <2>5. /\ rows' \in [Insts -> [Groups -> SUBSET Nat]]
          /\ applied' \in [Insts -> [Groups -> SUBSET Nat]]
      <3>1. rows \in [Insts -> [Groups -> SUBSET Nat]] /\ applied \in [Insts -> [Groups -> SUBSET Nat]]
        BY DEF Inv, TypeOK
      <3>a. PICK n \in Nat : n = row + 1
        BY <2>1
      <3>2. PICK h, g : h = handle[c] /\ g = req[c].g
        OBVIOUS
      <3>3. /\ applied' = [applied EXCEPT ![h][g] = @ \cup {n}]
            /\ rows' = [rows EXCEPT ![h][g] = {}] \/ rows' = [rows EXCEPT ![h][g] = @ \cup {n}]
        BY <1>3, <3>a, <3>2 DEF Commit
      <3>4. applied' \in [Insts -> [Groups -> SUBSET Nat]]
        BY <3>1, <3>3, RowsType
      <3>5. CASE rows' = [rows EXCEPT ![h][g] = {}]
        BY <3>1, <3>4, <3>5, RowsType
      <3>6. CASE rows' = [rows EXCEPT ![h][g] = @ \cup {n}]
        BY <3>1, <3>4, <3>6, RowsType
      <3> QED
        BY <3>3, <3>5, <3>6
    <2>6. TypeOK'
      BY <1>3, <2>1, <2>4, <2>5 DEF Inv, TypeOK, Commit, Goto, PCs, walVars
    <2>7. LockHeld' /\ WipeHasNoWriter' /\ Attached'
      BY <1>3, <2>4, Enter DEF Commit, Goto, walVars
    <2> QED
      BY <1>3, <2>6, <2>7, LogAlone DEF Inv, Commit
  <1>4. ASSUME CommitFails(c) PROVE Inv'
    <2>0. /\ row' \in Nat
          /\ rows' \in [Insts -> [Groups -> SUBSET Nat]]
          /\ applied' \in [Insts -> [Groups -> SUBSET Nat]]
      <3>1. /\ rows \in [Insts -> [Groups -> SUBSET Nat]]
            /\ applied \in [Insts -> [Groups -> SUBSET Nat]]
            /\ row \in Nat /\ row + 1 \in Nat
        BY DEF Inv, TypeOK
      <3>2. CASE UNCHANGED <<row, rows, applied>>
        BY <3>1, <3>2
      <3>3. CASE /\ row' = row + 1
                 /\ rows' = [rows EXCEPT ![handle[c]][req[c].g] = @ \cup {row + 1}]
                 /\ applied' = [applied EXCEPT ![handle[c]][req[c].g] = @ \cup {row + 1}]
        <4>a. PICK n \in Nat : n = row + 1
          BY <3>1
        <4>1. PICK h, g : h = handle[c] /\ g = req[c].g
          OBVIOUS
        <4>2. /\ rows' = [rows EXCEPT ![h][g] = @ \cup {n}]
              /\ applied' = [applied EXCEPT ![h][g] = @ \cup {n}] /\ row' = n
          BY <3>3, <4>a, <4>1
        <4> QED
          BY <3>1, <4>2, RowsType
      <3> QED
        BY <1>4, <3>2, <3>3 DEF CommitFails
    <2>1. TypeOK'
      BY <1>4, <2>0, ReturnType DEF Inv, TypeOK, CommitFails, walVars
    <2>2. LockHeld' /\ WipeHasNoWriter' /\ Attached'
      <3>1. "idle" \in PCs \ Critical /\ pc[c] \notin Critical
        BY <1>4 DEF CommitFails, PCs, Critical
      <3> QED
        BY <1>4, <3>1, MoveOutside DEF CommitFails, Return, walVars, Inv, TypeOK
    <2> QED
      BY <1>4, <2>1, <2>2, LogAlone DEF Inv, CommitFails
  <1> QED
    BY <1>1, <1>2, <1>3, <1>4

\* Steps of the requests that commit a mutation, after the commit.
LEMMA FlushSteps ==
  ASSUME Inv, NEW c \in Clients
  PROVE  /\ Flush(c) => Inv'
         /\ FlushFails(c) => Inv'
         /\ advance_wal_position(c) => Inv'
  <1> USE DEF dbVars, taskVars
  <1>1. req[c].g \in Groups /\ req[c].row \in Nat
    BY DEF Inv, TypeOK, Request_
  <1>2. MutationKind(req[c].op) \in {"create", "purge"}
    BY DEF MutationKind
  <1>3. ASSUME Flush(c) PROVE Inv'
    <2> DEFINE w == with_wal_writer(req[c].g)
    <2>1. WalType' /\ SeqsIncrease' /\ WriterAhead'
      BY <1>1, <1>2, <1>3, ChunkStep DEF Flush, Inv
    <2>2. w \in Position
      BY <1>1, WriterReady DEF Inv
    <2>3. [seq |-> w.seq, gen |-> w.gen] \in Position
      BY <2>2 DEF Position
    <2>4. flushed' = [flushed EXCEPT ![c] = [seq |-> w.seq, gen |-> w.gen]]
      BY <1>3 DEF Flush
    <2> HIDE DEF w
    <2>5. flushed' \in [Clients -> Position \cup {None}]
      BY <2>3, <2>4 DEF Inv, TypeOK
    <2>6. TypeOK'
      <3>1. behind' \in [Insts -> SUBSET Groups] /\ severed' = severed
        BY <1>3, BehindType DEF Flush, with_chunk, Inv
      <3> QED
        BY <1>3, <2>1, <2>5, <3>1 DEF Inv, TypeOK, WalType, Flush, Goto, PCs
    <2>7. LockHeld' /\ WipeHasNoWriter' /\ Attached'
      BY <1>3, Continue DEF Flush, Goto
    <2> QED
      BY <2>1, <2>6, <2>7 DEF Inv
  <1>4. ASSUME FlushFails(c) PROVE Inv'
    <2>0. drops' = drops
      BY <1>4 DEF FlushFails
    <2>1. WalType' /\ SeqsIncrease' /\ WriterAhead'
      <3>1. CASE with_chunk_err(req[c].g)
        BY <1>1, <2>0, <3>1, ChunkErrStep DEF Inv
      <3>2. CASE with_chunk(req[c].g, MutationKind(req[c].op), req[c].row)
        BY <1>1, <1>2, <2>0, <3>2, ChunkStep DEF Inv
      <3>3. CASE UNCHANGED walVars
        BY <2>0, <3>3, LogAlone DEF Inv, TypeOK, WalType, walVars
      <3> QED
        BY <1>4, <3>1, <3>2, <3>3 DEF FlushFails
    <2>2. TypeOK'
      <3>1. behind' \in [Insts -> SUBSET Groups]
        BY <1>4, BehindType DEF FlushFails, Inv, TypeOK
      <3>2. severed' = severed
        BY <1>4 DEF FlushFails, with_chunk, with_chunk_err, walVars
      <3> QED
        BY <1>4, <2>1, <3>1, <3>2 DEF Inv, TypeOK, WalType, FlushFails, Goto, PCs
    <2>3. LockHeld' /\ WipeHasNoWriter' /\ Attached'
      BY <1>4, Continue DEF FlushFails, Goto
    <2> QED
      BY <2>1, <2>2, <2>3 DEF Inv
  <1>5. ASSUME advance_wal_position(c) PROVE Inv'
    <2>1. posn' \in [Insts -> [Groups -> Position \cup {None}]]
      <3>1. posn \in [Insts -> [Groups -> Position \cup {None}]] /\ flushed[c] \in Position \cup {None}
        BY DEF Inv, TypeOK
      <3> QED
        BY <1>5, <3>1, EntryType DEF advance_wal_position, set_wal_position
    <2>2. lost' \subseteq Nat
      BY <1>1, <1>5 DEF advance_wal_position, Inv, TypeOK
    <2>3. TypeOK'
      BY <1>5, <2>1, <2>2, ReturnType DEF Inv, TypeOK, advance_wal_position, walVars
    <2>4. LockHeld' /\ WipeHasNoWriter' /\ Attached'
      <3>1. "idle" \in PCs \ Critical /\ pc[c] \in Critical
        BY <1>5 DEF advance_wal_position, PCs, Critical
      <3> QED
        BY <1>5, <3>1, Leave DEF advance_wal_position, Return
    <2> QED
      BY <1>5, <2>3, <2>4, LogAlone DEF Inv, advance_wal_position
  <1> QED
    BY <1>3, <1>4, <1>5

\* The steps of knowledge_clear_all.
LEMMA ClearSteps ==
  ASSUME Inv, NEW c \in Clients
  PROVE  /\ \A op \in Requests : BeginClearAll(c, op) => Inv'
         /\ ClearAll(c) => Inv'
         /\ ClearAllRemoveDb(c) => Inv'
         /\ ClearAllRemoveWal(c) => Inv'
         /\ ClearAllReinit(c) => Inv'
         /\ ClearAllFails(c) => Inv'
  <1> USE DEF dbVars, taskVars
  <1>1. ASSUME NEW op \in Requests, BeginClearAll(c, op) PROVE Inv'
    <2>1. [NoReq EXCEPT !.op = op] \in Request_
      BY NoReqType DEF Request_
    <2>2. TypeOK'
      BY <1>1, <2>1 DEF Inv, TypeOK, BeginClearAll, Goto, PCs, walVars
    <2>3. LockHeld' /\ WipeHasNoWriter' /\ Attached'
      <3>1. "clear_wait" \in PCs \ Critical /\ pc[c] \notin Critical
        BY <1>1 DEF BeginClearAll, PCs, Critical
      <3> QED
        BY <1>1, <3>1, MoveOutside DEF BeginClearAll, Goto, walVars, Inv, TypeOK
    <2> QED
      BY <1>1, <2>2, <2>3, LogAlone DEF Inv, BeginClearAll
  <1>2. ASSUME ClearAll(c) PROVE Inv'
    <2>1. TypeOK'
      BY <1>2 DEF Inv, TypeOK, ClearAll, Goto, PCs
    <2>2. LockHeld'
      BY <1>2, ConstantsAssumption DEF Inv, TypeOK, LockHeld, ClearAll, Goto
    <2>3. \A g \in Groups : writer'[g] = None \/ writer'[g] = writer[g]
      BY <1>2 DEF ClearAll
    <2>4. ~Preserves(c) => \A g \in Groups : writer'[g] = None
      BY <1>2 DEF ClearAll
    <2>5. \A d \in Clients \ {c} : pc[d] \notin Critical
      BY <1>2, ConstantsAssumption DEF ClearAll, Inv, LockHeld
    <2>6. WipeHasNoWriter'
      BY <1>2, <2>4, <2>5 DEF Inv, TypeOK, WipeHasNoWriter, Critical, ClearAll, Goto, Preserves
    <2>7. SeqsIncrease' /\ WriterAhead' /\ Attached'
      BY <1>2, <2>3 DEF Inv, SeqsIncrease, WriterAhead, Attached, ClearAll
    <2> QED
      BY <2>1, <2>2, <2>6, <2>7 DEF Inv
  <1>3. ASSUME ClearAllRemoveDb(c) PROVE Inv'
    <2>1. TypeOK'
      BY <1>3 DEF Inv, TypeOK, ClearAllRemoveDb, Goto, PCs, walVars
    <2>2. LockHeld'
      BY <1>3 DEF Inv, TypeOK, LockHeld, ClearAllRemoveDb, Goto, Critical
    <2>3. WipeHasNoWriter'
      BY <1>3 DEF Inv, TypeOK, WipeHasNoWriter, Preserves, ClearAllRemoveDb, Goto, walVars
    <2> QED
      BY <1>3, <2>1, <2>2, <2>3, LogAlone DEF Inv, Attached, ClearAllRemoveDb
  <1>4. ASSUME ClearAllRemoveWal(c) PROVE Inv'
    <2>1. drops = 0 => \A g \in Groups : writer[g] = None
      BY <1>4 DEF ClearAllRemoveWal, Inv, WipeHasNoWriter
    <2>2. \A g \in Groups : wal'[g] = wal[g] \/ wal'[g] = <<>>
      BY <1>4 DEF ClearAllRemoveWal, Inv, TypeOK
    <2>3. wal' \in [Groups -> Seq(Line)] /\ gen' \in [Groups -> Nat \cup {None}]
      <3>1. <<>> \in Seq(Line)
        OBVIOUS
      <3>2. wal' \in [Groups -> Seq(Line)]
        BY <1>4, <3>1 DEF ClearAllRemoveWal, Inv, TypeOK
      <3>3. gen' \in [Groups -> Nat \cup {None}]
        BY <1>4 DEF ClearAllRemoveWal, Inv, TypeOK
      <3> QED
        BY <3>2, <3>3
    <2>4. TypeOK'
      BY <1>4, <2>3 DEF Inv, TypeOK, ClearAllRemoveWal, Goto, PCs
    <2>5. SeqsIncrease'
      BY <2>2 DEF Inv, SeqsIncrease
    <2>6. WriterAhead'
      <3> SUFFICES ASSUME NEW g \in Groups, writer'[g] # None
                   PROVE  /\ \A x \in Seqs(wal'[g]) : x < writer'[g].seq
                          /\ drops' = 0 => writer'[g].gen = gen'[g]
        BY DEF WriterAhead
      <3>1. writer' = writer /\ drops' = drops
        BY <1>4 DEF ClearAllRemoveWal
      <3>2. Seqs(wal'[g]) \subseteq Seqs(wal[g])
        BY <2>2 DEF Seqs
      <3> QED
        BY <2>1, <3>1, <3>2 DEF Inv, WriterAhead
    <2>7. CASE pc' = pc
      BY <1>4, <2>4, <2>5, <2>6, <2>7
         DEF Inv, LockHeld, WipeHasNoWriter, Attached, Preserves, ClearAllRemoveWal
    <2>8. CASE Goto(c, "reinit")
      <3>1. LockHeld' /\ WipeHasNoWriter' /\ Attached'
        BY <1>4, <2>8, Continue DEF ClearAllRemoveWal, Goto
      <3> QED
        BY <2>4, <2>5, <2>6, <3>1 DEF Inv
    <2> QED
      BY <1>4, <2>7, <2>8 DEF ClearAllRemoveWal
  <1>5. "idle" \in PCs \ Critical
    BY DEF PCs, Critical
  <1>6. ASSUME ClearAllReinit(c) PROVE Inv'
    <2>1. inst + 1 \in Insts
      BY <1>6, ConstantsAssumption DEF Inv, TypeOK, ClearAllReinit
    <2>2. posn' \in [Insts -> [Groups -> Position \cup {None}]]
      <3> DEFINE p == [seq |-> 0, gen |-> IF Preserves(c) THEN gen[DefaultGroup] ELSE None]
      <3>1. p \in Position \cup {None}
        BY ConstantsAssumption DEF Inv, TypeOK, Position
      <3>2. posn' = [posn EXCEPT ![inst + 1][DefaultGroup] = p]
        BY <1>6 DEF ClearAllReinit, FreshInst
      <3> HIDE DEF p
      <3>3. posn \in [Insts -> [Groups -> Position \cup {None}]]
        BY DEF Inv, TypeOK
      <3> QED
        BY <3>1, <3>2, <3>3, EntryType
    <2>3. TypeOK'
      <3>1. behind' \in [Insts -> SUBSET Groups]
        BY <1>6 DEF ClearAllReinit, FreshInst, Inv, TypeOK
      <3> QED
        BY <1>6, <2>1, <2>2, <3>1, ReturnType DEF Inv, TypeOK, ClearAllReinit, FreshInst, walVars
    <2>4. LockHeld' /\ WipeHasNoWriter' /\ Attached'
      BY <1>5, <1>6, Leave DEF ClearAllReinit, Return, Critical
    <2> QED
      BY <1>6, <2>3, <2>4, LogAlone DEF Inv, ClearAllReinit
  <1>7. ASSUME ClearAllFails(c) PROVE Inv'
    <2>1. TypeOK'
      BY <1>7, ReturnType DEF Inv, TypeOK, ClearAllFails, RecordAlone
    <2>2. LockHeld' /\ WipeHasNoWriter' /\ Attached'
      BY <1>5, <1>7, Leave DEF ClearAllFails, Return, Critical
    <2>3. SeqsIncrease' /\ WriterAhead'
      BY <1>7 DEF Inv, SeqsIncrease, WriterAhead, ClearAllFails
    <2> QED
      BY <2>1, <2>2, <2>3 DEF Inv
  <1> QED
    BY <1>1, <1>2, <1>3, <1>4, <1>6, <1>7

\* The request half of knowledge_rebuild_from_wal, up to the purge.
LEMMA RebuildSteps ==
  ASSUME Inv, NEW c \in Clients
  PROVE  /\ \A op \in Requests, g \in Groups, stream \in BOOLEAN :
              BeginRebuild(c, op, g, stream) => Inv'
         /\ RebuildGuard(c) => Inv'
         /\ clear_group_for_rebuild(c) => Inv'
         /\ ClearedPosition(c) => Inv'
  <1> USE DEF dbVars, taskVars
  <1>1. {"idle", "rb_guard", "rb_clear", "rb_admit"} \subseteq PCs \ Critical
    BY DEF PCs, Critical
  <1>2. req[c].g \in Groups
    BY DEF Inv, TypeOK, Request_
  <1>3. ASSUME NEW op \in Requests, NEW g \in Groups, NEW stream \in BOOLEAN,
               BeginRebuild(c, op, g, stream)
        PROVE  Inv'
    <2> DEFINE p == posn[live][g]
               reset == position_reset_detected(p, gen[g])
               from == IF op = "catch_up" /\ p # None THEN p.seq + 1 ELSE 0
               q == [NoReq EXCEPT !.op = op, !.g = g, !.stream = stream, !.gen = gen[g],
                                  !.from = IF reset THEN 0 ELSE from,
                                  !.force = op = "force_rebuild" \/ reset]
    <2>1. p \in Position \cup {None} /\ gen[g] \in Nat \cup {None}
      BY <1>3 DEF BeginRebuild, Inv, TypeOK
    <2>2. (IF reset THEN 0 ELSE from) \in Nat
      BY <2>1 DEF Position
    <2>3. reset \in BOOLEAN
      BY DEF position_reset_detected
    <2> HIDE DEF p, reset, from
    <2>4. q \in Request_
      <3> DEFINE b == op = "force_rebuild" \/ reset
                 n == IF reset THEN 0 ELSE from
      <3>1. b \in BOOLEAN /\ n \in Nat
        BY <2>2, <2>3
      <3> HIDE DEF b, n
      <3>2. [NoReq EXCEPT !.op = op, !.g = g, !.stream = stream, !.gen = gen[g], !.from = n, !.force = b] \in Request_
        BY <2>1, <3>1, NoReqType DEF Request_
      <3> QED
        BY <3>2 DEF b, n
    <2>5. req' = [req EXCEPT ![c] = q]
      BY <1>3 DEF BeginRebuild, p, reset, from
    <2> HIDE DEF q
    <2>6. req' \in [Clients -> Request_] /\ \A d \in Clients \ {c} : req'[d] = req[d]
      BY <2>4, <2>5 DEF Inv, TypeOK
    <2>7. TypeOK'
      BY <1>3, <2>6 DEF Inv, TypeOK, BeginRebuild, Goto, PCs, walVars
    <2>8. LockHeld' /\ WipeHasNoWriter' /\ Attached'
      <3>1. pc[c] \notin Critical
        BY <1>3 DEF BeginRebuild, Critical
      <3> QED
        BY <1>1, <1>3, <2>6, <3>1, MoveOutside DEF BeginRebuild, Goto, walVars
    <2> QED
      BY <1>3, <2>7, <2>8, LogAlone DEF Inv, BeginRebuild
  <1>4. ASSUME RebuildGuard(c) PROVE Inv'
    <2>1. TypeOK'
      <3>1. CASE Return(c)
        BY <1>4, <3>1, ReturnType DEF Inv, TypeOK, RebuildGuard, walVars
      <3>2. CASE ~Return(c)
        BY <1>4, <3>2 DEF Inv, TypeOK, RebuildGuard, Goto, PCs, walVars
      <3> QED
        BY <3>1, <3>2
    <2>2. LockHeld' /\ WipeHasNoWriter' /\ Attached'
      <3>1. pc[c] \notin Critical
        BY <1>4 DEF RebuildGuard, Critical
      <3>2. \E l \in {"idle", "rb_clear", "rb_admit"} : pc' = [pc EXCEPT ![c] = l]
        BY <1>4 DEF RebuildGuard, Goto, Return
      <3>3. \A d \in Clients \ {c} : req'[d] = req[d]
        BY <1>4 DEF RebuildGuard, Return, Inv, TypeOK
      <3> QED
        BY <1>1, <1>4, <3>1, <3>2, <3>3, MoveOutside DEF RebuildGuard, walVars
    <2> QED
      BY <1>4, <2>1, <2>2, LogAlone DEF Inv, RebuildGuard
  <1>5. ASSUME clear_group_for_rebuild(c) PROVE Inv'
    <2>1. CASE Return(c) /\ UNCHANGED <<lock, rows, applied, behind, cleared>>
      <3>1. TypeOK'
        BY <1>5, <2>1, ReturnType DEF Inv, TypeOK, clear_group_for_rebuild, walVars
      <3>2. pc[c] \notin Critical
        BY <1>5 DEF clear_group_for_rebuild, Critical
      <3>3. \A d \in Clients \ {c} : req'[d] = req[d]
        BY <2>1 DEF Return, Inv, TypeOK
      <3>4. LockHeld' /\ WipeHasNoWriter' /\ Attached'
        BY <1>1, <1>5, <2>1, <3>2, <3>3, MoveOutside DEF clear_group_for_rebuild, Return, walVars
      <3> QED
        BY <1>5, <3>1, <3>4, LogAlone DEF Inv, clear_group_for_rebuild
    <2>2. CASE ~(Return(c) /\ UNCHANGED <<lock, rows, applied, behind, cleared>>)
      <3>1. {} \in SUBSET Nat
        OBVIOUS
      <3>2. /\ rows' \in [Insts -> [Groups -> SUBSET Nat]]
            /\ applied' \in [Insts -> [Groups -> SUBSET Nat]]
        <4>1. /\ rows' = [rows EXCEPT ![live][req[c].g] = {}]
              /\ applied' = [applied EXCEPT ![live][req[c].g] = {}]
          BY <1>5, <2>2 DEF clear_group_for_rebuild
        <4>2. /\ rows \in [Insts -> [Groups -> SUBSET Nat]]
              /\ applied \in [Insts -> [Groups -> SUBSET Nat]]
          BY DEF Inv, TypeOK
        <4> QED
          BY <3>1, <4>1, <4>2, EntryType
      <3>3. TypeOK'
        <4>1. behind' \in [Insts -> SUBSET Groups] /\ cleared' \subseteq Groups
          <5>1. /\ behind' = [behind EXCEPT ![live] = @ \cup {req[c].g}]
                /\ cleared' = cleared \cup {req[c].g}
            BY <1>5, <2>2 DEF clear_group_for_rebuild
          <5> QED
            BY <1>2, <5>1 DEF Inv, TypeOK
        <4>2. handle' \in [Clients -> Insts \cup {None}] /\ pc' \in [Clients -> PCs]
          <5>1. handle' = [handle EXCEPT ![c] = live] /\ pc' = [pc EXCEPT ![c] = "rb_reset"]
            BY <1>5, <2>2 DEF clear_group_for_rebuild, Goto
          <5> QED
            BY <5>1 DEF Inv, TypeOK, PCs
        <4>3. lock' = c /\ UNCHANGED <<req, flushed>>
          BY <1>5, <2>2 DEF clear_group_for_rebuild
        <4> QED
          BY <1>5, <3>2, <4>1, <4>2, <4>3 DEF Inv, TypeOK, clear_group_for_rebuild, walVars
      <3>4. LockHeld' /\ WipeHasNoWriter' /\ Attached'
        BY <1>5, <2>2, Enter DEF clear_group_for_rebuild, Goto, walVars
      <3> QED
        BY <1>5, <3>3, <3>4, LogAlone DEF Inv, clear_group_for_rebuild
    <2> QED
      BY <2>1, <2>2
  <1>6. ASSUME ClearedPosition(c) PROVE Inv'
    <2>1. pc[c] \in Critical /\ lock' = None /\ UNCHANGED <<task, walVars, drops>>
      BY <1>6 DEF ClearedPosition, Critical
    <2>2. CASE Return(c) /\ UNCHANGED posn
      <3>1. TypeOK'
        BY <1>6, <2>2, ReturnType DEF Inv, TypeOK, ClearedPosition, walVars
      <3>2. LockHeld' /\ WipeHasNoWriter' /\ Attached'
        BY <1>1, <2>1, <2>2, Leave DEF Return
      <3> QED
        BY <2>1, <3>1, <3>2, LogAlone DEF Inv
    <2>3. CASE ~(Return(c) /\ UNCHANGED posn)
      <3>1. [seq |-> 0, gen |-> gen[req[c].g]] \in Position \cup {None}
        BY <1>2 DEF Inv, TypeOK, Position
      <3>2. posn' \in [Insts -> [Groups -> Position \cup {None}]]
        <4>1. posn' = [posn EXCEPT ![handle[c]][req[c].g] = [seq |-> 0, gen |-> gen[req[c].g]]]
          BY <1>6, <2>3 DEF ClearedPosition, set_wal_position
        <4>2. posn \in [Insts -> [Groups -> Position \cup {None}]]
          BY DEF Inv, TypeOK
        <4> QED
          BY <3>1, <4>1, <4>2, EntryType
      <3>3. TypeOK'
        BY <1>6, <2>3, <3>2 DEF Inv, TypeOK, ClearedPosition, Goto, PCs, walVars
      <3>4. LockHeld' /\ WipeHasNoWriter' /\ Attached'
        BY <1>1, <1>6, <2>1, <2>3, Leave DEF ClearedPosition, Goto
      <3> QED
        BY <2>1, <3>3, <3>4, LogAlone DEF Inv
    <2> QED
      BY <2>2, <2>3
  <1> QED
    BY <1>3, <1>4, <1>5, <1>6

\* A new replay run is well typed.
LEMMA NewTaskType ==
  ASSUME TypeOK, NEW c \in Clients, NEW o \in Clients \cup {None}, live # None
  PROVE  NewTask(c, o) \in Task_ /\ NewTask(c, o).pc = "queued"
  <1>1. req[c] \in Request_ /\ live \in Insts
    BY DEF TypeOK
  <1>2. req[c].g \in Groups /\ req[c].from \in Nat /\ req[c].gen \in Nat \cup {None}
    BY <1>1 DEF Request_
  <1> QED
    BY <1>1, <1>2 DEF NewTask, Task_

\* The request half of knowledge_rebuild_from_wal that admits and starts a replay run.
LEMMA AdmitSteps ==
  ASSUME Inv, NEW c \in Clients
  PROVE  /\ RebuildAdmit(c) => Inv'
         /\ RebuildSpawn(c) => Inv'
  <1> USE DEF dbVars
  <1>1. {"idle", "rb_stream", "rb_spawn"} \subseteq PCs \ Critical
    BY DEF PCs, Critical
  <1>2. ASSUME NEW t \in Tasks, NEW k \in Task_, k.pc = "queued", task' = [task EXCEPT ![t] = k],
               pc[c] \notin Critical, UNCHANGED <<lock, writer, drops>>,
               NEW l \in {"idle", "rb_stream"}, pc' = [pc EXCEPT ![c] = l],
               \A d \in Clients \ {c} : req'[d] = req[d]
        PROVE  LockHeld' /\ WipeHasNoWriter' /\ Attached'
    <2>1. LockHeld'
      BY <1>1, <1>2 DEF Inv, TypeOK, LockHeld
    <2>2. WipeHasNoWriter'
      BY <1>1, <1>2 DEF Inv, TypeOK, WipeHasNoWriter, Preserves, Critical
    <2>3. Attached'
      BY <1>2 DEF Inv, TypeOK, Attached
    <2> QED
      BY <2>1, <2>2, <2>3
  <1>3. ASSUME RebuildAdmit(c) PROVE Inv'
    <2>1. pc[c] \notin Critical /\ UNCHANGED <<lock, dbVars, walVars, row, crashes, drops, cleared, lost>>
      BY <1>3 DEF RebuildAdmit, Critical
    <2>2. CASE Return(c) /\ UNCHANGED taskVars
      <3>1. TypeOK'
        BY <2>1, <2>2, ReturnType DEF Inv, TypeOK, walVars, taskVars
      <3>2. \A d \in Clients \ {c} : req'[d] = req[d]
        BY <2>2 DEF Return, Inv, TypeOK
      <3>3. LockHeld' /\ WipeHasNoWriter' /\ Attached'
        BY <1>1, <2>1, <2>2, <3>2, MoveOutside DEF Return, walVars, taskVars
      <3> QED
        BY <2>1, <3>1, <3>3, LogAlone DEF Inv
    <2>3. CASE /\ live # None
               /\ \E t \in Tasks : Unused(t) /\ task' = [task EXCEPT ![t] = NewTask(c, c)]
               /\ Goto(c, "rb_stream")
               /\ UNCHANGED <<req, handle, flushed, job>>
      <3>1. PICK t \in Tasks : task' = [task EXCEPT ![t] = NewTask(c, c)]
        BY <2>3
      <3>2. NewTask(c, c) \in Task_ /\ NewTask(c, c).pc = "queued"
        BY <2>3, NewTaskType DEF Inv
      <3>3. TypeOK'
        BY <2>1, <2>3, <3>1, <3>2 DEF Inv, TypeOK, walVars, Goto, PCs
      <3>4. LockHeld' /\ WipeHasNoWriter' /\ Attached'
        BY <1>2, <2>1, <2>3, <3>1, <3>2 DEF Goto, walVars
      <3> QED
        BY <2>1, <3>3, <3>4, LogAlone DEF Inv
    <2>4. CASE /\ \E t \in Tasks : Unused(t) /\ job' = [job EXCEPT ![t] = "running"]
               /\ Goto(c, "rb_spawn")
               /\ UNCHANGED <<req, handle, flushed, task>>
      <3>1. TypeOK'
        BY <2>1, <2>4 DEF Inv, TypeOK, walVars, Goto, PCs
      <3>2. LockHeld' /\ WipeHasNoWriter' /\ Attached'
        BY <1>1, <2>1, <2>4, MoveOutside DEF Goto, walVars
      <3> QED
        BY <2>1, <3>1, <3>2, LogAlone DEF Inv
    <2> QED
      BY <1>3, <2>2, <2>3, <2>4 DEF RebuildAdmit
  <1>4. ASSUME RebuildSpawn(c) PROVE Inv'
    <2>1. /\ pc[c] \notin Critical /\ Return(c)
          /\ UNCHANGED <<lock, dbVars, walVars, row, job, crashes, drops, cleared, lost>>
      BY <1>4 DEF RebuildSpawn, Critical
    <2>2. \A d \in Clients \ {c} : req'[d] = req[d]
      BY <2>1 DEF Return, Inv, TypeOK
    <2>3. CASE UNCHANGED task
      <3>1. TypeOK'
        BY <2>1, <2>3, ReturnType DEF Inv, TypeOK, walVars
      <3>2. LockHeld' /\ WipeHasNoWriter' /\ Attached'
        BY <1>1, <2>1, <2>2, <2>3, MoveOutside DEF Return, walVars
      <3> QED
        BY <2>1, <3>1, <3>2, LogAlone DEF Inv
    <2>4. CASE live # None /\ \E t \in Tasks : task' = [task EXCEPT ![t] = NewTask(c, None)]
      <3>1. PICK t \in Tasks : task' = [task EXCEPT ![t] = NewTask(c, None)]
        BY <2>4
      <3>2. NewTask(c, None) \in Task_ /\ NewTask(c, None).pc = "queued"
        BY <2>4, NewTaskType DEF Inv
      <3>3. TypeOK'
        BY <2>1, <3>1, <3>2, ReturnType DEF Inv, TypeOK, walVars
      <3>4. LockHeld' /\ WipeHasNoWriter' /\ Attached'
        BY <1>2, <2>1, <2>2, <3>1, <3>2 DEF Return, walVars
      <3> QED
        BY <2>1, <3>3, <3>4, LogAlone DEF Inv
    <2> QED
      BY <1>4, <2>3, <2>4 DEF RebuildSpawn
  <1> QED
    BY <1>3, <1>4

\* A run ends: it resyncs the writer and, unless its client disconnected, frees the lock
\* and answers its owner, if it has one.
LEMMA RunEnds ==
  ASSUME Inv, NEW t \in Tasks, task[t] # None, task[t].pc \in Replays,
         NEW k \in Task_ \cup {None}, k # None => k.pc = "done", task' = [task EXCEPT ![t] = k],
         EndRun(t), resync_global_seq_after_rebuild(task[t].g, None)
                    \/ resync_global_seq_after_rebuild(task[t].g, task[t].last),
         UNCHANGED <<live, disk, rows, inst, applied, wal, named, severed, row, job, crashes, drops,
                     lost>>,
         posn' \in [Insts -> [Groups -> Position \cup {None}]],
         behind' \in [Insts -> SUBSET Groups]
  PROVE  Inv'
  <1>1. task[t] \in Task_
    BY DEF Inv, TypeOK
  <1>2. /\ task[t].g \in Groups /\ task[t].last \in Nat \cup {None}
        /\ task[t].owner \in Clients \cup {None}
    BY <1>1 DEF Task_
  <1>3. WalType' /\ SeqsIncrease' /\ WriterAhead'
    <2>1. None \in Nat \cup {None}
      OBVIOUS
    <2> QED
      BY <1>2, <2>1, ResyncStep DEF Inv
  <1>4. /\ pc' \in [Clients -> PCs] /\ req' \in [Clients -> Request_]
        /\ handle' \in [Clients -> Insts \cup {None}]
        /\ flushed' \in [Clients -> Position \cup {None}]
        /\ \A d \in Clients : pc'[d] = pc[d] \/ pc'[d] = "idle"
    <2>1. CASE task[t].pc = "replay" /\ task[t].owner \in Clients
      <3>1. Return(task[t].owner)
        BY <2>1 DEF EndRun
      <3> QED
        BY <2>1, <3>1, ReturnType DEF Inv, TypeOK, Return
    <2>2. CASE ~(task[t].pc = "replay" /\ task[t].owner \in Clients)
      BY <2>2 DEF EndRun, reqVars, Inv, TypeOK
    <2> QED
      BY <2>1, <2>2
  <1>5. /\ task' \in [Tasks -> Task_ \cup {None}]
        /\ \A u \in Tasks \ {t} : task'[u] = task[u]
        /\ task'[t] # None => task'[t].pc = "done"
    BY DEF Inv, TypeOK
  <1>6. lock' \in {lock, None} /\ cleared' \subseteq Groups
    BY DEF EndRun, Inv, TypeOK
  <1>7. TypeOK'
    BY <1>3, <1>4, <1>5, <1>6 DEF Inv, TypeOK, WalType
  <1>8. Attached'
    BY <1>5 DEF Inv, Attached
  <1>9. CASE task[t].pc = "replay"
    <2>1. lock = t
      BY <1>9 DEF Inv, LockHeld
    <2>2. \A d \in Clients : pc'[d] \notin Critical
      BY <1>4, <2>1, ConstantsAssumption DEF Inv, LockHeld, Critical
    <2>3. \A u \in Tasks : ~(task'[u] # None /\ task'[u].pc = "replay")
      BY <1>5, <2>1 DEF Inv, LockHeld
    <2>4. LockHeld' /\ WipeHasNoWriter'
      BY <2>2, <2>3 DEF LockHeld, WipeHasNoWriter, Critical
    <2> QED
      BY <1>3, <1>7, <1>8, <2>4 DEF Inv
  <1>10. CASE task[t].pc # "replay"
    <2>1. lock' = lock /\ pc' = pc
      BY <1>10 DEF EndRun, reqVars
    <2>2. LockHeld'
      BY <1>5, <2>1 DEF Inv, LockHeld
    <2>3. drops' # 0
      BY <1>10 DEF Inv, Attached, Replays
    <2>4. WipeHasNoWriter'
      BY <2>3 DEF WipeHasNoWriter
    <2> QED
      BY <1>3, <1>7, <1>8, <2>2, <2>4 DEF Inv
  <1> QED
    BY <1>9, <1>10

\* The client of a streaming rebuild disconnects: the lock is freed under the replay.
LEMMA DisconnectStep ==
  ASSUME Inv, NEW t \in Tasks, Disconnect(t)
  PROVE  Inv'
  <1> USE DEF dbVars
  <1> DEFINE k == task[t]
             x == [k EXCEPT !.pc = "detached"]
  <1>1. k # None /\ k \in Task_ /\ k.pc = "replay" /\ k.owner \in Clients /\ lock = t
    BY DEF Disconnect, Inv, TypeOK, LockHeld
  <1>2. x \in Task_ /\ x.pc = "detached"
    BY <1>1, TaskType DEF Replays
  <1>3. task' = [task EXCEPT ![t] = x] /\ lock' = None /\ Return(k.owner)
    BY DEF Disconnect
  <1>4. drops' \in Nat /\ drops' # 0
    BY DEF Disconnect, Inv, TypeOK
  <1> HIDE DEF x
  <1>5. /\ task' \in [Tasks -> Task_ \cup {None}]
        /\ \A u \in Tasks \ {t} : task'[u] = task[u]
        /\ task'[t] = x
    BY <1>2, <1>3 DEF Inv, TypeOK
  <1>6. /\ pc' \in [Clients -> PCs] /\ req' \in [Clients -> Request_]
        /\ handle' \in [Clients -> Insts \cup {None}]
        /\ flushed' \in [Clients -> Position \cup {None}]
        /\ \A d \in Clients : pc'[d] = pc[d] \/ pc'[d] = "idle"
    BY <1>1, <1>3, ReturnType DEF Inv, TypeOK, Return
  <1>7. cleared' \subseteq Groups
    BY DEF Disconnect, Inv, TypeOK
  <1>8. TypeOK'
    BY <1>3, <1>4, <1>5, <1>6, <1>7 DEF Disconnect, Inv, TypeOK, walVars
  <1>9. SeqsIncrease' /\ WriterAhead'
    BY <1>4 DEF Disconnect, Inv, SeqsIncrease, WriterAhead, walVars
  <1>10. LockHeld'
    <2>1. \A d \in Clients : pc'[d] \notin Critical
      BY <1>1, <1>6, ConstantsAssumption DEF Inv, LockHeld, Critical
    <2>2. \A u \in Tasks : ~(task'[u] # None /\ task'[u].pc = "replay")
      BY <1>1, <1>2, <1>5 DEF Inv, LockHeld
    <2> QED
      BY <2>1, <2>2 DEF LockHeld
  <1>11. WipeHasNoWriter' /\ Attached'
    BY <1>4 DEF WipeHasNoWriter, Attached
  <1> QED
    BY <1>8, <1>9, <1>10, <1>11 DEF Inv

\* The steps of a replay run.
LEMMA TaskSteps ==
  ASSUME Inv, NEW t \in Tasks
  PROVE  /\ TaskLock(t) => Inv'
         /\ ReplayBatch(t) => Inv'
         /\ ReplayFinish(t) => Inv'
         /\ ReplayFails(t) => Inv'
         /\ JobStatus(t) => Inv'
  <1> USE DEF dbVars
  <1> DEFINE k == task[t]
  <1>1. k # None => k \in Task_
    BY DEF Inv, TypeOK
  <1>2. k # None => /\ k.g \in Groups /\ k.h \in Insts /\ k.i \in Nat \ {0}
                    /\ k.last \in Nat \cup {None} /\ k.gen \in Nat \cup {None}
    BY <1>1 DEF Task_
  <1>3. k # None => /\ [k EXCEPT !.pc = "replay"] \in Task_
                    /\ [k EXCEPT !.pc = "replay"].pc = "replay"
                    /\ [k EXCEPT !.pc = "done"] \in Task_
    BY <1>1, TaskType DEF Replays
  <1>4. ASSUME TaskLock(t) PROVE Inv'
    <2>1. task' = [task EXCEPT ![t] = [k EXCEPT !.pc = "replay"]] /\ k # None
      BY <1>4 DEF TaskLock
    <2>2. task' \in [Tasks -> Task_ \cup {None}] /\ \A u \in Tasks \ {t} : task'[u] = task[u]
      BY <1>3, <2>1 DEF Inv, TypeOK
    <2>a. Attached'
      BY <1>3, <1>4, <2>1, <2>2 DEF Inv, TypeOK, Attached, TaskLock
    <2>3. TypeOK'
      BY <1>4, <2>2 DEF Inv, TypeOK, TaskLock, walVars, reqVars
    <2>4. LockHeld'
      BY <1>4, <2>2, ConstantsAssumption DEF Inv, LockHeld, TaskLock, reqVars
    <2>5. WipeHasNoWriter'
      BY <1>4 DEF Inv, WipeHasNoWriter, Preserves, TaskLock, reqVars, walVars
    <2> QED
      BY <1>4, <2>3, <2>4, <2>5, <2>a, LogAlone DEF Inv, TaskLock
  <1>5. ASSUME ReplayBatch(t) PROVE Inv'
    <2> DEFINE s == wal[k.g]
               Batch(j) == {x \in k.i..j : s[x].seq >= k.from}
               Fails(j) == \E x \in Batch(j) : s[x].kind = "create" /\ s[x].row \in rows[k.h][k.g]
               Commits(j) == Batch(j) # {} /\ ~Fails(j)
               Rows(j) == {s[x].row : x \in Batch(j)}
               last(j) == IF Commits(j) THEN s[j].seq ELSE k.last
               clean(j) == k.clean /\ ~Fails(j)
               place == IF k.pc = "detached" THEN "leaving" ELSE k.pc
               next(j) == [k EXCEPT !.i = j + 1, !.last = last(j), !.clean = clean(j),
                                    !.pc = place]
    <2>1. k # None /\ k.pc \in {"replay", "detached"}
      BY <1>5 DEF ReplayBatch
    <2>2. PICK j \in k.i..Len(s) :
             /\ rows' = [rows EXCEPT ![k.h][k.g] =
                            IF Commits(j) THEN IF s[j].kind = "create" THEN @ \cup Rows(j) ELSE {}
                            ELSE @]
             /\ applied' = [applied EXCEPT ![k.h][k.g] =
                               IF Commits(j) THEN @ \cup Rows(j) ELSE @]
             /\ task' = [task EXCEPT ![t].i = j + 1,
                                     ![t].last = IF Commits(j) THEN s[j].seq ELSE @,
                                     ![t].clean = @ /\ ~Fails(j),
                                     ![t].pc = IF @ = "detached" THEN "leaving" ELSE @]
      BY <1>5 DEF ReplayBatch
    <2>3. s \in Seq(Line)
      BY <1>2, <2>1 DEF Inv, TypeOK
    <2>4. \A x \in k.i..j : x \in DOMAIN s /\ s[x].seq \in Nat /\ s[x].row \in Nat
      <3>1. \A x \in k.i..j : x \in DOMAIN s /\ s[x] \in Line
        BY <1>2, <2>1, <2>3
      <3> QED
        BY <3>1 DEF Line
    <2>5. j \in k.i..j /\ j + 1 \in Nat \ {0} /\ s[j].seq \in Nat
      BY <1>2, <2>1, <2>3, <2>4
    <2>6. Rows(j) \in SUBSET Nat
      BY <2>4
    <2>7. rows' \in [Insts -> [Groups -> SUBSET Nat]] /\ applied' \in [Insts -> [Groups -> SUBSET Nat]]
      <3>1. rows \in [Insts -> [Groups -> SUBSET Nat]] /\ applied \in [Insts -> [Groups -> SUBSET Nat]]
        BY DEF Inv, TypeOK
      <3> DEFINE e == IF Commits(j)
                      THEN IF s[j].kind = "create" THEN rows[k.h][k.g] \cup Rows(j) ELSE {}
                      ELSE rows[k.h][k.g]
                 f == IF Commits(j) THEN applied[k.h][k.g] \cup Rows(j) ELSE applied[k.h][k.g]
      <3>2. rows[k.h][k.g] \in SUBSET Nat /\ applied[k.h][k.g] \in SUBSET Nat
        BY <1>2, <2>1, <3>1
      <3> HIDE DEF Rows, Commits
      <3>3. e \in SUBSET Nat /\ f \in SUBSET Nat
        BY <2>6, <3>2
      <3>4. rows' = [rows EXCEPT ![k.h][k.g] = e] /\ applied' = [applied EXCEPT ![k.h][k.g] = f]
        BY <1>2, <2>1, <2>2, <3>1
      <3> HIDE DEF e, f
      <3> QED
        BY <3>1, <3>3, <3>4, EntryType
    <2>8. last(j) \in Nat \cup {None} /\ clean(j) \in BOOLEAN
      <3>1. k.clean \in BOOLEAN
        BY <1>1, <2>1 DEF Task_
      <3>2. last(j) \in Nat \cup {None}
        BY <1>2, <2>1, <2>5
      <3> QED
        BY <3>1, <3>2
    <2>9. task' = [task EXCEPT ![t] = next(j)]
      <3> HIDE DEF Commits, Fails
      <3> QED
        BY <2>2
    <2>10. next(j) \in Task_ /\ next(j).pc = place
      <3>1. k \in Task_ /\ place \in Replays
        BY <1>1, <2>1 DEF Replays
      <3> DEFINE n == j + 1
                 l == last(j)
                 b == clean(j)
      <3>2. n \in Nat \ {0} /\ l \in Nat \cup {None} /\ b \in BOOLEAN
        BY <2>5, <2>8
      <3> HIDE DEF last, clean, k, place, n, l, b
      <3>3. /\ [k EXCEPT !.i = n, !.last = l, !.clean = b, !.pc = place] \in Task_
            /\ [k EXCEPT !.i = n, !.last = l, !.clean = b, !.pc = place].pc = place
        BY <3>1, <3>2 DEF Task_
      <3> QED
        BY <3>3 DEF n, l, b
    <2> HIDE DEF next
    <2>11. /\ task' \in [Tasks -> Task_ \cup {None}]
           /\ \A u \in Tasks \ {t} : task'[u] = task[u]
           /\ task'[t].pc = place
      <3> HIDE DEF place
      <3> QED
        BY <2>9, <2>10 DEF Inv, TypeOK
    <2>12. TypeOK'
      BY <1>5, <2>7, <2>11 DEF Inv, TypeOK, ReplayBatch, walVars, reqVars
    <2>13. LockHeld'
      <3>1. place = "replay" => k # None /\ k.pc = "replay"
        BY <2>1
      <3>2. lock' = lock /\ pc' = pc
        BY <1>5 DEF ReplayBatch, reqVars
      <3>3. k = task[t] /\ LockHeld
        BY DEF Inv
      <3> HIDE DEF place, k
      <3>4. \A u \in Tasks : (task'[u] # None /\ task'[u].pc = "replay") => task[u] # None /\ task[u].pc = "replay"
        BY <2>11, <3>1, <3>3
      <3> QED
        BY <3>2, <3>3, <3>4 DEF LockHeld
    <2>a. Attached'
      <3>1. drops' = drops /\ (drops = 0 => place = "replay")
        BY <1>5, <2>1 DEF Inv, Attached, ReplayBatch
      <3> HIDE DEF place
      <3> QED
        BY <2>11, <3>1 DEF Inv, Attached
    <2>14. WipeHasNoWriter'
      BY <1>5 DEF Inv, WipeHasNoWriter, Preserves, ReplayBatch, reqVars, walVars
    <2> QED
      BY <1>5, <2>12, <2>13, <2>14, <2>a, LogAlone DEF Inv, ReplayBatch
  <1>6. ASSUME k # None, NEW x, x = IF k.owner = None THEN [k EXCEPT !.pc = "done"] ELSE None
        PROVE  x \in Task_ \cup {None} /\ (x # None => x.pc = "done")
    <2>1. [k EXCEPT !.pc = "done"].pc = "done"
      BY <1>1, <1>6 DEF Task_
    <2> QED
      BY <1>3, <1>6, <2>1
  <1>7. ASSUME ReplayFinish(t) PROVE Inv'
    <2>1. k # None /\ k.pc \in Replays
      BY <1>7 DEF ReplayFinish
    <2>2. posn' \in [Insts -> [Groups -> Position \cup {None}]]
      <3>1. posn \in [Insts -> [Groups -> Position \cup {None}]]
        BY DEF Inv, TypeOK
      <3>2. CASE PersistReplayed(k)
        <4>1. [seq |-> k.last, gen |-> k.gen] \in Position \cup {None}
          BY <1>2, <2>1, <3>2 DEF PersistReplayed, Position
        <4>2. posn' = [posn EXCEPT ![k.h][k.g] = [seq |-> k.last, gen |-> k.gen]]
          BY <3>2 DEF PersistReplayed, set_wal_position
        <4> QED
          BY <3>1, <4>1, <4>2, EntryType
      <3> QED
        BY <1>7, <3>1, <3>2 DEF ReplayFinish
    <2>3. behind' \in [Insts -> SUBSET Groups]
      BY <1>7 DEF ReplayFinish, Inv, TypeOK
    <2> DEFINE x == IF k.owner = None THEN [k EXCEPT !.pc = "done"] ELSE None
    <2>4. x \in Task_ \cup {None} /\ (x # None => x.pc = "done")
      BY <1>6, <2>1
    <2>5. task' = [task EXCEPT ![t] = x]
      BY <1>7 DEF ReplayFinish
    <2> HIDE DEF x
    <2> QED
      BY <1>7, <2>1, <2>2, <2>3, <2>4, <2>5, RunEnds DEF ReplayFinish
  <1>8. ASSUME ReplayFails(t) PROVE Inv'
    <2>1. k # None /\ k.pc \in Replays
      BY <1>8 DEF ReplayFails
    <2>2. /\ posn' \in [Insts -> [Groups -> Position \cup {None}]]
          /\ behind' \in [Insts -> SUBSET Groups]
      BY <1>8 DEF ReplayFails, Inv, TypeOK
    <2> DEFINE x == IF k.owner = None THEN [k EXCEPT !.pc = "done"] ELSE None
    <2>3. x \in Task_ \cup {None} /\ (x # None => x.pc = "done")
      BY <1>6, <2>1
    <2>4. task' = [task EXCEPT ![t] = x]
      BY <1>8 DEF ReplayFails
    <2> HIDE DEF x
    <2> QED
      BY <1>8, <2>1, <2>2, <2>3, <2>4, RunEnds DEF ReplayFails
  <1>9. ASSUME JobStatus(t) PROVE Inv'
    <2>1. TypeOK'
      BY <1>9 DEF Inv, TypeOK, JobStatus, walVars, reqVars
    <2>2. LockHeld'
      BY <1>9 DEF Inv, TypeOK, LockHeld, JobStatus, reqVars
    <2>3. WipeHasNoWriter'
      BY <1>9 DEF Inv, WipeHasNoWriter, Preserves, JobStatus, reqVars, walVars
    <2>4. Attached'
      BY <1>9 DEF Inv, TypeOK, Attached, JobStatus
    <2> QED
      BY <1>9, <2>1, <2>2, <2>3, <2>4, LogAlone DEF Inv, JobStatus
  <1> QED
    BY <1>4, <1>5, <1>7, <1>8, <1>9

\* A crash or a restart.
LEMMA CrashSteps ==
  ASSUME Inv
  PROVE  (Crash => Inv') /\ (Restart => Inv')
  <1>1. ASSUME Crash PROVE Inv'
    <2>1. TypeOK'
      BY <1>1, NoReqType DEF Inv, TypeOK, Crash, PCs, RecordAlone
    <2>2. LockHeld' /\ WipeHasNoWriter' /\ Attached'
      BY <1>1 DEF LockHeld, WipeHasNoWriter, Attached, Critical, Crash
    <2>3. SeqsIncrease' /\ WriterAhead'
      BY <1>1 DEF Inv, SeqsIncrease, WriterAhead, Crash
    <2> QED
      BY <2>1, <2>2, <2>3 DEF Inv
  <1>2. ASSUME Restart PROVE Inv'
    <2>1. inst' \in Insts /\ live' \in Insts \cup {None} /\ disk' \in Insts \cup {None}
      BY <1>2, ConstantsAssumption DEF Inv, TypeOK, Restart, FreshInst
    <2>2. posn' \in [Insts -> [Groups -> Position \cup {None}]]
      <3>1. posn \in [Insts -> [Groups -> Position \cup {None}]]
        BY DEF Inv, TypeOK
      <3>2. CASE FreshInst(TRUE)
        <4>1. [seq |-> 0, gen |-> gen[DefaultGroup]] \in Position \cup {None}
          BY ConstantsAssumption DEF Inv, TypeOK, Position
        <4>2. posn' = [posn EXCEPT ![inst + 1][DefaultGroup] = [seq |-> 0, gen |-> gen[DefaultGroup]]]
          BY <3>2 DEF FreshInst
        <4> QED
          BY <3>1, <4>1, <4>2, EntryType
      <3> QED
        BY <1>2, <3>1, <3>2 DEF Restart
    <2>3. TypeOK'
      <3>1. behind' \in [Insts -> SUBSET Groups]
        <4> DEFINE kept == {g \in Groups : wal[g] # <<>>}
        <4>1. behind' = behind \/ behind' = [behind EXCEPT ![inst + 1] = kept]
          BY <1>2 DEF Restart, FreshInst
        <4>2. kept \in SUBSET Groups
          OBVIOUS
        <4> HIDE DEF kept
        <4> QED
          BY <4>1, <4>2 DEF Inv, TypeOK
      <3> QED
        BY <1>2, <2>1, <2>2, <3>1 DEF Inv, TypeOK, Restart, PCs, walVars, taskVars
    <2>4. LockHeld' /\ WipeHasNoWriter' /\ Attached'
      BY <1>2 DEF Inv, LockHeld, WipeHasNoWriter, Attached, Critical, Restart, taskVars
    <2> QED
      BY <1>2, <2>3, <2>4, LogAlone DEF Inv, Restart
  <1> QED
    BY <1>1, <1>2

\* A fresh service satisfies the invariant.
LEMMA InvInit == Init => Inv
  <1> SUFFICES ASSUME Init PROVE Inv
    OBVIOUS
  <1>1. wal \in [Groups -> Seq(Line)]
    BY DEF Init
  <1>2. posn \in [Insts -> [Groups -> Position \cup {None}]]
    BY ConstantsAssumption DEF Init, Position
  <1>3. TypeOK
    BY <1>1, <1>2, NoReqType, ConstantsAssumption DEF Init, TypeOK, PCs
  <1>4. SeqsIncrease /\ WriterAhead
    BY DEF Init, SeqsIncrease, WriterAhead
  <1>5. LockHeld /\ WipeHasNoWriter /\ Attached
    BY DEF Init, LockHeld, WipeHasNoWriter, Attached, Critical
  <1> QED
    BY <1>3, <1>4, <1>5 DEF Inv

\* Every step of the service keeps the invariant.
LEMMA InvNext == Inv /\ [Next]_vars => Inv'
  <1> SUFFICES ASSUME Inv, [Next]_vars PROVE Inv'
    OBVIOUS
  <1>1. ASSUME NEW c \in Clients, Request(c) PROVE Inv'
    BY <1>1, WriteSteps, ClearSteps, RebuildSteps DEF Request
  <1>2. ASSUME NEW c \in Clients, ClientStep(c) PROVE Inv'
    BY <1>2, WriteSteps, FlushSteps, ClearSteps, RebuildSteps, AdmitSteps DEF ClientStep
  <1>3. ASSUME NEW t \in Tasks, TaskStep(t) \/ Disconnect(t) PROVE Inv'
    BY <1>3, TaskSteps, DisconnectStep DEF TaskStep
  <1>4. CASE Crash \/ Restart
    BY <1>4, CrashSteps
  <1>5. CASE UNCHANGED vars
    BY <1>5 DEF vars, dbVars, walVars, taskVars, reqVars, Inv, TypeOK, SeqsIncrease, WriterAhead,
                LockHeld, WipeHasNoWriter, Attached, Preserves
  <1> QED
    BY <1>1, <1>2, <1>3, <1>4, <1>5 DEF Next, Idle

\* The invariant holds in every reachable state.
THEOREM InvCorrect == Spec => []Inv
  BY InvInit, InvNext, PTL DEF Spec

\* The state of the service is always well typed: no handler, job, crash or restart leaves
\* a handle, a position, a writer or a job that the next step could not use.
THEOREM TypeCorrect == Spec => []TypeOK
  <1>1. Inv => TypeOK
    BY DEF Inv
  <1> QED
    BY <1>1, InvCorrect, PTL

\* The write_lock excludes: commits with their flush, knowledge_clear_all and replays, down
\* to the rest of a replay whose client disconnected, the only one to run without it.
THEOREM Exclusion == Spec => []LockHeld
  <1>1. Inv => LockHeld
    BY DEF Inv
  <1> QED
    BY <1>1, InvCorrect, PTL

\* The seqs of every stream increase, through failed appends, dropped writers, resyncs,
\* replays that run on without the lock, and crashes.
THEOREM SeqsUnique == Spec => []SeqsIncrease
  <1>1. Inv => SeqsIncrease
    BY DEF Inv
  <1> QED
    BY <1>1, InvCorrect, PTL

\* Every cached writer is past its stream, and carries the stream's generation as long as no
\* client has disconnected during a streaming rebuild.
THEOREM WritersAhead == Spec => []WriterAhead
  <1>1. Inv => WriterAhead
    BY DEF Inv
  <1> QED
    BY <1>1, InvCorrect, PTL

\* knowledge_clear_all removes the streams only while no writer points into them, as long as
\* no client has disconnected during a streaming rebuild.
THEOREM WipeSafe == Spec => []WipeHasNoWriter
  <1>1. Inv => WipeHasNoWriter
    BY DEF Inv
  <1> QED
    BY <1>1, InvCorrect, PTL

-----------------------------------------------------------------------------
(* What a recorded position means: PositionHonest is an invariant.         *)
(*                                                                         *)
(* The argument needs more than the position itself. A position comes from *)
(* a flush or from a replay, which took the handle they write it through   *)
(* some steps earlier; so the invariant follows every handle (never newer  *)
(* than the newest database), every seq on its way into a position, and    *)
(* the lines a running replay has behind it. A stream only loses lines     *)
(* while there is no database at db_path, and the database created next is *)
(* newer than every handle, so nothing recorded before a wipe can reach    *)
(* it. Pos is the conjunction, on top of Inv.                              *)

\* The database at db_path: the one that is served, newer than nothing that exists; its
\* positions point into the streams, and the groups that are not behind lack no line.
DatabaseOK ==
    /\ live # None => live = disk
    /\ disk # None => disk <= inst
    /\ \A i \in Insts : i > inst => \A g \in Groups : posn[i][g] = None
    /\ disk # None =>
         \A g \in Groups :
           posn[disk][g] = None \/ posn[disk][g].seq = 0 \/ posn[disk][g].seq \in Seqs(wal[g])
    /\ disk # None =>
         \A g \in Groups \ behind[disk] :
           \A k \in DOMAIN wal[g] : wal[g][k].row \in applied[disk][g]

\* A request: its handle exists, what it committed is there when its line is written, and
\* the seq it will record is in the stream; clear_all drops the handle before the files,
\* and removes the log after the database.
RequestOK(c) ==
    /\ handle[c] # None => handle[c] <= inst
    /\ pc[c] \in {"lock_wait", "committed", "flushed", "rb_reset"} => handle[c] # None
    /\ pc[c] \in {"committed", "flushed"} => req[c].row \in applied[handle[c]][req[c].g]
    /\ (pc[c] = "flushed" /\ flushed[c] # None) => flushed[c].seq \in Seqs(wal[req[c].g])
    /\ pc[c] \in {"wiping", "wiping_log", "reinit"} => live = None
    /\ pc[c] = "wiping_log" => disk = None

\* A replay run: its handle exists, a clean full replay under the lock has committed every
\* line it is past, and the last seq it committed is in the stream of its database.
RunOK(t) ==
    task[t] # None =>
      LET k == task[t]
      IN  /\ k.h <= inst
          /\ k.pc = "queued" => k.i = 1
          /\ (k.pc = "replay" /\ k.clean /\ k.from = 0) =>
               \A x \in DOMAIN wal[k.g] : x < k.i => wal[k.g][x].row \in applied[k.h][k.g]
          /\ (k.last # None /\ k.h = disk) => k.last \in Seqs(wal[k.g])

\* The generations: every one in use was minted; what was written under the generation a
\* stream has is in the stream, except while knowledge_clear_all is removing it.
Wiping == \E c \in Clients : pc[c] = "wiping_log"
NamesOK ==
    drops = 0 =>
      /\ \A g \in Groups : gen[g] # None => gen[g] < nextGen
      /\ \A a \in named : a.gen # None => a.gen < nextGen
      /\ \A a \in named :
           (a.g \notin severed /\ a.gen # None /\ gen[a.g] = a.gen)
             => a.seq \in Seqs(wal[a.g]) \/ (wal[a.g] = <<>> /\ Wiping)
      /\ \A a, b \in named :
           (a.g = b.g /\ a.g \notin severed /\ a.gen = b.gen /\ a.gen # None /\ a.seq = b.seq)
             => a.row = b.row

Pos ==
    /\ DatabaseOK
    /\ \A c \in Clients : RequestOK(c)
    /\ \A t \in Tasks : RunOK(t)
    /\ NamesOK

-----------------------------------------------------------------------------
(* What a step must leave alone for each part to survive it.               *)

\* Nothing that was committed to a database is taken back.
Keeps == \A i \in Insts, g \in Groups : applied[i][g] \subseteq applied'[i][g]

\* Nothing that was logged is removed.
Grows == \A g \in Groups : Seqs(wal[g]) \subseteq Seqs(wal'[g])

\* Incarnations are numbers.
LEMMA InstsNat == \A i \in Insts : i \in Nat
  BY ConstantsAssumption DEF Insts

\* A step that does not touch the log removes nothing from it.
LEMMA SeqsSame == UNCHANGED wal => Grows
  BY DEF Grows

\* A step that does not touch the databases takes nothing back.
LEMMA AppliedSame == UNCHANGED applied => Keeps
  BY DEF Keeps

\* Whoever has the lock, or finds it free, is the only one in a critical section.
LEMMA Alone ==
  ASSUME Inv, NEW c \in Clients, lock \in {c, None} \/ pc[c] \in Critical
  PROVE  /\ \A d \in Clients \ {c} : pc[d] \notin Critical
         /\ \A t \in Tasks : task[t] # None => task[t].pc # "replay"
  BY ConstantsAssumption DEF Inv, LockHeld

\* A database, its positions and the streams that a step does not touch.
LEMMA DatabaseKept ==
  ASSUME Inv, DatabaseOK, UNCHANGED <<disk, inst, posn, behind, wal>>, live' \in {live, None}, Keeps
  PROVE  DatabaseOK'
  <1>1. \A g \in Groups : disk # None => applied[disk][g] \subseteq applied'[disk][g]
    BY DEF Inv, TypeOK, Keeps
  <1> QED
    BY <1>1 DEF DatabaseOK

\* A request that is not the one to step.
LEMMA RequestKept ==
  ASSUME Inv, NEW d \in Clients, RequestOK(d), inst <= inst', inst' \in Nat,
         pc'[d] = pc[d], req'[d] = req[d], handle'[d] = handle[d], flushed'[d] = flushed[d],
         pc[d] \in Critical => Keeps /\ Grows /\ disk' \in {disk, None} /\ live' \in {live, None}
  PROVE  RequestOK(d)'
  <1>1. /\ handle[d] \in Insts \cup {None} /\ handle[d] \in Nat \cup {None}
        /\ req[d].g \in Groups /\ inst \in Nat
    BY InstsNat DEF Inv, TypeOK, Request_
  <1>2. handle'[d] # None => handle'[d] <= inst'
    BY <1>1 DEF RequestOK
  <1>3. CASE pc[d] \in Critical
    BY <1>1, <1>2, <1>3 DEF RequestOK, Keeps, Grows
  <1>4. CASE pc[d] \notin Critical
    BY <1>2, <1>4 DEF RequestOK, Critical
  <1> QED
    BY <1>3, <1>4

\* A replay run that is not the one to step.
LEMMA RunKept ==
  ASSUME Inv, NEW t \in Tasks, RunOK(t), inst <= inst', inst' \in Nat, task'[t] = task[t],
         (task[t] # None /\ task[t].pc = "replay") => UNCHANGED wal /\ Keeps,
         (disk' \in {disk, None} /\ Grows) \/ disk' = None \/ disk' = inst + 1
  PROVE  RunOK(t)'
  <1> SUFFICES ASSUME task[t] # None PROVE RunOK(t)'
    BY DEF RunOK
  <1> DEFINE k == task[t]
  <1>1. k \in Task_ /\ inst \in Nat /\ None \notin Nat
    BY ConstantsAssumption, InstsNat DEF Inv, TypeOK
  <1>2. k.h \in Insts /\ k.g \in Groups /\ k.h \in Nat
    BY <1>1, InstsNat DEF Task_
  <1>3. k.h <= inst /\ k.h <= inst' /\ (k.pc = "queued" => k.i = 1)
    BY <1>1, <1>2 DEF RunOK
  <1>4. (k.pc = "replay" /\ k.clean /\ k.from = 0) =>
          \A x \in DOMAIN wal'[k.g] : x < k.i => wal'[k.g][x].row \in applied'[k.h][k.g]
    BY <1>2 DEF RunOK, Keeps
  <1>5. (k.last # None /\ k.h = disk') => k.last \in Seqs(wal'[k.g])
    <2>1. CASE disk' = inst + 1
      BY <1>1, <1>2, <1>3, <2>1
    <2>2. CASE disk' = None
      BY <1>1, <1>2, <2>2
    <2>3. CASE disk' = disk /\ Grows
      BY <1>2, <2>3 DEF RunOK, Grows
    <2> QED
      BY <2>1, <2>2, <2>3
  <1> QED
    BY <1>3, <1>4, <1>5 DEF RunOK

\* The generations and what they name, in a step that writes no line and mints nothing.
LEMMA NamesKept ==
  ASSUME NamesOK, UNCHANGED <<wal, gen, nextGen, named, severed, drops>>, Wiping => Wiping'
  PROVE  NamesOK'
  BY DEF NamesOK

\* ... and in a step that creates a writer: a generation it mints has named nothing yet.
LEMMA NamesMinted ==
  ASSUME Inv, NamesOK, NEW g \in Groups, MintGeneration(g), Wiping => Wiping',
         UNCHANGED <<wal, named, severed, drops>>
  PROVE  NamesOK'
  <1> SUFFICES ASSUME drops = 0 PROVE NamesOK'
    BY DEF NamesOK
  <1>1. CASE ~Mints(g)
    <2>1. gen' = gen /\ nextGen' = nextGen
      BY <1>1 DEF MintGeneration, Inv, TypeOK
    <2> QED
      BY <2>1, NamesKept
  <1>2. CASE Mints(g)
    <2>1. /\ gen'[g] = nextGen /\ nextGen' = nextGen + 1 /\ nextGen \in Nat
          /\ \A h \in Groups \ {g} : gen'[h] = gen[h]
          /\ \A h \in Groups : gen[h] \in Nat \cup {None}
      BY <1>2 DEF MintGeneration, Inv, TypeOK
    <2>2. \A a \in named : a.g \in Groups /\ a.gen \in Nat \cup {None}
      BY DEF Inv, TypeOK
    <2>3. \A h \in Groups : gen'[h] # None => gen'[h] < nextGen'
      BY <2>1 DEF NamesOK
    <2>4. \A a \in named : a.gen # None => a.gen < nextGen /\ a.gen < nextGen'
      BY <2>1, <2>2 DEF NamesOK
    <2>5. \A a \in named : (a.gen # None /\ gen'[a.g] = a.gen) => gen[a.g] = a.gen
      BY <2>1, <2>2, <2>4
    <2> QED
      BY <2>3, <2>4, <2>5 DEF NamesOK
  <1> QED
    BY <1>1, <1>2

\* The seqs of a stream that a chunk extended.
LEMMA ChunkSeqs ==
  ASSUME Inv, NEW g \in Groups, NEW kind \in {"create", "purge"}, NEW r \in Nat, with_chunk(g, kind, r)
  PROVE  /\ wal' = [wal EXCEPT ![g] = wal'[g]]
         /\ Grows
         /\ with_wal_writer(g).seq \in Seqs(wal'[g])
         /\ \A k \in DOMAIN wal'[g] : (k \in DOMAIN wal[g] /\ wal'[g][k] = wal[g][k])
                                      \/ wal'[g][k].row = r
  <1> DEFINE w == with_wal_writer(g)
             l == [seq |-> w.seq, kind |-> kind, row |-> r]
             s == wal[g]
  <1>1. s \in Seq(Line) /\ wal'[g] = Append(s, l) /\ wal' = [wal EXCEPT ![g] = Append(s, l)]
    BY DEF with_chunk, Inv, TypeOK
  <1>2. l \in Line /\ l.seq = w.seq /\ l.row = r
    <2>1. w.seq \in Nat
      BY WriterReady DEF Inv, Position
    <2> QED
      BY <2>1 DEF Line
  <1> HIDE DEF l, w
  <1>3. /\ DOMAIN wal'[g] = 1..Len(s) + 1 /\ DOMAIN s = 1..Len(s) /\ Len(s) \in Nat
        /\ \A k \in DOMAIN s : wal'[g][k] = s[k]
        /\ wal'[g][Len(s) + 1] = l
    BY <1>1, <1>2
  <1>4. Seqs(s) \subseteq Seqs(wal'[g])
    BY <1>3 DEF Seqs
  <1>5. Grows
    BY <1>1, <1>4 DEF Grows, Inv, TypeOK
  <1>6. w.seq \in Seqs(wal'[g])
    BY <1>2, <1>3 DEF Seqs
  <1> HIDE DEF s
  <1>7. \A k \in DOMAIN wal'[g] : (k \in DOMAIN s /\ wal'[g][k] = s[k]) \/ wal'[g][k].row = r
    BY <1>2, <1>3
  <1> QED
    BY <1>1, <1>5, <1>6, <1>7 DEF s, w

\* ... and in a step that writes a line: the pair it takes has named nothing yet.
LEMMA NamesWritten ==
  ASSUME Inv, Inv', NamesOK, NEW g \in Groups, NEW kind \in {"create", "purge"}, NEW r \in Nat,
         with_chunk(g, kind, r), ~Wiping, UNCHANGED drops
  PROVE  NamesOK'
  <1> SUFFICES ASSUME drops = 0 PROVE NamesOK'
    BY DEF NamesOK
  <1> DEFINE w == with_wal_writer(g)
             n == [g |-> g, gen |-> w.gen, seq |-> w.seq, row |-> r]
  <1>1. /\ w.gen = gen'[g] /\ \A x \in Seqs(wal[g]) : x < w.seq
        /\ w \in Position
        /\ \A h \in Groups \ {g} : gen'[h] = gen[h]
    BY WriterReady DEF with_chunk, Inv
  <1>2. w.seq \in Nat /\ w.gen \in Nat \cup {None}
    BY <1>1 DEF Position
  <1>3. named' = named \cup {n} /\ severed' = severed
    BY DEF with_chunk
  <1>4. Grows /\ w.seq \in Seqs(wal'[g])
    BY ChunkSeqs
  <1>5. /\ nextGen \in Nat /\ nextGen' \in Nat /\ nextGen <= nextGen'
        /\ gen'[g] = gen[g] \/ (gen'[g] = nextGen /\ nextGen' = nextGen + 1)
    <2>1. nextGen \in Nat /\ gen \in [Groups -> Nat \cup {None}]
      BY DEF Inv, TypeOK
    <2>2. MintGeneration(g)
      BY DEF with_chunk
    <2>3. CASE Mints(g)
      BY <2>1, <2>2, <2>3 DEF MintGeneration
    <2>4. CASE ~Mints(g)
      BY <2>1, <2>2, <2>4 DEF MintGeneration
    <2> QED
      BY <2>3, <2>4
  <1>6. \A a \in named : /\ a.g \in Groups /\ a.gen \in Nat \cup {None}
                         /\ a.gen # None => a.gen < nextGen /\ a.gen < nextGen'
    <2>1. \A a \in named : a.g \in Groups /\ a.gen \in Nat \cup {None}
      BY DEF Inv, TypeOK
    <2> QED
      BY <1>5, <2>1 DEF NamesOK
  <1>7. \A h \in Groups : gen'[h] # None => gen'[h] < nextGen'
    <2>1. \A h \in Groups : gen[h] \in Nat \cup {None} /\ (gen[h] # None => gen[h] < nextGen)
      BY DEF NamesOK, Inv, TypeOK
    <2> QED
      BY <1>1, <1>5, <2>1
  <1>8. n.g = g /\ n.gen = w.gen /\ n.seq = w.seq /\ n.row = r
    OBVIOUS
  <1> HIDE DEF n, w
  <1>9. ASSUME NEW a \in named, a.g \notin severed, a.gen # None, gen'[a.g] = a.gen
        PROVE  a.seq \in Seqs(wal[a.g]) /\ a.seq \in Seqs(wal'[a.g])
    <2>1. gen[a.g] = a.gen
      BY <1>1, <1>5, <1>6, <1>9
    <2>2. a.seq \in Seqs(wal[a.g])
      BY <1>9, <2>1 DEF NamesOK
    <2> QED
      BY <1>4, <1>6, <2>2 DEF Grows
  <1>10. ASSUME NEW a \in named, a.g = g, a.g \notin severed, a.gen = w.gen, a.gen # None
         PROVE  a.seq # w.seq
    BY <1>1, <1>2, <1>9, <1>10
  <1>11. /\ \A a \in named' : a.gen # None => a.gen < nextGen'
         /\ \A a \in named' :
              (a.g \notin severed' /\ a.gen # None /\ gen'[a.g] = a.gen) => a.seq \in Seqs(wal'[a.g])
    BY <1>1, <1>3, <1>4, <1>6, <1>7, <1>8, <1>9
  <1>12. \A a, b \in named' :
           (a.g = b.g /\ a.g \notin severed' /\ a.gen = b.gen /\ a.gen # None /\ a.seq = b.seq)
             => a.row = b.row
    BY <1>3, <1>8, <1>10 DEF NamesOK
  <1> QED
    BY <1>7, <1>11, <1>12 DEF NamesOK

-----------------------------------------------------------------------------
(* Steps of a request.                                                     *)

\* The state of the requests other than c.
OthersSame(c) ==
    \A d \in Clients \ {c} :
      /\ pc'[d] = pc[d] /\ req'[d] = req[d]
      /\ handle'[d] = handle[d] /\ flushed'[d] = flushed[d]

\* A handler that has returned owes nothing.
LEMMA Returned ==
  ASSUME Inv, NEW c \in Clients, Return(c)
  PROVE  RequestOK(c)' /\ OthersSame(c) /\ pc'[c] = "idle"
  BY DEF Inv, TypeOK, Return, RequestOK, OthersSame

\* A step of request c keeps the invariant when it keeps what the database, c itself and
\* the generations promise, and either harms nothing or is alone in the critical section.
LEMMA ByRequest ==
  ASSUME Inv, Inv', Pos, NEW c \in Clients, OthersSame(c), UNCHANGED task, inst <= inst',
         DatabaseOK', RequestOK(c)', NamesOK',
         \/ Keeps /\ UNCHANGED wal /\ disk' \in {disk, None} /\ live' \in {live, None}
         \/ /\ \A d \in Clients \ {c} : pc[d] \notin Critical
            /\ \A t \in Tasks : task[t] # None => task[t].pc # "replay"
            /\ (disk' \in {disk, None} /\ Grows) \/ disk' = None \/ disk' = inst + 1
  PROVE  Pos'
  <1>1. inst' \in Nat
    BY InstsNat DEF Inv, TypeOK
  <1>2. ASSUME NEW d \in Clients PROVE RequestOK(d)'
    <2>1. CASE d = c
      BY <2>1
    <2>2. CASE d # c
      <3>1. RequestOK(d) /\ d \in Clients \ {c}
        BY <2>2 DEF Pos
      <3>2. pc[d] \in Critical => Keeps /\ Grows /\ disk' \in {disk, None} /\ live' \in {live, None}
        BY <3>1, SeqsSame
      <3> QED
        BY <1>1, <3>1, <3>2, RequestKept DEF OthersSame
    <2> QED
      BY <2>1, <2>2
  <1>3. ASSUME NEW t \in Tasks PROVE RunOK(t)'
    <2>1. RunOK(t) /\ task'[t] = task[t]
      BY DEF Pos
    <2>2. (task[t] # None /\ task[t].pc = "replay") => UNCHANGED wal /\ Keeps
      OBVIOUS
    <2>3. (disk' \in {disk, None} /\ Grows) \/ disk' = None \/ disk' = inst + 1
      BY SeqsSame
    <2> QED
      BY <1>1, <2>1, <2>2, <2>3, RunKept
  <1> QED
    BY <1>2, <1>3 DEF Pos

\* A step of request c that touches neither the database nor the log.
LEMMA Quiet ==
  ASSUME Inv, Inv', Pos, NEW c \in Clients, OthersSame(c), pc[c] # "wiping_log", RequestOK(c)',
         UNCHANGED <<disk, inst, posn, applied, behind, walVars, drops, task>>, live' \in {live, None}
  PROVE  Pos'
  <1>1. Keeps /\ DatabaseOK'
    BY AppliedSame, DatabaseKept DEF Pos, walVars
  <1>2. NamesOK'
    BY NamesKept DEF Pos, Wiping, OthersSame, walVars
  <1>3. inst <= inst'
    BY InstsNat DEF Inv, TypeOK
  <1> QED
    BY <1>1, <1>2, <1>3, ByRequest DEF walVars

\* A step of request c that commits to a database and leaves everything else.
LEMMA Commits ==
  ASSUME Inv, Inv', Pos, NEW c \in Clients, OthersSame(c), pc[c] # "wiping_log", RequestOK(c)',
         UNCHANGED <<disk, inst, posn, behind, walVars, drops, task, live>>, Keeps
  PROVE  Pos'
  <1>1. DatabaseOK'
    BY DatabaseKept DEF Pos, walVars
  <1>2. NamesOK'
    BY NamesKept DEF Pos, Wiping, OthersSame, walVars
  <1>3. inst <= inst'
    BY InstsNat DEF Inv, TypeOK
  <1> QED
    BY <1>1, <1>2, <1>3, ByRequest DEF walVars

\* The steps of a write up to the commit.
LEMMA WritePos ==
  ASSUME Inv, Inv', Pos, NEW c \in Clients
  PROVE  /\ \A op \in Requests, g \in Groups : BeginWrite(c, op, g) => Pos'
         /\ LoadDb(c) => Pos'
         /\ Commit(c) => Pos'
         /\ CommitFails(c) => Pos'
  <1> USE DEF dbVars, taskVars
  <1>0. RequestOK(c) /\ DatabaseOK
    BY DEF Pos
  <1>1. ASSUME NEW op \in Requests, NEW g \in Groups, BeginWrite(c, op, g) PROVE Pos'
    <2>1. OthersSame(c) /\ RequestOK(c)' /\ pc[c] # "wiping_log"
      BY <1>0, <1>1 DEF BeginWrite, Goto, OthersSame, RequestOK, Inv, TypeOK
    <2> QED
      BY <1>1, <2>1, Quiet DEF BeginWrite
  <1>2. ASSUME LoadDb(c) PROVE Pos'
    <2>1. OthersSame(c) /\ RequestOK(c)'
      <3>1. CASE live = None
        BY <1>2, <3>1, Returned DEF LoadDb
      <3>2. CASE live # None
        BY <1>0, <1>2, <3>2 DEF LoadDb, Goto, OthersSame, RequestOK, DatabaseOK, Inv, TypeOK
      <3> QED
        BY <3>1, <3>2
    <2> QED
      BY <1>2, <2>1, Quiet DEF LoadDb
  <1>3. handle[c] \in Insts \cup {None} /\ req[c].g \in Groups /\ row \in Nat
    BY DEF Inv, TypeOK, Request_
  <1>4. applied \in [Insts -> [Groups -> SUBSET Nat]]
    BY DEF Inv, TypeOK
  <1>5. ASSUME NEW h, NEW g, NEW n, applied' = [applied EXCEPT ![h][g] = @ \cup {n}] PROVE Keeps
    BY <1>4, <1>5 DEF Keeps
  <1>6. ASSUME Commit(c) PROVE Pos'
    <2>1. applied' = [applied EXCEPT ![handle[c]][req[c].g] = @ \cup {row + 1}]
      BY <1>6 DEF Commit
    <2>2. handle[c] # None
      BY <1>0, <1>6 DEF Commit, RequestOK
    <2>3. row + 1 \in applied'[handle[c]][req[c].g]
      BY <1>3, <1>4, <2>1, <2>2
    <2>4. req'[c].row = row + 1 /\ req'[c].g = req[c].g /\ handle'[c] = handle[c]
      <3>1. req \in [Clients -> Request_] /\ req' = [req EXCEPT ![c].row = row + 1]
        BY <1>6 DEF Commit, Inv, TypeOK
      <3> QED
        BY <1>6, <3>1 DEF Commit, Request_
    <2>5. RequestOK(c)'
      <3>1. pc'[c] = "committed" /\ inst' = inst
        BY <1>6 DEF Commit, Goto, Inv, TypeOK
      <3> QED
        BY <1>0, <2>2, <2>3, <2>4, <3>1 DEF RequestOK
    <2>6. OthersSame(c)
      BY <1>6 DEF Commit, Goto, OthersSame, Inv, TypeOK
    <2>7. Keeps
      BY <1>5, <2>1
    <2> QED
      BY <1>6, <2>5, <2>6, <2>7, Commits DEF Commit
  <1>7. ASSUME CommitFails(c) PROVE Pos'
    <2>1. Keeps
      <3>1. CASE applied' = [applied EXCEPT ![handle[c]][req[c].g] = @ \cup {row + 1}]
        BY <1>5, <3>1
      <3>2. CASE UNCHANGED applied
        BY <3>2, AppliedSame
      <3> QED
        BY <1>7, <3>1, <3>2 DEF CommitFails
    <2> QED
      BY <1>7, <2>1, Returned, Commits DEF CommitFails
  <1> QED
    BY <1>1, <1>2, <1>6, <1>7

\* The entries of a table indexed by incarnation and group after one was overwritten.
LEMMA EntrySet ==
  ASSUME NEW S, NEW T, NEW V, NEW f \in [S -> [T -> V]], NEW a, NEW b, NEW v
  PROVE  \A i \in S, j \in T :
           \/ [f EXCEPT ![a][b] = v][i][j] = f[i][j]
           \/ i = a /\ j = b /\ [f EXCEPT ![a][b] = v][i][j] = v
  OBVIOUS

\* A line reaches the log: the database it was committed to has it, and any other database
\* at db_path is marked as behind.
LEMMA LineWritten ==
  ASSUME Inv, Inv', Pos, NEW c \in Clients, pc[c] = "committed",
         with_chunk(req[c].g, MutationKind(req[c].op), req[c].row), behind' = LineElsewhere(c),
         UNCHANGED <<live, disk, inst, posn, applied>>
  PROVE  DatabaseOK' /\ Grows /\ with_wal_writer(req[c].g).seq \in Seqs(wal'[req[c].g])
  <1> DEFINE g == req[c].g
  <1>1. g \in Groups /\ req[c].row \in Nat /\ MutationKind(req[c].op) \in {"create", "purge"}
    BY DEF Inv, TypeOK, Request_, MutationKind
  <1>2. /\ wal' = [wal EXCEPT ![g] = wal'[g]]
        /\ Grows
        /\ with_wal_writer(g).seq \in Seqs(wal'[g])
        /\ \A k \in DOMAIN wal'[g] : (k \in DOMAIN wal[g] /\ wal'[g][k] = wal[g][k])
                                     \/ wal'[g][k].row = req[c].row
    BY <1>1, ChunkSeqs
  <1>3. req[c].row \in applied[handle[c]][g]
    BY DEF Pos, RequestOK
  <1>4. ASSUME disk # None, NEW x \in Groups \ behind'[disk], NEW k \in DOMAIN wal'[x]
        PROVE  wal'[x][k].row \in applied[disk][x]
    <2>1. behind[disk] \subseteq behind'[disk] /\ (handle[c] # disk => g \in behind'[disk])
      BY <1>4 DEF LineElsewhere, Inv, TypeOK
    <2>2. \A j \in DOMAIN wal[x] : wal[x][j].row \in applied[disk][x]
      BY <1>4, <2>1 DEF Pos, DatabaseOK
    <2>3. CASE x = g
      BY <1>2, <1>3, <1>4, <2>1, <2>2, <2>3
    <2>4. CASE x # g
      <3>1. wal'[x] = wal[x]
        BY <1>2, <2>4 DEF Inv, TypeOK
      <3> QED
        BY <1>4, <2>2, <3>1
    <2> QED
      BY <2>3, <2>4
  <1>5. DatabaseOK'
    BY <1>2, <1>4 DEF Pos, DatabaseOK, Grows
  <1> QED
    BY <1>2, <1>5

\* The steps of a write after the commit.
LEMMA FlushPos ==
  ASSUME Inv, Inv', Pos, NEW c \in Clients
  PROVE  /\ Flush(c) => Pos'
         /\ FlushFails(c) => Pos'
         /\ advance_wal_position(c) => Pos'
  <1> USE DEF dbVars, taskVars
  <1>0. RequestOK(c) /\ DatabaseOK /\ NamesOK
    BY DEF Pos
  <1>1. /\ req[c].g \in Groups /\ req[c].row \in Nat /\ handle[c] \in Insts \cup {None}
        /\ MutationKind(req[c].op) \in {"create", "purge"}
    BY DEF Inv, TypeOK, Request_, MutationKind
  <1>a. inst <= inst /\ inst \in Nat
    BY InstsNat DEF Inv, TypeOK
  <1>2. ASSUME pc[c] \in {"committed", "flushed"}
        PROVE  /\ \A d \in Clients \ {c} : pc[d] \notin Critical
               /\ \A t \in Tasks : task[t] # None => task[t].pc # "replay"
               /\ ~Wiping
    BY <1>2, Alone DEF Critical, Wiping
  <1>3. ASSUME Flush(c) PROVE Pos'
    <2>1. DatabaseOK' /\ Grows /\ with_wal_writer(req[c].g).seq \in Seqs(wal'[req[c].g])
      BY <1>3, LineWritten DEF Flush
    <2>2. NamesOK'
      BY <1>0, <1>1, <1>2, <1>3, NamesWritten DEF Flush
    <2>3. OthersSame(c)
      BY <1>3 DEF Flush, Goto, OthersSame, Inv, TypeOK
    <2>4. RequestOK(c)'
      <3>1. /\ pc'[c] = "flushed" /\ flushed'[c].seq = with_wal_writer(req[c].g).seq
            /\ UNCHANGED <<handle, req, applied, inst>>
        BY <1>3 DEF Flush, Goto, Inv, TypeOK
      <3> QED
        BY <1>0, <1>3, <2>1, <3>1 DEF RequestOK, Flush
    <2> QED
      BY <1>a, <1>2, <1>3, <2>1, <2>2, <2>3, <2>4, ByRequest DEF Flush
  <1>4. ASSUME FlushFails(c) PROVE Pos'
    <2>1. DatabaseOK' /\ Grows
      <3>1. CASE with_chunk(req[c].g, MutationKind(req[c].op), req[c].row) /\ behind' = LineElsewhere(c)
        BY <1>4, <3>1, LineWritten DEF FlushFails
      <3>2. CASE UNCHANGED <<wal, behind>>
        BY <1>0, <1>4, <3>2, SeqsSame, AppliedSame, DatabaseKept DEF FlushFails
      <3> QED
        BY <1>4, <3>1, <3>2 DEF FlushFails, with_chunk_err, walVars
    <2>2. OthersSame(c) /\ ~Wiping /\ UNCHANGED <<drops, task>>
      BY <1>2, <1>4 DEF FlushFails, Goto, OthersSame, Inv, TypeOK
    <2>3. NamesOK'
      <3>1. CASE with_chunk(req[c].g, MutationKind(req[c].op), req[c].row)
        BY <1>0, <1>1, <2>2, <3>1, NamesWritten
      <3>2. CASE with_chunk_err(req[c].g)
        BY <1>0, <1>1, <2>2, <3>2, NamesMinted DEF with_chunk_err
      <3>3. CASE UNCHANGED walVars
        BY <1>0, <2>2, <3>3, NamesKept DEF walVars
      <3> QED
        BY <1>4, <3>1, <3>2, <3>3 DEF FlushFails
    <2>4. RequestOK(c)'
      <3>1. /\ pc[c] = "committed" /\ pc'[c] = "flushed" /\ flushed'[c] = None
            /\ UNCHANGED <<handle, req, applied, inst>>
        BY <1>4 DEF FlushFails, Goto, Inv, TypeOK
      <3> QED
        BY <1>0, <3>1 DEF RequestOK
    <2> QED
      BY <1>a, <1>2, <1>4, <2>1, <2>2, <2>3, <2>4, ByRequest DEF FlushFails
  <1>5. ASSUME advance_wal_position(c) PROVE Pos'
    <2>1. RequestOK(c)' /\ OthersSame(c) /\ pc[c] = "flushed" /\ ~Wiping /\ Keeps
      BY <1>2, <1>5, Returned, AppliedSame DEF advance_wal_position
    <2>2. UNCHANGED <<live, disk, inst, applied, behind, walVars, drops, task>>
      BY <1>5 DEF advance_wal_position
    <2>3. NamesOK'
      BY <1>0, <2>1, <2>2, NamesKept DEF walVars
    <2>4. DatabaseOK'
      <3>1. CASE UNCHANGED posn
        BY <1>0, <2>1, <2>2, <3>1, DatabaseKept DEF walVars
      <3>2. CASE flushed[c] # None /\ posn' = [posn EXCEPT ![handle[c]][req[c].g] = flushed[c]]
        <4>1. flushed[c].seq \in Seqs(wal[req[c].g]) /\ handle[c] \in Insts /\ handle[c] <= inst
          BY <1>0, <1>1, <2>1, <3>2 DEF RequestOK
        <4>2. \A i \in Insts, g \in Groups :
                posn'[i][g] = posn[i][g] \/ (i = handle[c] /\ g = req[c].g /\ posn'[i][g] = flushed[c])
          BY <3>2, EntrySet DEF Inv, TypeOK
        <4>3. disk # None => disk \in Insts
          BY DEF Inv, TypeOK
        <4>4. \A i \in Insts : i > inst => \A g \in Groups : posn'[i][g] = None
          <5> SUFFICES ASSUME NEW i \in Insts, i > inst, NEW g \in Groups PROVE posn'[i][g] = None
            OBVIOUS
          <5>1. i # handle[c]
            BY <1>a, <4>1, InstsNat
          <5> QED
            BY <1>0, <4>2, <5>1 DEF DatabaseOK
        <4> QED
          BY <1>0, <2>2, <4>1, <4>2, <4>3, <4>4 DEF DatabaseOK, walVars
      <3> QED
        BY <1>5, <3>1, <3>2 DEF advance_wal_position, set_wal_position
    <2> QED
      BY <1>a, <2>1, <2>2, <2>3, <2>4, ByRequest DEF walVars
  <1> QED
    BY <1>3, <1>4, <1>5

\* A database created at db_path: newer than every handle, with an empty position, and
\* behind in every group whose log was kept.
LEMMA Created ==
  ASSUME Inv, Inv', DatabaseOK, NEW keep, FreshInst(keep), inst < MaxInst, UNCHANGED <<applied, wal>>
  PROVE  DatabaseOK' /\ inst <= inst' /\ disk' = inst + 1
  <1>1. inst \in Nat /\ inst + 1 \in Insts /\ inst' = inst + 1 /\ disk' = inst + 1 /\ live' = inst + 1
    BY ConstantsAssumption, InstsNat DEF FreshInst, Inv, TypeOK, Insts
  <1> DEFINE p == [seq |-> 0, gen |-> IF keep THEN gen[DefaultGroup] ELSE None]
  <1>2. \A i \in Insts, g \in Groups :
          posn'[i][g] = posn[i][g] \/ (i = inst + 1 /\ g = DefaultGroup /\ posn'[i][g] = p)
    BY EntrySet DEF FreshInst, Inv, TypeOK
  <1>3. p.seq = 0
    OBVIOUS
  <1> HIDE DEF p
  <1>4. \A g \in Groups : posn'[inst + 1][g] = None \/ posn'[inst + 1][g].seq = 0
    BY <1>1, <1>2, <1>3 DEF DatabaseOK
  <1>5. ASSUME NEW i \in Insts, i > inst + 1, NEW g \in Groups PROVE posn'[i][g] = None
    <2>1. i > inst /\ i # inst + 1
      BY <1>1, <1>5, InstsNat
    <2> QED
      BY <1>2, <2>1 DEF DatabaseOK
  <1>6. behind'[inst + 1] = {g \in Groups : wal[g] # <<>>}
    BY <1>1 DEF FreshInst, Inv, TypeOK
  <1>7. \A g \in Groups \ behind'[inst + 1] : DOMAIN wal'[g] = {}
    BY <1>6
  <1>8. inst <= inst' /\ inst + 1 <= inst'
    BY <1>1
  <1> QED
    BY <1>1, <1>4, <1>5, <1>7, <1>8 DEF DatabaseOK

\* The steps of knowledge_clear_all.
LEMMA ClearPos ==
  ASSUME Inv, Inv', Pos, NEW c \in Clients
  PROVE  /\ \A op \in Requests : BeginClearAll(c, op) => Pos'
         /\ ClearAll(c) => Pos'
         /\ ClearAllRemoveDb(c) => Pos'
         /\ ClearAllRemoveWal(c) => Pos'
         /\ ClearAllReinit(c) => Pos'
         /\ ClearAllFails(c) => Pos'
  <1> USE DEF dbVars, taskVars
  <1>0. RequestOK(c) /\ DatabaseOK /\ NamesOK
    BY DEF Pos
  <1>a. inst <= inst /\ inst \in Nat
    BY InstsNat DEF Inv, TypeOK
  <1>b. UNCHANGED <<wal, applied>> => Grows /\ Keeps
    BY SeqsSame, AppliedSame
  <1>1. ASSUME NEW op \in Requests, BeginClearAll(c, op) PROVE Pos'
    <2>1. OthersSame(c) /\ RequestOK(c)' /\ pc[c] # "wiping_log"
      BY <1>0, <1>1 DEF BeginClearAll, Goto, OthersSame, RequestOK, Inv, TypeOK
    <2> QED
      BY <1>1, <2>1, Quiet DEF BeginClearAll
  <1>2. ASSUME ClearAll(c) PROVE Pos'
    <2>1. OthersSame(c) /\ RequestOK(c)'
      BY <1>0, <1>2 DEF ClearAll, Goto, OthersSame, RequestOK, Inv, TypeOK
    <2>2. DatabaseOK'
      BY <1>0, <1>b, <1>2, DatabaseKept DEF ClearAll
    <2>3. NamesOK'
      BY <1>0, <1>2, <2>1, NamesKept DEF ClearAll, Wiping, OthersSame
    <2> QED
      BY <1>a, <1>b, <1>2, <2>1, <2>2, <2>3, ByRequest DEF ClearAll
  <1>3. ASSUME pc[c] \in {"wiping", "wiping_log", "reinit"}
        PROVE  /\ \A d \in Clients \ {c} : pc[d] \notin Critical
               /\ \A t \in Tasks : task[t] # None => task[t].pc # "replay"
               /\ Wiping => pc[c] = "wiping_log"
               /\ live = None
    BY <1>0, <1>3, Alone DEF Critical, Wiping, RequestOK
  <1>4. ASSUME ClearAllRemoveDb(c) PROVE Pos'
    <2>1. /\ OthersSame(c) /\ RequestOK(c)'
          /\ live = None /\ ~Wiping
      BY <1>0, <1>3, <1>4 DEF ClearAllRemoveDb, Goto, OthersSame, RequestOK, Inv, TypeOK
    <2>2. DatabaseOK'
      BY <1>0, <1>4, <2>1 DEF DatabaseOK, ClearAllRemoveDb
    <2>3. NamesOK'
      BY <1>0, <1>4, <2>1, NamesKept DEF ClearAllRemoveDb, walVars
    <2> QED
      BY <1>3, <1>a, <1>b, <1>4, <2>1, <2>2, <2>3, ByRequest DEF ClearAllRemoveDb, walVars
  <1>5. ASSUME ClearAllRemoveWal(c) PROVE Pos'
    <2>1. disk = None /\ live = None /\ UNCHANGED <<disk, live, inst, posn, behind, applied>>
      BY <1>0, <1>3, <1>5 DEF ClearAllRemoveWal, RequestOK
    <2>2. DatabaseOK'
      BY <1>0, <2>1 DEF DatabaseOK
    <2>3. OthersSame(c) /\ pc'[c] \in {"wiping_log", "reinit"} /\ UNCHANGED <<handle, req, flushed, task>>
      BY <1>5 DEF ClearAllRemoveWal, Goto, OthersSame, Inv, TypeOK
    <2>4. RequestOK(c)'
      BY <1>0, <2>1, <2>3 DEF RequestOK
    <2>5. NamesOK'
      <3>1. \A g \in Groups : /\ wal'[g] \in {wal[g], <<>>}
                              /\ gen'[g] \in {gen[g], None}
        BY <1>5 DEF ClearAllRemoveWal, Inv, TypeOK
      <3>2. \A a \in named : a.g \in Groups
        BY DEF Inv, TypeOK
      <3>3. Wiping' \/ \A g \in Groups : gen'[g] = None
        BY <1>5 DEF ClearAllRemoveWal, Wiping
      <3>4. UNCHANGED <<nextGen, named, severed, drops>>
        BY <1>5 DEF ClearAllRemoveWal
      <3> QED
        BY <1>0, <3>1, <3>2, <3>3, <3>4 DEF NamesOK
    <2> QED
      BY <1>3, <1>a, <1>5, <2>1, <2>2, <2>3, <2>4, <2>5, ByRequest DEF ClearAllRemoveWal
  <1>6. ASSUME ClearAllReinit(c) PROVE Pos'
    <2>1. DatabaseOK' /\ inst <= inst' /\ disk' = inst + 1
      BY <1>0, <1>6, Created DEF ClearAllReinit, walVars
    <2>2. OthersSame(c) /\ RequestOK(c)'
      BY <1>6, Returned DEF ClearAllReinit
    <2>3. NamesOK'
      BY <1>0, <1>3, <1>6, NamesKept DEF ClearAllReinit, walVars
    <2> QED
      BY <1>3, <1>6, <2>1, <2>2, <2>3, ByRequest DEF ClearAllReinit
  <1>7. ASSUME ClearAllFails(c) PROVE Pos'
    <2>1. OthersSame(c) /\ RequestOK(c)' /\ live = None
      BY <1>3, <1>7, Returned DEF ClearAllFails
    <2>2. DatabaseOK'
      BY <1>0, <1>7, <2>1 DEF DatabaseOK, ClearAllFails
    <2>3. NamesOK'
      <3>1. CASE pc[c] = "wiping_log"
        <4>1. \A a \in named : a.g \in Groups
          BY DEF Inv, TypeOK
        <4>2. severed' = severed \cup RecordAlone /\ UNCHANGED <<wal, gen, nextGen, named, drops>>
          BY <1>7, <3>1 DEF ClearAllFails
        <4> QED
          BY <1>0, <4>1, <4>2 DEF NamesOK, RecordAlone
      <3>2. CASE pc[c] # "wiping_log"
        BY <1>0, <1>3, <1>7, <3>2, NamesKept DEF ClearAllFails
      <3> QED
        BY <3>1, <3>2
    <2> QED
      BY <1>3, <1>a, <1>b, <1>7, <2>1, <2>2, <2>3, ByRequest DEF ClearAllFails
  <1> QED
    BY <1>1, <1>2, <1>4, <1>5, <1>6, <1>7

\* The request half of knowledge_rebuild_from_wal, up to the purge.
LEMMA RebuildPos ==
  ASSUME Inv, Inv', Pos, NEW c \in Clients
  PROVE  /\ \A op \in Requests, g \in Groups, stream \in BOOLEAN :
              BeginRebuild(c, op, g, stream) => Pos'
         /\ RebuildGuard(c) => Pos'
         /\ clear_group_for_rebuild(c) => Pos'
         /\ ClearedPosition(c) => Pos'
  <1> USE DEF dbVars, taskVars
  <1>0. RequestOK(c) /\ DatabaseOK /\ NamesOK
    BY DEF Pos
  <1>a. inst <= inst /\ inst \in Nat
    BY InstsNat DEF Inv, TypeOK
  <1>b. req[c].g \in Groups /\ handle[c] \in Insts \cup {None} /\ live \in Insts \cup {None}
    BY DEF Inv, TypeOK, Request_
  <1>1. ASSUME NEW op \in Requests, NEW g \in Groups, NEW stream \in BOOLEAN,
               BeginRebuild(c, op, g, stream)
        PROVE  Pos'
    <2>1. OthersSame(c) /\ RequestOK(c)' /\ pc[c] # "wiping_log"
      BY <1>0, <1>1 DEF BeginRebuild, Goto, OthersSame, RequestOK, Inv, TypeOK
    <2> QED
      BY <1>1, <2>1, Quiet DEF BeginRebuild
  <1>2. ASSUME RebuildGuard(c) PROVE Pos'
    <2>1. OthersSame(c) /\ RequestOK(c)'
      <3>1. CASE Return(c)
        BY <3>1, Returned
      <3>2. CASE ~Return(c)
        BY <1>0, <1>2, <3>2 DEF RebuildGuard, Goto, OthersSame, RequestOK, Inv, TypeOK
      <3> QED
        BY <3>1, <3>2
    <2> QED
      BY <1>2, <2>1, Quiet DEF RebuildGuard
  <1>3. ASSUME clear_group_for_rebuild(c) PROVE Pos'
    <2>1. CASE Return(c) /\ UNCHANGED <<lock, rows, applied, behind, cleared>>
      BY <1>3, <2>1, Returned, Quiet DEF clear_group_for_rebuild
    <2>2. CASE ~(Return(c) /\ UNCHANGED <<lock, rows, applied, behind, cleared>>)
      <3> DEFINE g == req[c].g
      <3>1. /\ live # None /\ pc[c] = "rb_clear" /\ lock = None
            /\ handle' = [handle EXCEPT ![c] = live]
            /\ applied' = [applied EXCEPT ![live][g] = {}]
            /\ behind' = [behind EXCEPT ![live] = @ \cup {g}]
            /\ Goto(c, "rb_reset")
            /\ UNCHANGED <<req, flushed, live, disk, posn, inst, walVars, task, drops>>
        BY <1>3, <2>2 DEF clear_group_for_rebuild
      <3>2. live = disk /\ live \in Insts /\ live <= inst
        BY <1>0, <1>b, <3>1 DEF DatabaseOK
      <3>3. OthersSame(c) /\ RequestOK(c)'
        BY <1>0, <3>1, <3>2 DEF Goto, OthersSame, RequestOK, Inv, TypeOK
      <3>4. DatabaseOK'
        <4>1. \A x \in Groups \ {g} : applied'[disk][x] = applied[disk][x]
          BY <3>1, <3>2 DEF Inv, TypeOK
        <4>2. behind'[disk] = behind[disk] \cup {g}
          BY <3>1, <3>2 DEF Inv, TypeOK
        <4> QED
          BY <1>0, <3>1, <4>1, <4>2 DEF DatabaseOK, walVars
      <3>5. NamesOK'
        BY <1>0, <3>1, <3>3, NamesKept DEF Wiping, OthersSame, walVars
      <3>6. /\ \A d \in Clients \ {c} : pc[d] \notin Critical
            /\ \A t \in Tasks : task[t] # None => task[t].pc # "replay"
            /\ Grows
        BY <3>1, Alone, SeqsSame DEF walVars
      <3> QED
        BY <1>a, <3>1, <3>3, <3>4, <3>5, <3>6, ByRequest
    <2> QED
      BY <2>1, <2>2
  <1>4. ASSUME ClearedPosition(c) PROVE Pos'
    <2> DEFINE g == req[c].g
               p == [seq |-> 0, gen |-> gen[g]]
    <2>1. /\ pc[c] = "rb_reset" /\ UNCHANGED <<live, disk, inst, applied, behind, walVars, drops, task>>
          /\ Keeps
      BY <1>4, AppliedSame DEF ClearedPosition
    <2>2. OthersSame(c) /\ RequestOK(c)'
      <3>1. CASE Return(c)
        BY <3>1, Returned
      <3>2. CASE ~Return(c)
        BY <1>0, <1>4, <3>2 DEF ClearedPosition, Goto, OthersSame, RequestOK, Inv, TypeOK
      <3> QED
        BY <3>1, <3>2
    <2>3. NamesOK'
      BY <1>0, <2>1, <2>2, NamesKept DEF Wiping, OthersSame, walVars
    <2>4. DatabaseOK'
      <3>1. CASE UNCHANGED posn
        BY <1>0, <2>1, <3>1, DatabaseKept DEF walVars
      <3>2. CASE posn' = [posn EXCEPT ![handle[c]][g] = p]
        <4>1. handle[c] \in Insts /\ handle[c] <= inst /\ p.seq = 0
          BY <1>0, <1>b, <2>1 DEF RequestOK
        <4>2. \A i \in Insts, x \in Groups :
                posn'[i][x] = posn[i][x] \/ (i = handle[c] /\ x = g /\ posn'[i][x] = p)
          BY <3>2, EntrySet DEF Inv, TypeOK
        <4> HIDE DEF p, g
        <4>3. disk # None => disk \in Insts
          BY DEF Inv, TypeOK
        <4>4. ASSUME NEW i \in Insts, i > inst, NEW x \in Groups PROVE posn'[i][x] = None
          <5>1. i # handle[c]
            BY <1>a, <4>1, <4>4, InstsNat
          <5> QED
            BY <1>0, <4>2, <4>4, <5>1 DEF DatabaseOK
        <4> QED
          BY <1>0, <2>1, <4>1, <4>2, <4>3, <4>4 DEF DatabaseOK, walVars
      <3> QED
        BY <1>4, <3>1, <3>2 DEF ClearedPosition, set_wal_position
    <2> QED
      BY <1>a, <2>1, <2>2, <2>3, <2>4, ByRequest DEF walVars
  <1> QED
    BY <1>1, <1>2, <1>3, <1>4

-----------------------------------------------------------------------------
(* Steps that change a replay run.                                         *)

\* A new run has done nothing yet.
LEMMA NewRun ==
  ASSUME Inv, DatabaseOK, NEW c \in Clients, NEW o \in Clients \cup {None}, live # None,
         NEW t \in Tasks, task' = [task EXCEPT ![t] = NewTask(c, o)], inst' = inst
  PROVE  RunOK(t)' /\ \A u \in Tasks \ {t} : task'[u] = task[u]
  <1>1. task'[t] = NewTask(c, o) /\ \A u \in Tasks \ {t} : task'[u] = task[u]
    BY DEF Inv, TypeOK
  <1>2. /\ NewTask(c, o).h = live /\ NewTask(c, o).i = 1 /\ NewTask(c, o).last = None
        /\ NewTask(c, o).pc = "queued"
    BY DEF NewTask
  <1>3. live <= inst
    BY DEF DatabaseOK
  <1> QED
    BY <1>1, <1>2, <1>3 DEF RunOK

\* A step that changes at most one run, and of the requests at most c, and neither the
\* database nor the log.
LEMMA ByRun ==
  ASSUME Inv, Inv', Pos, NEW c, OthersSame(c), c \in Clients => RequestOK(c)',
         NEW t \in Tasks, RunOK(t)', \A u \in Tasks \ {t} : task'[u] = task[u],
         UNCHANGED <<live, disk, inst, wal>>, Keeps, DatabaseOK', NamesOK'
  PROVE  Pos'
  <1>1. inst' \in Nat /\ inst <= inst' /\ Grows
    BY InstsNat, SeqsSame DEF Inv, TypeOK
  <1>2. ASSUME NEW d \in Clients PROVE RequestOK(d)'
    <2>1. CASE d = c
      BY <2>1
    <2>2. CASE d # c
      <3>1. RequestOK(d) /\ d \in Clients \ {c}
        BY <2>2 DEF Pos
      <3> QED
        BY <1>1, <3>1, RequestKept DEF OthersSame
    <2> QED
      BY <2>1, <2>2
  <1>3. ASSUME NEW u \in Tasks PROVE RunOK(u)'
    <2>1. CASE u = t
      BY <2>1
    <2>2. CASE u # t
      <3>1. RunOK(u) /\ u \in Tasks \ {t}
        BY <2>2 DEF Pos
      <3> QED
        BY <1>1, <3>1, RunKept
    <2> QED
      BY <2>1, <2>2
  <1> QED
    BY <1>2, <1>3 DEF Pos

\* The request half of knowledge_rebuild_from_wal that admits and starts a replay run.
LEMMA AdmitPos ==
  ASSUME Inv, Inv', Pos, NEW c \in Clients
  PROVE  /\ RebuildAdmit(c) => Pos'
         /\ RebuildSpawn(c) => Pos'
  <1> USE DEF dbVars
  <1>0. RequestOK(c) /\ DatabaseOK /\ NamesOK
    BY DEF Pos
  <1>1. ASSUME UNCHANGED <<live, disk, inst, posn, applied, behind, walVars, drops>>,
               pc[c] # "wiping_log", OthersSame(c), RequestOK(c)',
               NEW t \in Tasks, RunOK(t)', \A u \in Tasks \ {t} : task'[u] = task[u]
        PROVE  Pos'
    <2>1. Keeps /\ DatabaseOK'
      BY <1>0, <1>1, AppliedSame, DatabaseKept DEF walVars
    <2>2. NamesOK'
      BY <1>0, <1>1, NamesKept DEF Wiping, OthersSame, walVars
    <2> QED
      BY <1>1, <2>1, <2>2, ByRun DEF walVars
  <1>2. ASSUME RebuildAdmit(c) PROVE Pos'
    <2>1. pc[c] = "rb_admit" /\ UNCHANGED <<live, disk, inst, posn, applied, behind, walVars, drops>>
      BY <1>2 DEF RebuildAdmit
    <2>2. OthersSame(c) /\ RequestOK(c)'
      <3>1. CASE Return(c)
        BY <3>1, Returned
      <3>2. CASE ~Return(c)
        BY <1>0, <1>2, <3>2 DEF RebuildAdmit, Goto, OthersSame, RequestOK, Inv, TypeOK
      <3> QED
        BY <3>1, <3>2
    <2>3. CASE UNCHANGED task
      BY <2>1, <2>2, <2>3, Quiet
    <2>4. CASE live # None /\ \E t \in Tasks : task' = [task EXCEPT ![t] = NewTask(c, c)]
      <3>1. PICK t \in Tasks : task' = [task EXCEPT ![t] = NewTask(c, c)]
        BY <2>4
      <3>2. RunOK(t)' /\ \A u \in Tasks \ {t} : task'[u] = task[u]
        BY <1>0, <2>1, <2>4, <3>1, NewRun
      <3> QED
        BY <1>1, <2>1, <2>2, <3>2
    <2> QED
      BY <1>2, <2>3, <2>4 DEF RebuildAdmit, taskVars
  <1>3. ASSUME RebuildSpawn(c) PROVE Pos'
    <2>1. pc[c] = "rb_spawn" /\ UNCHANGED <<live, disk, inst, posn, applied, behind, walVars, drops>>
      BY <1>3 DEF RebuildSpawn
    <2>2. OthersSame(c) /\ RequestOK(c)'
      BY <1>3, Returned DEF RebuildSpawn
    <2>3. CASE UNCHANGED task
      BY <2>1, <2>2, <2>3, Quiet
    <2>4. CASE live # None /\ \E t \in Tasks : task' = [task EXCEPT ![t] = NewTask(c, None)]
      <3>1. PICK t \in Tasks : task' = [task EXCEPT ![t] = NewTask(c, None)]
        BY <2>4
      <3>2. RunOK(t)' /\ \A u \in Tasks \ {t} : task'[u] = task[u]
        BY <1>0, <2>1, <2>4, <3>1, NewRun
      <3> QED
        BY <1>1, <2>1, <2>2, <3>2
    <2> QED
      BY <1>3, <2>3, <2>4 DEF RebuildSpawn
  <1> QED
    BY <1>2, <1>3

\* A run that ends or changes its place, with nothing committed.
LEMMA RunMoves ==
  ASSUME Inv, NEW t \in Tasks, RunOK(t), task[t] # None, NEW x, task' = [task EXCEPT ![t] = x],
         x = None \/ \E p \in {"replay", "detached", "done"} : x = [task[t] EXCEPT !.pc = p],
         x # None /\ x.pc = "replay" => task[t].pc = "queued",
         UNCHANGED <<inst, disk, wal>>
  PROVE  RunOK(t)' /\ \A u \in Tasks \ {t} : task'[u] = task[u]
  <1> DEFINE k == task[t]
  <1>1. task'[t] = x /\ \A u \in Tasks \ {t} : task'[u] = task[u]
    BY DEF Inv, TypeOK
  <1>2. CASE x = None
    BY <1>1, <1>2 DEF RunOK
  <1>3. CASE x # None
    <2>1. PICK p \in {"replay", "detached", "done"} : x = [k EXCEPT !.pc = p]
      BY <1>3
    <2>2. k \in Task_
      BY DEF Inv, TypeOK
    <2>3. /\ x.pc = p /\ x.h = k.h /\ x.i = k.i /\ x.last = k.last /\ x.g = k.g
          /\ x.clean = k.clean /\ x.from = k.from /\ k.g \in Groups
      BY <2>1, <2>2 DEF Task_
    <2>4. \A y \in DOMAIN wal[k.g] : ~(y < 1)
      BY <2>3 DEF Inv, TypeOK
    <2> QED
      BY <1>1, <1>3, <2>3, <2>4 DEF RunOK
  <1> QED
    BY <1>2, <1>3

\* A batch is replayed: its lines are committed together, or none of them is and the run is
\* no longer clean.
LEMMA BatchPos ==
  ASSUME Inv, Inv', Pos, NEW t \in Tasks, ReplayBatch(t)
  PROVE  Pos'
  <1> USE DEF dbVars
  <1> DEFINE k == task[t]
             s == wal[k.g]
             Batch(j) == {x \in k.i..j : s[x].seq >= k.from}
             Fails(j) == \E x \in Batch(j) : s[x].kind = "create" /\ s[x].row \in rows[k.h][k.g]
             CommitsAt(j) == Batch(j) # {} /\ ~Fails(j)
             Rows(j) == {s[x].row : x \in Batch(j)}
  <1>1. /\ k # None /\ k.pc \in {"replay", "detached"} /\ RunOK(t)
        /\ UNCHANGED <<live, disk, posn, inst, behind, walVars, drops, reqVars>>
    BY DEF ReplayBatch, Pos
  <1>2. PICK j \in k.i..Len(s) :
           /\ applied' = [applied EXCEPT ![k.h][k.g] = IF CommitsAt(j) THEN @ \cup Rows(j) ELSE @]
           /\ task' = [task EXCEPT ![t].i = j + 1,
                                   ![t].last = IF CommitsAt(j) THEN s[j].seq ELSE @,
                                   ![t].clean = @ /\ ~Fails(j),
                                   ![t].pc = IF @ = "detached" THEN "leaving" ELSE @]
    BY DEF ReplayBatch
  <1>3. k \in Task_ /\ s \in Seq(Line) /\ applied \in [Insts -> [Groups -> SUBSET Nat]]
    BY <1>1 DEF Inv, TypeOK, Task_
  <1>4. /\ k.g \in Groups /\ k.h \in Insts /\ k.i \in Nat \ {0} /\ k.h \in Nat
        /\ k.from \in Nat /\ Len(s) \in Nat /\ DOMAIN s = 1..Len(s)
    BY <1>3, InstsNat DEF Task_
  <1>5. \A x \in k.i..j : x \in DOMAIN s /\ s[x].seq \in Nat
    <2>1. \A x \in k.i..j : x \in DOMAIN s /\ s[x] \in Line
      BY <1>3, <1>4
    <2> QED
      BY <2>1 DEF Line
  <1> DEFINE commits == CommitsAt(j)
             fails == Fails(j)
             added == Rows(j)
  <1>6. /\ applied' = [applied EXCEPT ![k.h][k.g] = IF commits THEN @ \cup added ELSE @]
        /\ task' = [task EXCEPT ![t].i = j + 1,
                                ![t].last = IF commits THEN s[j].seq ELSE @,
                                ![t].clean = @ /\ ~fails,
                                ![t].pc = IF @ = "detached" THEN "leaving" ELSE @]
    BY <1>2
  <1>7. (k.from = 0 /\ ~fails) => /\ commits
                                  /\ \A x \in k.i..j : s[x].row \in added
    <2>1. k.from = 0 => Batch(j) = k.i..j
      BY <1>5
    <2>2. j \in k.i..j
      BY <1>4
    <2> QED
      BY <2>1, <2>2
  <1>8. j \in DOMAIN s /\ j \in Nat
    BY <1>4, <1>5
  <1> HIDE DEF commits, fails, added
  <1>9. Keeps /\ (commits => added \subseteq applied'[k.h][k.g])
    <2>1. Keeps
      BY <1>3, <1>6 DEF Keeps
    <2> QED
      BY <2>1, <1>3, <1>4, <1>6
  <1>10. /\ \A u \in Tasks \ {t} : task'[u] = task[u]
         /\ task'[t].i = j + 1 /\ task'[t].clean = (k.clean /\ ~fails)
         /\ task'[t].last = (IF commits THEN s[j].seq ELSE k.last)
         /\ task'[t].pc = "replay" => k.pc = "replay"
         /\ task'[t].pc # "queued"
         /\ task'[t].g = k.g /\ task'[t].h = k.h /\ task'[t].from = k.from
    <2> DEFINE v == [k EXCEPT !.i = j + 1,
                              !.last = IF commits THEN s[j].seq ELSE k.last,
                              !.clean = k.clean /\ ~fails,
                              !.pc = IF k.pc = "detached" THEN "leaving" ELSE k.pc]
    <2>1. task' = [task EXCEPT ![t] = v]
      BY <1>6
    <2>2. /\ v.i = j + 1 /\ v.clean = (k.clean /\ ~fails)
          /\ v.last = (IF commits THEN s[j].seq ELSE k.last)
          /\ v.pc = "replay" => k.pc = "replay"
          /\ v.pc # "queued"
          /\ v.g = k.g /\ v.h = k.h /\ v.from = k.from
      BY <1>1, <1>3 DEF Task_
    <2> HIDE DEF v
    <2>3. task'[t] = v /\ \A u \in Tasks \ {t} : task'[u] = task[u]
      BY <2>1 DEF Inv, TypeOK
    <2> QED
      BY <2>2, <2>3
  <1>11. RunOK(t)'
    <2>1. ASSUME task'[t].pc = "replay", task'[t].clean, k.from = 0,
                 NEW x \in DOMAIN s, x < j + 1
          PROVE  s[x].row \in applied'[k.h][k.g]
      <3>1. k.pc = "replay" /\ k.clean /\ ~fails
        BY <1>10, <2>1
      <3>2. CASE x < k.i
        <4>1. s[x].row \in applied[k.h][k.g]
          BY <1>1, <2>1, <3>1, <3>2 DEF RunOK
        <4> QED
          BY <1>4, <1>9, <4>1 DEF Keeps
      <3>3. CASE ~(x < k.i)
        <4>1. x \in k.i..j
          BY <1>4, <1>8, <2>1, <3>3
        <4> QED
          BY <1>7, <1>9, <2>1, <3>1, <4>1
      <3> QED
        BY <3>2, <3>3
    <2>2. ASSUME task'[t].last # None, k.h = disk PROVE task'[t].last \in Seqs(s)
      <3>1. CASE commits
        BY <1>8, <1>10, <3>1 DEF Seqs
      <3>2. CASE ~commits
        BY <1>1, <1>10, <2>2, <3>2 DEF RunOK
      <3> QED
        BY <3>1, <3>2
    <2>3. k.h <= inst
      BY <1>1 DEF RunOK
    <2> QED
      BY <1>1, <1>10, <2>1, <2>2, <2>3 DEF RunOK, walVars
  <1>12. OthersSame(None) /\ None \notin Clients
    BY <1>1, ConstantsAssumption DEF OthersSame, reqVars
  <1>13. DatabaseOK'
    BY <1>1, <1>9, DatabaseKept DEF Pos, walVars
  <1>14. NamesOK'
    BY <1>1, NamesKept DEF Pos, Wiping, walVars, reqVars
  <1> QED
    BY <1>1, <1>9, <1>10, <1>11, <1>12, <1>13, <1>14, ByRun DEF walVars

\* The requests when a run ends: at most its owner is answered, and while a run has the
\* lock nobody is removing the log.
LEMMA OwnerAnswered ==
  ASSUME Inv, Pos, NEW t \in Tasks, task[t] # None, EndRun(t)
  PROVE  /\ \E c : OthersSame(c) /\ (c \in Clients => RequestOK(c)')
         /\ Wiping => Wiping'
  <1>1. CASE task[t].pc = "replay" /\ task[t].owner \in Clients
    <2>0. PICK c \in Clients : c = task[t].owner
      BY <1>1
    <2>1. Return(c) /\ lock = t
      BY <1>1, <2>0 DEF EndRun, Inv, LockHeld
    <2>2. RequestOK(c)' /\ OthersSame(c)
      BY <2>1, Returned
    <2>3. ~Wiping
      BY <2>1, ConstantsAssumption DEF Wiping, Inv, LockHeld, Critical
    <2> QED
      BY <2>2, <2>3
  <1>2. CASE ~(task[t].pc = "replay" /\ task[t].owner \in Clients)
    <2>1. UNCHANGED reqVars
      BY <1>2 DEF EndRun
    <2>2. OthersSame(None) /\ None \notin Clients /\ (Wiping => Wiping')
      BY <2>1, ConstantsAssumption DEF OthersSame, reqVars, Wiping
    <2> QED
      BY <2>2
  <1> QED
    BY <1>1, <1>2

\* The generations when a run resyncs the writer of its stream.
LEMMA ResyncNames ==
  ASSUME Inv, Pos, NEW g \in Groups, NEW last, resync_global_seq_after_rebuild(g, last),
         UNCHANGED <<wal, named, severed, drops>>, Wiping => Wiping'
  PROVE  NamesOK'
  <1>1. CASE MintGeneration(g)
    BY <1>1, NamesMinted DEF Pos
  <1>2. CASE UNCHANGED <<writer, gen, nextGen>>
    BY <1>2, NamesKept DEF Pos
  <1> QED
    BY <1>1, <1>2 DEF resync_global_seq_after_rebuild

\* A run is over: the position it records is in the stream of its database, and a group it
\* replayed completely lacks no line.
LEMMA FinishPos ==
  ASSUME Inv, Inv', Pos, NEW t \in Tasks, ReplayFinish(t)
  PROVE  Pos'
  <1> DEFINE k == task[t]
             x == IF k.owner = None THEN [k EXCEPT !.pc = "done"] ELSE None
  <1>1. /\ k # None /\ k.pc \in Replays /\ RunOK(t) /\ EndRun(t)
        /\ resync_global_seq_after_rebuild(k.g, k.last)
        /\ task' = [task EXCEPT ![t] = x]
        /\ UNCHANGED <<live, disk, inst, applied, wal, named, severed, drops>>
    BY DEF ReplayFinish, Pos
  <1>2. k \in Task_ /\ inst \in Nat
    BY <1>1, InstsNat DEF Inv, TypeOK
  <1>3. k.g \in Groups /\ k.h \in Insts /\ k.h <= inst /\ k.i \in Nat /\ k.h \in Nat
    BY <1>1, <1>2, InstsNat DEF Task_, RunOK
  <1>4. RunOK(t)' /\ \A u \in Tasks \ {t} : task'[u] = task[u]
    <2>1. x = None \/ \E p \in {"replay", "detached", "done"} : x = [k EXCEPT !.pc = p]
      OBVIOUS
    <2>2. x # None => x.pc = "done"
      BY <1>2 DEF Task_
    <2> HIDE DEF x
    <2> QED
      BY <1>1, <2>1, <2>2, RunMoves
  <1>5. PICK c : OthersSame(c) /\ (c \in Clients => RequestOK(c)')
    BY <1>1, OwnerAnswered
  <1>6. NamesOK'
    BY <1>1, <1>3, OwnerAnswered, ResyncNames
  <1>7. Keeps
    BY <1>1, AppliedSame
  <1>8. DatabaseOK'
    <2>1. \A i \in Insts, g \in Groups :
            \/ posn'[i][g] = posn[i][g]
            \/ /\ i = k.h /\ g = k.g /\ k.last # None
               /\ posn'[i][g] = [seq |-> k.last, gen |-> k.gen]
      <3>1. CASE PersistReplayed(k)
        BY <3>1, EntrySet DEF PersistReplayed, set_wal_position, Inv, TypeOK
      <3> QED
        BY <3>1 DEF ReplayFinish
    <2>2. ASSUME NEW i \in Insts, i > inst, NEW g \in Groups PROVE posn'[i][g] = None
      <3>1. i # k.h
        BY <1>2, <1>3, <2>2, InstsNat
      <3> QED
        BY <2>1, <2>2, <3>1 DEF Pos, DatabaseOK
    <2>3. disk # None => disk \in Insts
      BY DEF Inv, TypeOK
    <2>4. ASSUME disk # None, NEW g \in Groups
          PROVE  \/ posn'[disk][g] = None \/ posn'[disk][g].seq = 0
                 \/ posn'[disk][g].seq \in Seqs(wal[g])
      <3>1. CASE posn'[disk][g] = posn[disk][g]
        BY <2>4, <3>1 DEF Pos, DatabaseOK
      <3>2. CASE /\ disk = k.h /\ g = k.g /\ k.last # None
                 /\ posn'[disk][g] = [seq |-> k.last, gen |-> k.gen]
        BY <1>1, <3>2 DEF RunOK
      <3> QED
        BY <2>1, <2>3, <2>4, <3>1, <3>2
    <2>5. ASSUME disk # None, NEW g \in Groups \ behind'[disk], NEW y \in DOMAIN wal[g]
          PROVE  wal[g][y].row \in applied[disk][g]
      <3>1. CASE g \notin behind[disk]
        BY <2>5, <3>1 DEF Pos, DatabaseOK
      <3>2. CASE g \in behind[disk]
        <4>1. behind' # behind
          BY <2>5, <3>2
        <4>2. /\ k.from = 0 /\ k.clean /\ k.i > Len(wal[k.g]) /\ k.pc = "replay"
              /\ behind' = [behind EXCEPT ![k.h] = @ \ {k.g}]
          BY <4>1 DEF ReplayFinish
        <4>3. disk = k.h /\ g = k.g
          BY <2>3, <2>5, <3>2, <4>2 DEF Inv, TypeOK
        <4>4. y < k.i
          <5>1. wal[k.g] \in Seq(Line)
            BY <1>3 DEF Inv, TypeOK
          <5> QED
            BY <1>3, <2>5, <4>2, <4>3, <5>1
        <4> QED
          BY <1>1, <2>5, <4>2, <4>3, <4>4 DEF RunOK
      <3> QED
        BY <3>1, <3>2
    <2> QED
      BY <1>1, <2>2, <2>4, <2>5 DEF Pos, DatabaseOK
  <1> QED
    BY <1>1, <1>4, <1>5, <1>6, <1>7, <1>8, ByRun

\* The other steps of a replay run.
LEMMA RunPos ==
  ASSUME Inv, Inv', Pos, NEW t \in Tasks
  PROVE  /\ TaskLock(t) => Pos'
         /\ ReplayFails(t) => Pos'
         /\ JobStatus(t) => Pos'
         /\ Disconnect(t) => Pos'
  <1> USE DEF dbVars
  <1> DEFINE k == task[t]
  <1>0. RunOK(t) /\ DatabaseOK /\ NamesOK
    BY DEF Pos
  <1>1. k # None => k \in Task_
    BY DEF Inv, TypeOK
  <1>2. ASSUME TaskLock(t) PROVE Pos'
    <2> DEFINE x == [k EXCEPT !.pc = "replay"]
    <2>1. /\ k # None /\ k.pc = "queued" /\ task' = [task EXCEPT ![t] = x]
          /\ UNCHANGED <<live, disk, posn, inst, applied, behind, walVars, drops, reqVars>>
      BY <1>2 DEF TaskLock
    <2>2. RunOK(t)' /\ \A u \in Tasks \ {t} : task'[u] = task[u]
      <3> HIDE DEF x
      <3>1. \E p \in {"replay", "detached", "done"} : x = [k EXCEPT !.pc = p]
        BY DEF x
      <3> QED
        BY <1>0, <2>1, <3>1, RunMoves DEF walVars
    <2>3. OthersSame(None) /\ None \notin Clients /\ Keeps
      BY <2>1, ConstantsAssumption, AppliedSame DEF OthersSame, reqVars
    <2>4. DatabaseOK' /\ NamesOK'
      BY <1>0, <2>1, <2>3, DatabaseKept, NamesKept DEF Wiping, walVars, reqVars
    <2> QED
      BY <2>1, <2>2, <2>3, <2>4, ByRun DEF walVars
  <1>3. ASSUME ReplayFails(t) PROVE Pos'
    <2> DEFINE x == IF k.owner = None THEN [k EXCEPT !.pc = "done"] ELSE None
    <2>1. /\ k # None /\ EndRun(t) /\ resync_global_seq_after_rebuild(k.g, None)
          /\ task' = [task EXCEPT ![t] = x]
          /\ UNCHANGED <<live, disk, posn, inst, applied, behind, wal, named, severed, drops>>
      BY <1>3 DEF ReplayFails
    <2>2. RunOK(t)' /\ \A u \in Tasks \ {t} : task'[u] = task[u]
      <3>1. x = None \/ \E p \in {"replay", "detached", "done"} : x = [k EXCEPT !.pc = p]
        OBVIOUS
      <3>2. x # None => x.pc = "done"
        BY <1>1, <2>1 DEF Task_
      <3> HIDE DEF x
      <3> QED
        BY <1>0, <2>1, <3>1, <3>2, RunMoves
    <2>3. PICK c : OthersSame(c) /\ (c \in Clients => RequestOK(c)')
      BY <2>1, OwnerAnswered
    <2>4. k.g \in Groups
      BY <1>1, <2>1 DEF Task_
    <2>5. NamesOK'
      BY <2>1, <2>4, OwnerAnswered, ResyncNames
    <2>6. Keeps /\ DatabaseOK'
      BY <1>0, <2>1, AppliedSame, DatabaseKept
    <2> QED
      BY <2>1, <2>2, <2>3, <2>5, <2>6, ByRun
  <1>4. ASSUME JobStatus(t) PROVE Pos'
    <2>1. /\ k # None /\ task' = [task EXCEPT ![t] = None]
          /\ UNCHANGED <<live, disk, posn, inst, applied, behind, walVars, drops, reqVars>>
      BY <1>4 DEF JobStatus
    <2>2. RunOK(t)' /\ \A u \in Tasks \ {t} : task'[u] = task[u]
      BY <1>0, <2>1, RunMoves DEF walVars
    <2>3. OthersSame(None) /\ None \notin Clients /\ Keeps
      BY <2>1, ConstantsAssumption, AppliedSame DEF OthersSame, reqVars
    <2>4. DatabaseOK' /\ NamesOK'
      BY <1>0, <2>1, <2>3, DatabaseKept, NamesKept DEF Wiping, walVars, reqVars
    <2> QED
      BY <2>1, <2>2, <2>3, <2>4, ByRun DEF walVars
  <1>5. ASSUME Disconnect(t) PROVE Pos'
    <2> DEFINE x == [k EXCEPT !.pc = "detached"]
    <2>0. PICK c \in Clients : c = k.owner
      BY <1>5 DEF Disconnect
    <2>1. /\ k # None /\ Return(c) /\ drops' = drops + 1
          /\ task' = [task EXCEPT ![t] = x]
          /\ UNCHANGED <<live, disk, posn, inst, applied, behind, walVars>>
      BY <1>5, <2>0 DEF Disconnect
    <2>2. RunOK(t)' /\ \A u \in Tasks \ {t} : task'[u] = task[u]
      <3>1. \E p \in {"replay", "detached", "done"} : x = [k EXCEPT !.pc = p]
        OBVIOUS
      <3>2. x.pc # "replay"
        BY <1>1, <2>1 DEF Task_
      <3> HIDE DEF x
      <3> QED
        BY <1>0, <2>1, <3>1, <3>2, RunMoves DEF walVars
    <2>3. OthersSame(c) /\ RequestOK(c)' /\ Keeps
      BY <2>1, Returned, AppliedSame
    <2>4. drops' # 0
      BY <2>1 DEF Inv, TypeOK
    <2>5. DatabaseOK' /\ NamesOK'
      BY <1>0, <2>1, <2>3, <2>4, DatabaseKept DEF NamesOK, walVars
    <2> QED
      BY <2>1, <2>2, <2>3, <2>5, ByRun DEF walVars
  <1> QED
    BY <1>2, <1>3, <1>4, <1>5

-----------------------------------------------------------------------------
(* Crash, restart and the whole specification.                             *)

\* A crash forgets the requests and the runs; a restart finds nobody.
LEMMA CrashPos ==
  ASSUME Inv, Inv', Pos
  PROVE  (Crash => Pos') /\ (Restart => Pos')
  <1>0. DatabaseOK /\ NamesOK
    BY DEF Pos
  <1>1. ASSUME Crash PROVE Pos'
    <2>1. \A c \in Clients : RequestOK(c)'
      BY <1>1 DEF Crash, RequestOK
    <2>2. \A t \in Tasks : RunOK(t)'
      BY <1>1 DEF Crash, RunOK
    <2>3. DatabaseOK'
      BY <1>0, <1>1, AppliedSame, DatabaseKept DEF Crash
    <2>4. NamesOK'
      <3>1. CASE Wiping
        <4>1. \A a \in named : a.g \in Groups
          BY DEF Inv, TypeOK
        <4>2. severed' = severed \cup RecordAlone /\ UNCHANGED <<wal, gen, nextGen, named, drops>>
          BY <1>1, <3>1 DEF Crash, Wiping
        <4> QED
          BY <1>0, <4>1, <4>2 DEF NamesOK, RecordAlone
      <3>2. CASE ~Wiping
        BY <1>0, <1>1, <3>2, NamesKept DEF Crash, Wiping
      <3> QED
        BY <3>1, <3>2
    <2> QED
      BY <2>1, <2>2, <2>3, <2>4 DEF Pos
  <1>2. ASSUME Restart PROVE Pos'
    <2>1. /\ \A c \in Clients : pc[c] = "down" /\ pc'[c] = "idle"
          /\ UNCHANGED <<applied, walVars, req, handle, flushed, taskVars, drops>>
      BY <1>2 DEF Restart
    <2>2. inst \in Nat
      BY InstsNat DEF Inv, TypeOK
    <2>3. DatabaseOK' /\ inst <= inst' /\ (disk' = disk \/ disk' = inst + 1)
      <3>1. CASE disk # None /\ live' = disk /\ UNCHANGED <<disk, posn, inst, behind>>
        BY <1>0, <2>1, <2>2, <3>1 DEF DatabaseOK, walVars
      <3>2. CASE disk = None /\ inst < MaxInst /\ FreshInst(TRUE)
        BY <1>0, <2>1, <3>2, Created DEF walVars
      <3> QED
        BY <1>2, <3>1, <3>2 DEF Restart
    <2>4. inst' \in Nat
      BY InstsNat DEF Inv, TypeOK
    <2>5. ASSUME NEW c \in Clients PROVE RequestOK(c)'
      <3>1. handle[c] \in Nat \cup {None} /\ (handle[c] # None => handle[c] <= inst)
        BY InstsNat DEF Inv, TypeOK, Pos, RequestOK
      <3> QED
        BY <2>1, <2>2, <2>3, <2>4, <3>1 DEF RequestOK
    <2>6. ASSUME NEW t \in Tasks PROVE RunOK(t)'
      <3>1. RunOK(t) /\ Grows /\ Keeps /\ UNCHANGED <<task, wal>>
        BY <2>1, SeqsSame, AppliedSame DEF Pos, walVars, taskVars
      <3> QED
        BY <2>3, <2>4, <3>1, RunKept
    <2>7. NamesOK'
      BY <1>0, <2>1, NamesKept DEF Wiping, walVars
    <2> QED
      BY <2>3, <2>5, <2>6, <2>7 DEF Pos
  <1> QED
    BY <1>1, <1>2

\* A fresh service satisfies the invariant.
LEMMA PosInit == Init => Pos
  <1> SUFFICES ASSUME Init PROVE Pos
    OBVIOUS
  <1>1. live = 1 /\ disk = 1 /\ inst = 1 /\ None # 1 /\ 1 \in Insts
    BY ConstantsAssumption DEF Init, Insts
  <1>2. ASSUME NEW g \in Groups PROVE DOMAIN wal[g] = {}
    <2>1. wal[g] = <<>>
      BY DEF Init
    <2> QED
      BY <2>1
  <1>3. \A g \in Groups : posn[1][g] = None \/ posn[1][g].seq = 0
    BY <1>1 DEF Init
  <1>4. \A i \in Insts : i > 1 => \A g \in Groups : posn[i][g] = None
    <2>1. posn = [i \in Insts |-> [g \in Groups |->
                     IF i = 1 /\ g = DefaultGroup THEN [seq |-> 0, gen |-> None] ELSE None]]
      BY DEF Init
    <2> QED
      BY <2>1, InstsNat
  <1>5. DatabaseOK
    BY <1>1, <1>2, <1>3, <1>4 DEF DatabaseOK
  <1>6. \A c \in Clients : RequestOK(c)
    BY DEF Init, RequestOK
  <1>7. (\A t \in Tasks : RunOK(t)) /\ NamesOK
    BY DEF Init, RunOK, NamesOK
  <1> QED
    BY <1>5, <1>6, <1>7 DEF Pos

\* Every step of the service keeps the invariant.
LEMMA PosNext == Inv /\ Inv' /\ Pos /\ [Next]_vars => Pos'
  <1> SUFFICES ASSUME Inv, Inv', Pos, [Next]_vars PROVE Pos'
    OBVIOUS
  <1>1. ASSUME NEW c \in Clients, Request(c) PROVE Pos'
    BY <1>1, WritePos, ClearPos, RebuildPos DEF Request
  <1>2. ASSUME NEW c \in Clients, ClientStep(c) PROVE Pos'
    BY <1>2, WritePos, FlushPos, ClearPos, RebuildPos, AdmitPos DEF ClientStep
  <1>3. ASSUME NEW t \in Tasks, TaskStep(t) \/ Disconnect(t) PROVE Pos'
    BY <1>3, BatchPos, FinishPos, RunPos DEF TaskStep
  <1>4. CASE Crash \/ Restart
    BY <1>4, CrashPos
  <1>5. CASE UNCHANGED vars
    <2>1. DatabaseOK' /\ NamesOK'
      BY <1>5, AppliedSame, DatabaseKept, NamesKept DEF Pos, vars, dbVars, walVars, reqVars, Wiping
    <2>2. (\A c \in Clients : RequestOK(c)') /\ (\A t \in Tasks : RunOK(t)')
      BY <1>5 DEF Pos, RequestOK, RunOK, vars, dbVars, walVars, reqVars, taskVars
    <2> QED
      BY <2>1, <2>2 DEF Pos
  <1> QED
    BY <1>1, <1>2, <1>3, <1>4, <1>5 DEF Next, Idle

\* The invariant says what PositionHonest says, and more.
LEMMA PosHonest == Inv /\ Pos => PositionHonest
  <1> SUFFICES ASSUME Inv, Pos PROVE PositionHonest
    OBVIOUS
  <1>1. PositionWithinLog
    BY DEF Pos, DatabaseOK, PositionWithinLog
  <1>2. NeverLeads
    BY DEF Pos, DatabaseOK, NeverLeads, Leads
  <1>3. GenerationNamesOne
    BY DEF Pos, NamesOK, GenerationNamesOne
  <1> QED
    BY <1>1, <1>2, <1>3 DEF PositionHonest

\* A recorded position means what its readers take it to mean, in every reachable state: it
\* points into its stream, its (generation, seq) names one mutation, and the database has
\* every line up to it, except in the groups that are marked as behind.
THEOREM PositionsHonest == Spec => []PositionHonest
  <1>1. Spec => []Pos
    BY InvCorrect, PosInit, PosNext, PTL DEF Spec
  <1> QED
    BY <1>1, InvCorrect, PosHonest, PTL
=============================================================================
