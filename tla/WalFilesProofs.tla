--------------------------- MODULE WalFilesProofs ---------------------------
(***************************************************************************)
(* For every number of readers, chunks, files, failed appends, crashes and *)
(* deliveries: the log of a group stays in order, the counter stays beyond *)
(* it, no file outgrows its limit and a failed append costs at most one    *)
(* acknowledged line; and the directory implements the numbered stream of  *)
(* module WalStream.                                                       *)
(*                                                                         *)
(* The argument: a new line gets a seq beyond all that can be read, so the *)
(* order of the lines, within a file and across files, cannot be broken by *)
(* an append; only the unterminated tail of the writer's own file is ever  *)
(* touched again, and a failed append, which left it, pays for the line    *)
(* that joins it.                                                          *)
(***************************************************************************)
EXTENDS WalFiles, FiniteSetTheorems, WellFoundedInduction, TLAPS

Line == Nat \cup {Junk}
FileRow == [lines : Seq(Line), open : BOOLEAN, size : Nat]

Rising(q) == \A j, k \in DOMAIN q : (j < k /\ q[j] # Junk /\ q[k] # Junk) => q[j] < q[k]

\* A writer appends to its own file; a file that ends without a newline has a line.
Writing ==
    /\ global_seq = None => current = None
    /\ \A i \in DOMAIN file : file[i].open => file[i].lines # <<>>

\* Every file is in order, and no seq is in two files.
InOrder ==
    /\ \A i \in DOMAIN file : Rising(file[i].lines)
    /\ \A i, j \in DOMAIN file : \A k \in Parsed(file[i]), l \in Parsed(file[j]) :
         i # j => file[i].lines[k] # file[j].lines[l]

\* Without deliveries the files are in order too, and the writer's is the last.
InTurn ==
    imports = 0 =>
      /\ current # None => current = Len(file)
      /\ \A i, j \in DOMAIN file : \A k \in Parsed(file[i]), l \in Parsed(file[j]) :
           i < j => file[i].lines[k] < file[j].lines[l]

\* Without faults the writer's count is the length of its file.
Sized ==
    (fails = 0 /\ crashes = 0) =>
      /\ \A i \in DOMAIN file : ~file[i].open
      /\ current # None => events = Len(file[current].lines)
      /\ \A i \in DOMAIN file : Len(file[i].lines) <= MaxEvents \/ Len(file[i].lines) \in ChunkSizes

\* The lines no later append can touch, and what the appends that failed have paid for.
Safe == Readable \ {OpenTail}
Due == IF OpenTail = None THEN 0 ELSE 1
Paid == IsFiniteSet(acked) /\ Cardinality(acked \ Safe) + Due <= fails

\* Cached bounds name files that are there.
Sound(b) ==
    /\ b.max # None => b.maxFile \in DOMAIN file
    /\ b.min # None => b.minFile \in DOMAIN file

\* A call names files that are there.
Reading(k) ==
    /\ k.m # None => Sound(k.m)
    /\ Sound(k.best) /\ k.todo \subseteq DOMAIN file
    /\ k.pc \in {"stat", "reread"} => k.m # None
    /\ k.pc = "reread" => k.m.max # None
    /\ k.pc \in {"scan_stat", "scan_first"} => k.i \in DOMAIN file
    /\ k.pc = "scan_stat" => k.seq # None

Cached ==
    /\ manifest # None => Sound(manifest)
    /\ \A r \in Readers : rd[r] # None => Reading(rd[r])

Inv == TypeOK /\ Writing /\ InOrder /\ InTurn /\ CounterAhead /\ Sized /\ Paid /\ Cached

-----------------------------------------------------------------------------
(* Largest and smallest numbers of a set.                                  *)

\* A nonempty finite set of naturals has a largest element.
LEMMA Largest ==
  ASSUME NEW T \in SUBSET Nat, IsFiniteSet(T), T # {}
  PROVE  \E m \in T : \A x \in T : x <= m
<1> DEFINE up(x) == {y \in T : y > x}
<1>1. PICK C : C = {up(x) : x \in T}
  OBVIOUS
<1>2. C \subseteq FiniteSubsetsOf(T) /\ C # {}
  <2>1. FiniteSubsetsOf(T) = SUBSET T
    BY FS_FiniteSubsetsOfFinite
  <2>2. C \subseteq SUBSET T /\ C # {}
    BY <1>1
  <2>3. QED
    BY <2>1, <2>2
<1>3. PICK R : R = StrictSubsetOrdering(T)
  OBVIOUS
<1>4. IsWellFoundedOn(R, FiniteSubsetsOf(T))
  BY <1>3, FS_StrictSubsetOrderingWellFounded
<1>5. PICK u \in C : \A v \in C : ~(<<v, u>> \in R)
  BY <1>2, <1>4, WFMin
<1>6. PICK m \in T : u = up(m)
  BY <1>1, <1>5
<1>7. ASSUME NEW x \in T, x > m PROVE FALSE
  <2>1. up(x) \in C /\ up(x) \subseteq T /\ up(m) \subseteq T
    BY <1>1
  <2>2. up(x) \subseteq up(m)
    <3> SUFFICES ASSUME NEW y \in T, y > x PROVE y > m
      OBVIOUS
    <3>1. x \in Nat /\ y \in Nat /\ m \in Nat
      OBVIOUS
    <3>2. QED
      BY <1>7, <3>1
  <2>3. x \in up(m) /\ x \notin up(x)
    BY <1>7
  <2>4. <<up(x), up(m)>> \in R
    BY <1>3, <2>1, <2>2, <2>3 DEF StrictSubsetOrdering
  <2>5. QED
    BY <1>5, <1>6, <2>1, <2>4
<1>8. QED
  BY <1>7

\* A nonempty set of naturals has a smallest element.
LEMMA Smallest ==
  ASSUME NEW T \in SUBSET Nat, T # {}
  PROVE  \E m \in T : \A x \in T : m <= x
<1>1. PICK t \in T : TRUE
  OBVIOUS
<1>2. PICK U : U = {y \in 0..t : t - y \in T}
  OBVIOUS
<1>3. U \in SUBSET Nat /\ 0 \in U
  BY <1>1, <1>2
<1>4. IsFiniteSet(U)
  <2>1. IsFiniteSet(0..t)
    BY <1>1, FS_Interval
  <2>2. U \in SUBSET (0..t)
    BY <1>2
  <2>3. QED
    BY <2>1, <2>2, FS_Subset
<1>5. PICK u \in U : \A y \in U : y <= u
  BY <1>3, <1>4, Largest
<1>6. u \in Nat /\ t \in Nat /\ u <= t /\ t - u \in T
  BY <1>2, <1>5
<1>7. ASSUME NEW x \in T PROVE t - u <= x
  <2>1. x \in Nat
    OBVIOUS
  <2>2. CASE x <= t
    <3>1. t - x \in 0..t /\ t - (t - x) = x
      BY <1>6, <2>1, <2>2
    <3>2. t - x \in U
      BY <1>2, <3>1
    <3>3. QED
      BY <1>5, <1>6, <2>1, <3>1, <3>2
  <2>3. CASE x > t
    BY <1>6, <2>1, <2>3
  <2>4. QED
    BY <1>6, <2>1, <2>2, <2>3
<1>8. QED
  BY <1>6, <1>7

\* The last of finitely many.
LEMMA LastOf ==
  ASSUME NEW T \in SUBSET Nat, IsFiniteSet(T), T # {}
  PROVE  Last(T) \in T /\ \A x \in T : x <= Last(T)
  BY Largest DEF Last

\* The first of any.
LEMMA FirstOf ==
  ASSUME NEW T \in SUBSET Nat, T # {}
  PROVE  First(T) \in T /\ \A x \in T : First(T) <= x
  BY Smallest DEF First

USE WalFilesAssumption

\* The lines of a file that parse.
LEMMA ParsedLines ==
  ASSUME NEW f \in FileRow
  PROVE  /\ Parsed(f) \in SUBSET Nat /\ Parsed(f) \subseteq DOMAIN f.lines /\ IsFiniteSet(Parsed(f))
         /\ \A k \in Parsed(f) : f.lines[k] \in Nat
<1>1. PICK q \in Seq(Line) : q = f.lines
  BY DEF FileRow
<1>2. PICK n \in Nat : n = Len(q) /\ DOMAIN q = 1..n
  OBVIOUS
<1>3. IsFiniteSet(1..n)
  BY FS_Interval
<1>4. Parsed(f) \in SUBSET (1..n)
  BY <1>1, <1>2 DEF Parsed
<1>5. IsFiniteSet(Parsed(f))
  BY <1>3, <1>4, FS_Subset
<1>6. \A k \in Parsed(f) : q[k] \in Nat
  BY <1>1, <1>2 DEF Parsed, Line
<1>7. QED
  BY <1>1, <1>2, <1>4, <1>5, <1>6

\* What the ends of a file that is in order say.
LEMMA Ends ==
  ASSUME NEW f \in FileRow, Rising(f.lines), Parsed(f) # {}
  PROVE  /\ \E k \in Parsed(f) : read_last_seq(f) = f.lines[k]
         /\ \E k \in Parsed(f) : first_seq_in_file(f) = f.lines[k]
         /\ \A k \in Parsed(f) : f.lines[k] <= read_last_seq(f) /\ first_seq_in_file(f) <= f.lines[k]
         /\ read_last_seq(f) \in Nat /\ first_seq_in_file(f) \in Nat
<1>1. /\ Parsed(f) \in SUBSET Nat /\ Parsed(f) \subseteq DOMAIN f.lines /\ IsFiniteSet(Parsed(f))
      /\ \A k \in Parsed(f) : f.lines[k] \in Nat
  BY ParsedLines
<1>2. PICK l \in Parsed(f) : l = Last(Parsed(f)) /\ \A x \in Parsed(f) : x <= l
  BY <1>1, LastOf
<1>3. PICK e \in Parsed(f) : e = First(Parsed(f)) /\ \A x \in Parsed(f) : e <= x
  BY <1>1, FirstOf
<1>4. read_last_seq(f) = f.lines[l] /\ first_seq_in_file(f) = f.lines[e]
  BY <1>2, <1>3 DEF read_last_seq, first_seq_in_file
<1>5. \A k \in Parsed(f) : f.lines[k] # Junk
  BY DEF Parsed
<1>6. \A k \in Parsed(f) : k = l \/ f.lines[k] < f.lines[l]
  BY <1>1, <1>2, <1>5 DEF Rising
<1>7. \A k \in Parsed(f) : k = e \/ f.lines[e] < f.lines[k]
  BY <1>1, <1>3, <1>5 DEF Rising
<1>8. QED
  BY <1>1, <1>4, <1>6, <1>7

\* What a replay of the directory reads.
LEMMA InReadable ==
  \A x : x \in Readable <=> \E i \in DOMAIN file : \E k \in Parsed(file[i]) : x = file[i].lines[k]
  BY DEF Readable

-----------------------------------------------------------------------------
(* One write to one file.                                                  *)

\* New text after a line with its newline, and after one without.
After(q, new, r) ==
    /\ Len(r) = Len(q) + Len(new)
    /\ \A k \in DOMAIN r : r[k] = IF k <= Len(q) THEN q[k] ELSE new[k - Len(q)]
Joined(q, new, r) ==
    /\ Len(r) = Len(q) + Len(new) - 1
    /\ \A k \in DOMAIN r : r[k] = IF k < Len(q) THEN q[k] ELSE IF k = Len(q) THEN Junk ELSE new[k - Len(q) + 1]

\* Some lines after others.
LEMMA Concat ==
  ASSUME NEW b \in Seq(Line), NEW t \in Seq(Line), NEW r, r = b \o t
  PROVE  /\ r \in Seq(Line) /\ Len(r) = Len(b) + Len(t)
         /\ \A k \in 1..Len(r) : r[k] = IF k <= Len(b) THEN b[k] ELSE t[k - Len(b)]
  OBVIOUS

\* What becomes of an open last line and a first new one: one unparseable
\* line.
LEMMA JoinedLines ==
  ASSUME NEW q \in Seq(Line), q # <<>>, NEW new \in Seq(Line), new # <<>>,
         NEW r, r = SubSeq(q, 1, Len(q) - 1) \o <<Junk>> \o Tail(new)
  PROVE  r \in Seq(Line) /\ Joined(q, new, r)
<1>1. PICK n \in Nat : n = Len(q) /\ n >= 1
  OBVIOUS
<1>2. PICK a : a = SubSeq(q, 1, n - 1)
  OBVIOUS
<1>3. a \in Seq(Line) /\ Len(a) = n - 1 /\ \A k \in 1..(n - 1) : a[k] = q[k]
  BY <1>1, <1>2
<1>4. PICK b : b = a \o <<Junk>>
  OBVIOUS
<1>5. b \in Seq(Line) /\ Len(b) = n /\ \A k \in 1..n : b[k] = IF k < n THEN q[k] ELSE Junk
  BY <1>1, <1>3, <1>4 DEF Line
<1>6. PICK t : t = Tail(new)
  OBVIOUS
<1>7. t \in Seq(Line) /\ Len(t) = Len(new) - 1 /\ \A k \in 1..Len(t) : t[k] = new[k + 1]
  BY <1>6
<1>8. r = b \o t
  BY <1>1, <1>2, <1>4, <1>6
<1>9. r \in Seq(Line) /\ Len(r) = n + Len(t) /\ \A k \in 1..Len(r) : r[k] = IF k <= n THEN b[k] ELSE t[k - n]
  <2>1. b \in Seq(Line) /\ t \in Seq(Line) /\ Len(b) = n
    BY <1>5, <1>7
  <2>2. PICK z : z = b \o t
    OBVIOUS
  <2>a. z \in Seq(Line) /\ Len(z) = Len(b) + Len(t)
        /\ \A k \in 1..Len(z) : z[k] = IF k <= Len(b) THEN b[k] ELSE t[k - Len(b)]
    BY <2>1, <2>2, Concat
  <2>3. r = z
    BY <1>8, <2>2
  <2>4. QED
    BY <2>1, <2>a, <2>3
<1>10. \A k \in DOMAIN r : r[k] = IF k < n THEN q[k] ELSE IF k = n THEN Junk ELSE new[k - n + 1]
  <2> SUFFICES ASSUME NEW k \in DOMAIN r PROVE r[k] = IF k < n THEN q[k] ELSE IF k = n THEN Junk ELSE new[k - n + 1]
    OBVIOUS
  <2>1. k \in 1..Len(r) /\ k \in Nat /\ Len(t) \in Nat /\ (k <= n \/ k > n)
    BY <1>1, <1>7, <1>9
  <2>2. CASE k <= n
    BY <1>1, <1>5, <1>9, <2>1, <2>2
  <2>3. CASE k > n
    <3>1. k - n \in 1..Len(t)
      BY <1>1, <1>9, <2>1, <2>3
    <3>2. r[k] = t[k - n]
      <4>1. k \in 1..Len(r) /\ ~(k <= n)
        BY <1>1, <2>1, <2>3
      <4> QED BY <1>9, <4>1, Zenon
    <3>a. t[k - n] = new[(k - n) + 1]
      BY <1>7, <3>1, Zenon
    <3>3. ~(k < n) /\ k # n
      BY <1>1, <2>1, <2>3
    <3>4. QED
      BY <3>2, <3>a, <3>3
  <2>4. QED
    BY <2>1, <2>2, <2>3
<1>11. Len(r) = n + Len(new) - 1
  BY <1>1, <1>7, <1>9
<1>12. QED
  BY <1>1, <1>9, <1>10, <1>11 DEF Joined

\* What a write leaves of a file.
LEMMA Extended ==
  ASSUME NEW f \in FileRow, f.open => f.lines # <<>>, NEW new \in Seq(Line), NEW o \in BOOLEAN,
         NEW h, h = Extend(f, new, o)
  PROVE  /\ h \in FileRow /\ (h.open => h.lines # <<>>)
         /\ new = <<>> => h = f
         /\ new # <<>> => h.open = o /\ h.size > f.size
                          /\ IF f.open THEN Joined(f.lines, new, h.lines) ELSE After(f.lines, new, h.lines)
<1>1. CASE new = <<>>
  BY <1>1 DEF Extend
<1>2. CASE new # <<>>
  <2>1. PICK q \in Seq(Line) : q = f.lines
    BY DEF FileRow
  <2>2. PICK r : r = IF f.open THEN SubSeq(q, 1, Len(q) - 1) \o <<Junk>> \o Tail(new) ELSE q \o new
    OBVIOUS
  <2>3. PICK z : z = f.size + 2 * Len(new) - (IF o THEN 1 ELSE 0)
    OBVIOUS
  <2>4. h = [lines |-> r, open |-> o, size |-> z]
    BY <1>2, <2>1, <2>2, <2>3 DEF Extend
  <2>5. z \in Nat /\ z > f.size
    BY <1>2, <2>3 DEF FileRow
  <2>6. r \in Seq(Line) /\ IF f.open THEN Joined(q, new, r) ELSE After(q, new, r)
    <3>1. CASE f.open
      BY <1>2, <2>1, <2>2, <3>1, JoinedLines
    <3>2. CASE ~f.open
      BY <2>2, <3>2 DEF After
    <3>3. QED
      BY <3>1, <3>2
  <2>7. h \in FileRow /\ h.lines = r /\ h.open = o /\ h.size = z
    BY <2>4, <2>5, <2>6 DEF FileRow
  <2>8. Len(r) >= 1
    BY <1>2, <2>1, <2>6 DEF Joined, After
  <2>9. r # <<>>
    BY <2>6, <2>8
  <2>10. QED
    BY <1>2, <2>1, <2>5, <2>6, <2>7, <2>9
<1>3. QED
  BY <1>1, <1>2

\* The lines of a chunk, or of what a write that stopped left of it.
Fresh(new) == new \in Seq(Line) /\ \A k \in DOMAIN new : new[k] # Junk => new[k] = global_seq + k - 1

\* File i is written, or created and written.
Puts(i, f, new, o) ==
    /\ i \in 1..(Len(file) + 1) /\ f = IF i \in DOMAIN file THEN file[i] ELSE EmptyFile
    /\ file' \in Seq(FileRow) /\ DOMAIN file' = DOMAIN file \cup {i}
    /\ file'[i] = Extend(f, new, o)
    /\ \A j \in DOMAIN file : j # i => file'[j] = file[j]

\* The lines that are not touched, and those that come.
Kept(f, h, k) == k \in Parsed(f) /\ h.lines[k] = f.lines[k] /\ k <= Len(f.lines) /\ ~(f.open /\ k = Len(f.lines))
Came(f, new, h, k) ==
    /\ k > Len(f.lines)
    /\ LET p == k - Len(f.lines) + (IF f.open THEN 1 ELSE 0)
       IN  p \in DOMAIN new /\ p >= 1 /\ new[p] # Junk /\ h.lines[k] = new[p]

\* The parsed lines of a file after a write: those it had, but for the open
\* one, and the new ones.
LEMMA WrittenLines ==
  ASSUME NEW f \in FileRow, f.open => f.lines # <<>>, NEW new \in Seq(Line), new # <<>>, NEW o \in BOOLEAN,
         NEW h, h = Extend(f, new, o)
  PROVE  /\ \A k \in Parsed(h) : Kept(f, h, k) \/ Came(f, new, h, k)
         /\ \A k \in Parsed(f) : (~(f.open /\ k = Len(f.lines))) => k \in Parsed(h) /\ h.lines[k] = f.lines[k]
         /\ \A p \in DOMAIN new : (new[p] # Junk /\ ~(f.open /\ p = 1)) =>
              \E k \in Parsed(h) : h.lines[k] = new[p]
<1>1. PICK q \in Seq(Line), r \in Seq(Line) : q = f.lines /\ r = h.lines
  BY Extended DEF FileRow
<1>2. IF f.open THEN Joined(q, new, r) ELSE After(q, new, r)
  BY <1>1, Extended
<1>3. PICK n \in Nat, m \in Nat : n = Len(q) /\ m = Len(new) /\ DOMAIN q = 1..n /\ DOMAIN new = 1..m
  OBVIOUS
<1>4. PICK w \in Nat : w = Len(r) /\ DOMAIN r = 1..w
  OBVIOUS
<1>5. CASE f.open
  <2>1. /\ w = n + m - 1
        /\ \A k \in 1..w : r[k] = IF k < n THEN q[k] ELSE IF k = n THEN Junk ELSE new[k - n + 1]
    BY <1>2, <1>3, <1>4, <1>5 DEF Joined
  <2>2. n >= 1 /\ m >= 1
    BY <1>1, <1>3, <1>5
  <2>3. \A k \in Parsed(h) : Kept(f, h, k) \/ Came(f, new, h, k)
    <3> SUFFICES ASSUME NEW k \in Parsed(h) PROVE Kept(f, h, k) \/ Came(f, new, h, k)
      OBVIOUS
    <3>1. k \in 1..w /\ r[k] # Junk /\ k \in Nat
      BY <1>1, <1>4 DEF Parsed
    <3>2. CASE k < n
      <4>1. r[k] = q[k] /\ k \in 1..n
        BY <2>1, <3>1, <3>2
      <4>2. QED
        BY <1>1, <1>3, <3>1, <3>2, <4>1 DEF Kept, Parsed
    <3>3. CASE k > n
      <4>1. r[k] = new[k - n + 1] /\ k - n + 1 \in 1..m
        BY <2>1, <3>1, <3>3
      <4>2. PICK p \in DOMAIN new : p = k - n + 1 /\ p >= 1
        BY <1>3, <4>1
      <4>3. p = k - Len(f.lines) + (IF f.open THEN 1 ELSE 0)
        BY <1>1, <1>3, <1>5, <4>2
      <4>4. QED
        BY <1>1, <1>3, <3>1, <3>3, <4>1, <4>2, <4>3 DEF Came
    <3>4. QED
      BY <2>1, <3>1, <3>2, <3>3
  <2>4. \A k \in Parsed(f) : k # n => k \in Parsed(h) /\ r[k] = q[k]
    <3> SUFFICES ASSUME NEW k \in Parsed(f), k # n PROVE k \in Parsed(h) /\ r[k] = q[k]
      OBVIOUS
    <3>1. k \in 1..n /\ q[k] # Junk
      BY <1>1, <1>3 DEF Parsed
    <3>2. k \in 1..w /\ r[k] = q[k]
      BY <2>1, <2>2, <3>1
    <3>3. QED
      BY <1>1, <1>4, <3>1, <3>2 DEF Parsed
  <2>5. ASSUME NEW p \in DOMAIN new, new[p] # Junk, p # 1 PROVE \E k \in Parsed(h) : r[k] = new[p]
    <3>1. p \in 1..m
      BY <1>3
    <3>2. p + n - 1 \in 1..w /\ p + n - 1 > n /\ (p + n - 1) - n + 1 = p
      BY <2>1, <2>2, <2>5, <3>1
    <3>5. PICK k \in 1..w : k > n /\ k - n + 1 = p
      BY <3>2
    <3>3. r[k] = new[p]
      BY <2>1, <3>5
    <3>4. QED
      BY <1>1, <1>4, <2>5, <3>3 DEF Parsed
  <2>6. QED
    BY <1>1, <1>3, <1>5, <2>3, <2>4, <2>5
<1>6. CASE ~f.open
  <2>1. /\ w = n + m
        /\ \A k \in 1..w : r[k] = IF k <= n THEN q[k] ELSE new[k - n]
    BY <1>2, <1>3, <1>4, <1>6 DEF After
  <2>3. \A k \in Parsed(h) : Kept(f, h, k) \/ Came(f, new, h, k)
    <3> SUFFICES ASSUME NEW k \in Parsed(h) PROVE Kept(f, h, k) \/ Came(f, new, h, k)
      OBVIOUS
    <3>1. k \in 1..w /\ r[k] # Junk /\ k \in Nat
      BY <1>1, <1>4 DEF Parsed
    <3>2. CASE k <= n
      BY <1>1, <1>3, <1>6, <2>1, <3>1, <3>2 DEF Kept, Parsed
    <3>3. CASE k > n
      BY <1>1, <1>3, <1>6, <2>1, <3>1, <3>3 DEF Came
    <3>4. QED
      BY <3>1, <3>2, <3>3
  <2>4. \A k \in Parsed(f) : k \in Parsed(h) /\ r[k] = q[k]
    BY <1>1, <1>3, <1>4, <2>1 DEF Parsed
  <2>5. ASSUME NEW p \in DOMAIN new, new[p] # Junk PROVE \E k \in Parsed(h) : r[k] = new[p]
    <3>1. p \in 1..m
      BY <1>3
    <3>2. p + n \in 1..w /\ p + n > n /\ (p + n) - n = p
      BY <2>1, <2>5, <3>1
    <3>5. PICK k \in 1..w : k > n /\ k - n = p
      BY <3>2
    <3>3. r[k] = new[p]
      BY <2>1, <3>5
    <3>4. QED
      BY <1>1, <1>4, <2>5, <3>3 DEF Parsed
  <2>6. QED
    BY <1>1, <1>3, <1>6, <2>3, <2>4, <2>5
<1>7. QED
  BY <1>5, <1>6

-----------------------------------------------------------------------------
(* The order of the log.                                                   *)

\* A directory in which a writer may append.
Sane == file \in Seq(FileRow) /\ Writing /\ InOrder /\ global_seq \in Nat /\ \A x \in Readable : x < global_seq

\* Nothing is a sequence of anything.
LEMMA Nothing == \A S : <<>> \in Seq(S)
  OBVIOUS

\* A new file.
LEMMA NewFile == EmptyFile \in FileRow /\ ~EmptyFile.open /\ EmptyFile.lines = <<>> /\ Parsed(EmptyFile) = {} /\ Rising(EmptyFile.lines)
<1>1. PICK z \in Seq(Line) : z = <<>>
  BY Nothing
<1>2. EmptyFile.lines = z /\ DOMAIN z = {}
  BY <1>1 DEF EmptyFile
<1>3. QED
  BY <1>1, <1>2 DEF EmptyFile, FileRow, Parsed, Rising

\* The file that is about to be written.
LEMMA FileBefore ==
  ASSUME Sane, NEW i, NEW f, NEW new, NEW o, Puts(i, f, new, o)
  PROVE  /\ f \in FileRow /\ (f.open => f.lines # <<>>) /\ Rising(f.lines)
         /\ \A k \in Parsed(f) : i \in DOMAIN file /\ f = file[i] /\ f.lines[k] \in Nat /\ f.lines[k] < global_seq
<1>1. CASE i \in DOMAIN file
  <2>1. f = file[i] /\ f \in FileRow
    BY <1>1 DEF Puts, Sane
  <2>2. \A k \in Parsed(f) : f.lines[k] \in Nat /\ f.lines[k] \in Readable
    BY <1>1, <2>1, ParsedLines, InReadable
  <2>3. QED
    BY <1>1, <2>1, <2>2 DEF Sane, Writing, InOrder
<1>2. CASE i \notin DOMAIN file
  BY <1>2, NewFile DEF Puts
<1>3. QED
  BY <1>1, <1>2

\* A new line comes under a seq beyond the counter.
Beyond(f, new, h, k) ==
    /\ h.lines[k] \in Nat /\ h.lines[k] >= global_seq /\ h.lines[k] < global_seq + Len(new)
    /\ h.lines[k] = global_seq + (k - Len(f.lines) + (IF f.open THEN 1 ELSE 0)) - 1

\* Where a new line lies and which seq it has: beyond every line there was.
LEMMA CameAt ==
  ASSUME global_seq \in Nat, NEW f \in FileRow, NEW new, Fresh(new), NEW h, NEW k \in Nat, Came(f, new, h, k)
  PROVE  Beyond(f, new, h, k)
<1>1. PICK p \in DOMAIN new : p = k - Len(f.lines) + (IF f.open THEN 1 ELSE 0) /\ p >= 1
                             /\ new[p] # Junk /\ h.lines[k] = new[p]
  BY DEF Came
<1>2. new \in Seq(Line) /\ p \in 1..Len(new) /\ Len(new) \in Nat
  BY DEF Fresh
<1>3. PICK v : v = h.lines[k] /\ v = global_seq + p - 1
  BY <1>1 DEF Fresh
<1>4. v \in Nat /\ v >= global_seq /\ v < global_seq + Len(new)
  BY <1>2, <1>3
<1>5. v = global_seq + (k - Len(f.lines) + (IF f.open THEN 1 ELSE 0)) - 1
  BY <1>1, <1>3
<1>6. QED
  BY <1>3, <1>4, <1>5 DEF Beyond

\* A line was there before, or it is new.
Stays(j, k) == j \in DOMAIN file /\ k \in Parsed(file[j]) /\ file'[j].lines[k] = file[j].lines[k]
Arrives(i, new, j, k) ==
    /\ j = i /\ file'[j].lines[k] \in Nat /\ file'[j].lines[k] >= global_seq
    /\ file'[j].lines[k] < global_seq + Len(new)

\* A write of fresh lines keeps the order of the log.
LEMMA PutOrder ==
  ASSUME Sane, NEW i, NEW f, NEW new, NEW o \in BOOLEAN, Puts(i, f, new, o), Fresh(new)
  PROVE  /\ \A j \in DOMAIN file' : file'[j].open => file'[j].lines # <<>>
         /\ \A j \in DOMAIN file' : \A k \in Parsed(file'[j]) : Stays(j, k) \/ Arrives(i, new, j, k)
         /\ InOrder'
<1>1. /\ f \in FileRow /\ (f.open => f.lines # <<>>) /\ Rising(f.lines)
      /\ \A k \in Parsed(f) : i \in DOMAIN file /\ f = file[i] /\ f.lines[k] \in Nat /\ f.lines[k] < global_seq
  BY FileBefore
<1>2. PICK h : h = file'[i] /\ h = Extend(f, new, o)
  BY DEF Puts
<1>3. new \in Seq(Line)
  BY DEF Fresh
<1>4. /\ h \in FileRow /\ (h.open => h.lines # <<>>) /\ (new = <<>> => h = f)
  BY <1>1, <1>2, <1>3, Extended
<1>5. \A j \in DOMAIN file' : j = i \/ (j \in DOMAIN file /\ file'[j] = file[j])
  BY DEF Puts
<1>6. \A k \in Parsed(h) : k \in Nat
  BY <1>4, ParsedLines
<1>7. \A k \in Parsed(h) : (k \in Parsed(f) /\ h.lines[k] = f.lines[k] /\ k <= Len(f.lines)) \/ Came(f, new, h, k)
  <2>1. CASE new = <<>>
    <3>1. \A k \in Parsed(f) : k <= Len(f.lines)
      <4>1. PICK q \in Seq(Line) : q = f.lines
        BY <1>1 DEF FileRow
      <4>2. \A k \in DOMAIN q : k <= Len(q)
        OBVIOUS
      <4>3. QED
        BY <4>1, <4>2 DEF Parsed
    <3>2. QED
      BY <1>4, <2>1, <3>1
  <2>2. CASE new # <<>>
    BY <1>1, <1>2, <1>3, <2>2, WrittenLines DEF Kept
  <2>3. QED
    BY <2>1, <2>2
<1>8. \A k \in Parsed(h) : Came(f, new, h, k) => Beyond(f, new, h, k)
  BY <1>1, <1>6, CameAt DEF Sane
<1>9. Rising(h.lines)
  <2> SUFFICES ASSUME NEW j \in DOMAIN h.lines, NEW k \in DOMAIN h.lines, j < k, h.lines[j] # Junk, h.lines[k] # Junk
               PROVE  h.lines[j] < h.lines[k]
    BY DEF Rising
  <2>1. j \in Parsed(h) /\ k \in Parsed(h) /\ j \in Nat /\ k \in Nat
    BY <1>6 DEF Parsed
  <2>2. PICK n \in Nat : n = Len(f.lines)
    BY <1>1 DEF FileRow
  <2>3. CASE k \in Parsed(f) /\ h.lines[k] = f.lines[k] /\ k <= n
    <3>1. ~Came(f, new, h, j)
      BY <2>1, <2>2, <2>3 DEF Came
    <3>2. j \in Parsed(f) /\ h.lines[j] = f.lines[j]
      BY <1>7, <2>1, <3>1
    <3>3. QED
      BY <1>1, <2>3, <3>2 DEF Rising, Parsed
  <2>4. CASE Came(f, new, h, k)
    <3>1. h.lines[k] \in Nat /\ h.lines[k] >= global_seq
          /\ h.lines[k] = global_seq + (k - n + (IF f.open THEN 1 ELSE 0)) - 1
      BY <1>8, <2>1, <2>2, <2>4 DEF Beyond
    <3>2. CASE j \in Parsed(f) /\ h.lines[j] = f.lines[j]
      BY <1>1, <3>1, <3>2 DEF Sane
    <3>3. CASE Came(f, new, h, j)
      <4>1. h.lines[j] = global_seq + (j - n + (IF f.open THEN 1 ELSE 0)) - 1
        BY <1>8, <2>1, <2>2, <3>3 DEF Beyond
      <4>2. PICK a \in Nat : a = IF f.open THEN 1 ELSE 0
        OBVIOUS
      <4>3. \A c, x, y, m \in Nat : x < y => c + (x - m + a) - 1 < c + (y - m + a) - 1
        OBVIOUS
      <4>4. global_seq + (j - n + a) - 1 < global_seq + (k - n + a) - 1
        BY <2>1, <2>2, <4>3 DEF Sane
      <4>5. QED
        BY <3>1, <4>1, <4>2, <4>4
    <3>4. QED
      BY <1>7, <2>1, <3>2, <3>3
  <2>5. QED
    BY <1>7, <2>1, <2>2, <2>3, <2>4
<1>10. \A j \in DOMAIN file' : \A k \in Parsed(file'[j]) : Stays(j, k) \/ Arrives(i, new, j, k)
  <2> SUFFICES ASSUME NEW j \in DOMAIN file', NEW k \in Parsed(file'[j])
               PROVE  Stays(j, k) \/ Arrives(i, new, j, k)
    OBVIOUS
  <2>1. CASE j # i
    BY <1>5, <2>1 DEF Stays
  <2>2. CASE j = i
    BY <1>1, <1>2, <1>7, <1>8, <2>2 DEF Stays, Arrives, Beyond
  <2>3. QED
    BY <2>1, <2>2
<1>11. \A j \in DOMAIN file' : file'[j].open => file'[j].lines # <<>>
  BY <1>2, <1>4, <1>5 DEF Sane, Writing
<1>12. \A j \in DOMAIN file' : Rising(file'[j].lines)
  BY <1>2, <1>5, <1>9 DEF Sane, InOrder
<1>13. \A j, l \in DOMAIN file' : \A k \in Parsed(file'[j]), m \in Parsed(file'[l]) :
         j # l => file'[j].lines[k] # file'[l].lines[m]
  <2> SUFFICES ASSUME NEW j \in DOMAIN file', NEW l \in DOMAIN file', NEW k \in Parsed(file'[j]),
                      NEW m \in Parsed(file'[l]), j # l
               PROVE  file'[j].lines[k] # file'[l].lines[m]
    OBVIOUS
  <2>1. \A a, b : Stays(a, b) => file'[a].lines[b] \in Nat /\ file'[a].lines[b] < global_seq
    <3> SUFFICES ASSUME NEW a, NEW b, Stays(a, b) PROVE file'[a].lines[b] \in Nat /\ file'[a].lines[b] < global_seq
      OBVIOUS
    <3>1. file[a] \in FileRow /\ b \in Parsed(file[a]) /\ a \in DOMAIN file
      BY DEF Stays, Sane
    <3>2. file[a].lines[b] \in Nat /\ file[a].lines[b] \in Readable
      BY <3>1, ParsedLines, InReadable
    <3>3. QED
      BY <3>2 DEF Stays, Sane
  <2>2. CASE Stays(j, k) /\ Stays(l, m)
    BY <2>2 DEF Stays, Sane, InOrder
  <2>3. CASE Stays(j, k) /\ Arrives(i, new, l, m)
    BY <2>1, <2>3 DEF Arrives, Sane
  <2>4. CASE Arrives(i, new, j, k) /\ Stays(l, m)
    BY <2>1, <2>4 DEF Arrives, Sane
  <2>5. ~(Arrives(i, new, j, k) /\ Arrives(i, new, l, m))
    BY DEF Arrives
  <2>6. QED
    BY <1>10, <2>2, <2>3, <2>4, <2>5
<1>14. QED
  BY <1>10, <1>11, <1>12, <1>13 DEF InOrder, Parsed

-----------------------------------------------------------------------------
(* What can be read after a write.                                         *)

\* The same after the step.
LEMMA InReadableNext ==
  \A x : x \in Readable' <=> \E i \in DOMAIN file' : \E k \in Parsed(file'[i]) : x = file'[i].lines[k]
  BY DEF Readable, Parsed

\* The line that a write joins, and the lines that it brings.
Joins(f, new, x) == f.open /\ new # <<>> /\ x = f.lines[Len(f.lines)]
Brings(f, new, x) == \E p \in DOMAIN new : new[p] # Junk /\ ~(f.open /\ p = 1) /\ x = new[p]

\* What can be read after a write: what could be, but for a joined line,
\* and the new lines.
LEMMA PutReadable ==
  ASSUME Sane, NEW i, NEW f, NEW new, NEW o \in BOOLEAN, Puts(i, f, new, o), Fresh(new)
  PROVE  \A x : x \in Readable' <=> (x \in Readable /\ ~Joins(f, new, x)) \/ Brings(f, new, x)
<1>1. /\ f \in FileRow /\ (f.open => f.lines # <<>>) /\ Rising(f.lines)
      /\ \A k \in Parsed(f) : i \in DOMAIN file /\ f = file[i] /\ f.lines[k] \in Nat /\ f.lines[k] < global_seq
  BY FileBefore
<1>2. PICK h : h = file'[i] /\ h = Extend(f, new, o)
  BY DEF Puts
<1>3. new \in Seq(Line)
  BY DEF Fresh
<1>4. \A j \in DOMAIN file' : j = i \/ (j \in DOMAIN file /\ file'[j] = file[j])
  BY DEF Puts
<1>5. \A j \in DOMAIN file : j \in DOMAIN file' /\ (j = i => f = file[i])
  BY DEF Puts
<1>6. i \in DOMAIN file'
  BY DEF Puts
<1>7. CASE new = <<>>
  <2>1. h = f
    BY <1>1, <1>2, <1>3, <1>7, Extended
  <2>2. \A x : ~Joins(f, new, x) /\ ~Brings(f, new, x)
    BY <1>7 DEF Joins, Brings
  <2>3. \A x : x \in Readable' => x \in Readable
    <3> SUFFICES ASSUME NEW x \in Readable' PROVE x \in Readable
      OBVIOUS
    <3>1. PICK j \in DOMAIN file' : \E k \in Parsed(file'[j]) : x = file'[j].lines[k]
      BY InReadableNext
    <3>2. j \in DOMAIN file /\ file'[j] = file[j]
      BY <1>1, <1>2, <1>4, <2>1, <3>1
    <3>3. QED
      BY <3>1, <3>2, InReadable
  <2>4. \A x : x \in Readable => x \in Readable'
    <3> SUFFICES ASSUME NEW x \in Readable PROVE x \in Readable'
      OBVIOUS
    <3>1. PICK j \in DOMAIN file : \E k \in Parsed(file[j]) : x = file[j].lines[k]
      BY InReadable
    <3>2. file'[j] = file[j] /\ j \in DOMAIN file'
      BY <1>2, <1>5, <2>1 DEF Puts
    <3>3. QED
      BY <3>1, <3>2, InReadableNext
  <2>5. QED
    BY <2>2, <2>3, <2>4
<1>8. CASE new # <<>>
  <2>1. /\ \A k \in Parsed(h) : Kept(f, h, k) \/ Came(f, new, h, k)
        /\ \A k \in Parsed(f) : (~(f.open /\ k = Len(f.lines))) => k \in Parsed(h) /\ h.lines[k] = f.lines[k]
        /\ \A p \in DOMAIN new : (new[p] # Junk /\ ~(f.open /\ p = 1)) =>
              \E k \in Parsed(h) : h.lines[k] = new[p]
    BY <1>1, <1>2, <1>3, <1>8, WrittenLines
  <2>2. PICK q \in Seq(Line), n \in Nat : q = f.lines /\ n = Len(q) /\ DOMAIN q = 1..n
    BY <1>1 DEF FileRow
  <2>3. \A k \in Parsed(f) : k \in 1..n /\ q[k] # Junk
    BY <2>2 DEF Parsed
  <2>4. f.open => n \in DOMAIN f.lines
    BY <1>1, <2>2
  <2>5. ASSUME NEW k \in Parsed(f), f.open, k # n PROVE q[k] # q[n]
    <3>1. k \in 1..n /\ k < n /\ q[k] # Junk /\ q[k] \in Nat
      BY <1>1, <2>2, <2>3, <2>5
    <3>2. CASE q[n] = Junk
      BY <3>1, <3>2
    <3>3. CASE q[n] # Junk
      <4>1. q[k] < q[n] /\ q[n] \in Nat
        BY <1>1, <2>2, <2>3, <2>4, <2>5, <3>1, <3>3 DEF Rising, Line
      <4>2. QED
        BY <3>1, <4>1
    <3>4. QED
      BY <3>2, <3>3
  <2>6. ASSUME NEW x \in Readable', ~Brings(f, new, x) PROVE x \in Readable /\ ~Joins(f, new, x)
    <3>1. PICK j \in DOMAIN file' : \E k \in Parsed(file'[j]) : x = file'[j].lines[k]
      BY InReadableNext
    <3>2. PICK k \in Parsed(file'[j]) : x = file'[j].lines[k]
      BY <3>1
    <3>3. CASE j = i
      <4>1. ~Came(f, new, h, k)
        <5>1. ASSUME Came(f, new, h, k) PROVE Brings(f, new, x)
          <6>1. PICK p \in DOMAIN new : /\ p = k - Len(f.lines) + (IF f.open THEN 1 ELSE 0) /\ k > Len(f.lines)
                                        /\ new[p] # Junk /\ h.lines[k] = new[p]
            BY <5>1 DEF Came
          <6>2. k \in Nat
            <7>1. h \in FileRow
              BY <1>1, <1>2, <1>3, Extended
            <7>2. QED
              BY <1>2, <3>3, <7>1, ParsedLines
          <6>3. ~(f.open /\ p = 1)
            BY <2>2, <6>1, <6>2
          <6>4. QED
            BY <1>2, <3>2, <3>3, <6>1, <6>3 DEF Brings
        <5>2. QED
          BY <2>6, <5>1
      <4>2. k \in Parsed(f) /\ x = q[k] /\ ~(f.open /\ k = n)
        BY <1>2, <2>1, <2>2, <3>2, <3>3, <4>1 DEF Kept
      <4>3. x \in Readable
        BY <1>1, <2>2, <4>2, InReadable
      <4>4. QED
        BY <2>2, <2>5, <4>2, <4>3 DEF Joins
    <3>4. CASE j # i
      <4>1. j \in DOMAIN file /\ file'[j] = file[j]
        BY <1>4, <3>4
      <4>2. x \in Readable
        BY <3>2, <4>1, InReadable
      <4>3. ~Joins(f, new, x)
        <5> SUFFICES ASSUME f.open, x = q[n] PROVE FALSE
          BY <2>2 DEF Joins
        <5>1. n \in Parsed(f)
          BY <2>2, <2>4, <3>2 DEF Parsed
        <5>2. i \in DOMAIN file /\ f = file[i]
          BY <1>1, <5>1
        <5>3. QED
          BY <2>2, <3>2, <3>4, <4>1, <5>1, <5>2 DEF Sane, InOrder
      <4>4. QED
        BY <4>2, <4>3
    <3>5. QED
      BY <3>3, <3>4
  <2>7. ASSUME NEW x \in Readable, ~Joins(f, new, x) PROVE x \in Readable'
    <3>1. PICK j \in DOMAIN file : \E k \in Parsed(file[j]) : x = file[j].lines[k]
      BY InReadable
    <3>2. PICK k \in Parsed(file[j]) : x = file[j].lines[k]
      BY <3>1
    <3>3. CASE j = i
      <4>1. f = file[i] /\ k \in Parsed(f)
        BY <1>5, <3>2, <3>3
      <4>2. ~(f.open /\ k = Len(f.lines))
        BY <1>8, <2>7, <3>2, <3>3, <4>1 DEF Joins
      <4>3. k \in Parsed(h) /\ h.lines[k] = x
        BY <2>1, <3>2, <3>3, <4>1, <4>2
      <4>4. QED
        BY <1>2, <1>6, <4>3, InReadableNext
    <3>4. CASE j # i
      <4>1. file'[j] = file[j] /\ j \in DOMAIN file'
        BY <1>5, <3>4 DEF Puts
      <4>2. QED
        BY <3>2, <4>1, InReadableNext
    <3>5. QED
      BY <3>3, <3>4
  <2>8. ASSUME NEW x, Brings(f, new, x) PROVE x \in Readable'
    BY <1>2, <1>6, <2>1, <2>8, InReadableNext DEF Brings
  <2>9. QED
    BY <2>6, <2>7, <2>8
<1>9. QED
  BY <1>7, <1>8

-----------------------------------------------------------------------------
(* The writes of the writer.                                               *)

\* The first k lines of a chunk, whole, or with a part of the next after them.
Piece(n, k, new, o) ==
    /\ Fresh(new) /\ o \in BOOLEAN /\ k \in 0..n /\ Len(new) \in {k, k + 1}
    /\ \A p \in 1..k : new[p] = global_seq + p - 1
    /\ Len(new) = k + 1 => k < n /\ new[k + 1] = Junk /\ o
    /\ o => new # <<>>

\* A chunk is a piece of itself.
LEMMA ChunkWhole ==
  ASSUME global_seq \in Nat, NEW n \in Nat
  PROVE  Piece(n, n, chunk(n), FALSE) /\ Len(chunk(n)) = n
<1>1. PICK c : c = chunk(n)
  OBVIOUS
<1>2. c \in Seq(Line) /\ Len(c) = n /\ DOMAIN c = 1..n /\ \A p \in 1..n : c[p] = global_seq + p - 1
  BY <1>1 DEF chunk, Line
<1>3. Fresh(c)
  BY <1>2 DEF Fresh
<1>4. QED
  BY <1>1, <1>2, <1>3 DEF Piece

\* What a write that stopped left is a piece of its chunk.
LEMMA TornPiece ==
  ASSUME global_seq \in Nat, NEW n \in Nat, NEW t \in Torn(n)
  PROVE  \E k \in 0..n : Piece(n, k, t.new, t.open)
<1>1. PICK c : c = chunk(n)
  OBVIOUS
<1>2. c \in Seq(Line) /\ Len(c) = n /\ \A p \in 1..n : c[p] = global_seq + p - 1
  BY <1>1 DEF chunk, Line
<1>3. \A k \in 0..n : /\ SubSeq(c, 1, k) \in Seq(Line) /\ Len(SubSeq(c, 1, k)) = k
                      /\ \A p \in 1..k : SubSeq(c, 1, k)[p] = global_seq + p - 1
  BY <1>2
<1>4. ASSUME NEW k \in 0..n, NEW o \in BOOLEAN, t = [new |-> SubSeq(c, 1, k), open |-> o], o => k >= 1
      PROVE  Piece(n, k, t.new, t.open)
  <2>1. PICK s : s = SubSeq(c, 1, k)
    OBVIOUS
  <2>2. s \in Seq(Line) /\ Len(s) = k /\ DOMAIN s = 1..k /\ \A p \in 1..k : s[p] = global_seq + p - 1
    BY <1>3, <2>1
  <2>3. t.new = s /\ t.open = o
    BY <1>4, <2>1
  <2>4. Fresh(s)
    BY <2>2 DEF Fresh
  <2>5. o => s # <<>>
    BY <1>4, <2>2
  <2>6. QED
    BY <2>2, <2>3, <2>4, <2>5 DEF Piece
<1>5. ASSUME NEW k \in 0..n - 1, t = [new |-> SubSeq(c, 1, k) \o <<Junk>>, open |-> TRUE]
      PROVE  Piece(n, k, t.new, t.open)
  <2>1. PICK s : s = SubSeq(c, 1, k)
    OBVIOUS
  <2>2. k \in 0..n /\ k < n
    OBVIOUS
  <2>3. s \in Seq(Line) /\ Len(s) = k /\ DOMAIN s = 1..k /\ \A p \in 1..k : s[p] = global_seq + p - 1
    BY <1>3, <2>1, <2>2
  <2>4. PICK u : u = s \o <<Junk>>
    OBVIOUS
  <2>5. /\ u \in Seq(Line) /\ Len(u) = k + 1 /\ DOMAIN u = 1..(k + 1) /\ u[k + 1] = Junk
        /\ \A p \in 1..k : u[p] = s[p]
    BY <2>2, <2>3, <2>4 DEF Line
  <2>6. t.new = u /\ t.open = TRUE
    BY <1>5, <2>1, <2>4
  <2>7. Fresh(u)
    BY <2>2, <2>3, <2>5 DEF Fresh
  <2>8. u # <<>>
    BY <2>2, <2>5
  <2>9. QED
    BY <2>2, <2>3, <2>5, <2>6, <2>7, <2>8 DEF Piece
<1>6. \/ \E k \in 0..n : t = [new |-> SubSeq(c, 1, k), open |-> FALSE]
      \/ \E k \in 0..n - 1 : t = [new |-> SubSeq(c, 1, k) \o <<Junk>>, open |-> TRUE]
      \/ \E k \in 1..n : t = [new |-> SubSeq(c, 1, k), open |-> TRUE]
  BY <1>1 DEF Torn
<1>7. QED
  <2>1. CASE \E k \in 0..n : t = [new |-> SubSeq(c, 1, k), open |-> FALSE]
    BY <1>4, <2>1
  <2>2. CASE \E k \in 0..n - 1 : t = [new |-> SubSeq(c, 1, k) \o <<Junk>>, open |-> TRUE]
    <3>1. \A k \in 0..n - 1 : k \in 0..n
      OBVIOUS
    <3>2. QED
      BY <1>5, <2>2, <3>1
  <2>3. CASE \E k \in 1..n : t = [new |-> SubSeq(c, 1, k), open |-> TRUE]
    <3>1. \A k \in 1..n : k \in 0..n /\ k >= 1
      OBVIOUS
    <3>2. QED
      BY <1>4, <2>3, <3>1
  <2>4. QED
    BY <1>6, <2>1, <2>2, <2>3

\* One of the files is written, or one more.
LEMMA PutFile ==
  ASSUME file \in Seq(FileRow), NEW i, NEW f \in FileRow, NEW new, NEW o, NEW h \in FileRow, h = Extend(f, new, o),
         \/ i \in DOMAIN file /\ f = file[i] /\ file' = [file EXCEPT ![i] = h]
         \/ i = Len(file) + 1 /\ f = EmptyFile /\ file' = Append(file, h)
  PROVE  Puts(i, f, new, o)
<1>1. CASE i \in DOMAIN file /\ f = file[i] /\ file' = [file EXCEPT ![i] = h]
  <2>1. i \in 1..Len(file) /\ Len(file) \in Nat
    BY <1>1
  <2>2. file' \in Seq(FileRow) /\ DOMAIN file' = DOMAIN file /\ file'[i] = h
    BY <1>1
  <2>3. \A j \in DOMAIN file : j # i => file'[j] = file[j]
    BY <1>1
  <2>4. i \in 1..(Len(file) + 1)
    BY <2>1
  <2>5. DOMAIN file = DOMAIN file \cup {i}
    BY <1>1, Zenon
  <2>6. QED
    BY <1>1, <2>2, <2>3, <2>4, <2>5 DEF Puts
<1>2. CASE i = Len(file) + 1 /\ f = EmptyFile /\ file' = Append(file, h)
  BY <1>2 DEF Puts
<1>3. QED
  BY <1>1, <1>2

\* flush_pending writes to the file it chose.
LEMMA WritePuts ==
  ASSUME file \in Seq(FileRow), Writing, current \in Opt(DOMAIN file), NEW n, NEW new, Fresh(new), NEW o \in BOOLEAN,
         file' = Written(n, new, o)
  PROVE  /\ \E f : Puts(Target(n), f, new, o)
         /\ Target(n) = IF needs_new_file(n) THEN Len(file) + 1 ELSE current
         /\ ~needs_new_file(n) => current \in DOMAIN file
<1>1. new \in Seq(Line)
  BY DEF Fresh
<1>2. CASE needs_new_file(n)
  <2>1. PICK h : h = Extend(EmptyFile, new, o)
    OBVIOUS
  <2>2. h \in FileRow /\ EmptyFile \in FileRow
    BY <1>1, <2>1, NewFile, Extended
  <2>3. file' = Append(file, h) /\ Target(n) = Len(file) + 1
    BY <1>2, <2>1 DEF Written, Target
  <2>4. QED
    BY <1>2, <2>1, <2>2, <2>3, PutFile
<1>3. CASE ~needs_new_file(n)
  <2>1. current \in DOMAIN file
    BY <1>3 DEF needs_new_file, Opt
  <2>2. PICK f \in FileRow : f = file[current] /\ (f.open => f.lines # <<>>)
    BY <2>1 DEF Writing
  <2>3. PICK h : h = Extend(f, new, o)
    OBVIOUS
  <2>4. h \in FileRow
    BY <1>1, <2>2, <2>3, Extended
  <2>5. file' = [file EXCEPT ![current] = h] /\ Target(n) = current
    BY <1>3, <2>2, <2>3 DEF Written, Target
  <2>6. QED
    BY <1>3, <2>1, <2>2, <2>3, <2>4, <2>5, PutFile
<1>4. QED
  BY <1>2, <1>3

-----------------------------------------------------------------------------
(* The parts of the invariant under a write.                               *)

\* The invariant gives a writer a directory in which it may append.
LEMMA InvSane ==
  ASSUME Inv
  PROVE  /\ file \in Seq(FileRow) /\ Writing /\ InOrder /\ current \in Opt(DOMAIN file) /\ global_seq \in Opt(Nat)
         /\ global_seq # None => global_seq \in Nat /\ Sane
<1>1. file \in Seq(FileRow)
  BY DEF Inv, TypeOK, FileRow, Line
<1>2. QED
  BY <1>1 DEF Inv, TypeOK, Sane, CounterAhead, Opt

\* The writer's file, if it has one, after the write.
Turns(i) ==
    /\ current' \in Opt(DOMAIN file') /\ (global_seq' = None => current' = None)
    /\ imports' = 0 => imports = 0 /\ i = Len(file') /\ (current' # None => current' = i)

\* The log stays in order, and the counter beyond it.
LEMMA LogKept ==
  ASSUME Inv, global_seq # None, NEW i, NEW f, NEW new, NEW o \in BOOLEAN, Puts(i, f, new, o), Fresh(new),
         Turns(i), NEW n \in Nat, Len(new) <= n, global_seq' \in {None, global_seq + n}
  PROVE  Writing' /\ InOrder' /\ InTurn' /\ CounterAhead'
<1>1. Sane /\ global_seq \in Nat
  BY InvSane
<1>2. /\ \A j \in DOMAIN file' : file'[j].open => file'[j].lines # <<>>
      /\ \A j \in DOMAIN file' : \A k \in Parsed(file'[j]) : Stays(j, k) \/ Arrives(i, new, j, k)
      /\ InOrder'
  BY <1>1, PutOrder
<1>3. Writing'
  BY <1>2 DEF Turns, Writing
<1>4. \A a, b : Stays(a, b) => file'[a].lines[b] \in Nat /\ file'[a].lines[b] < global_seq
  <2> SUFFICES ASSUME NEW a, NEW b, Stays(a, b) PROVE file'[a].lines[b] \in Nat /\ file'[a].lines[b] < global_seq
    OBVIOUS
  <2>1. file[a] \in FileRow /\ b \in Parsed(file[a]) /\ a \in DOMAIN file
    BY <1>1 DEF Stays, Sane
  <2>2. file[a].lines[b] \in Nat /\ file[a].lines[b] \in Readable
    BY <2>1, ParsedLines, InReadable
  <2>3. QED
    BY <1>1, <2>2 DEF Stays, Sane
<1>5. CounterAhead'
  <2> SUFFICES ASSUME global_seq' # None, NEW x \in Readable' PROVE x < global_seq'
    BY DEF CounterAhead
  <2>1. PICK j \in DOMAIN file' : \E k \in Parsed(file'[j]) : x = file'[j].lines[k]
    BY InReadableNext
  <2>2. PICK k \in Parsed(file'[j]) : x = file'[j].lines[k]
    BY <2>1
  <2>3. Len(new) \in Nat
    BY DEF Fresh
  <2>4. CASE Stays(j, k)
    BY <1>1, <1>4, <2>2, <2>4
  <2>5. CASE Arrives(i, new, j, k)
    BY <1>1, <2>2, <2>3, <2>5 DEF Arrives
  <2>6. QED
    BY <1>2, <2>2, <2>4, <2>5
<1>6. InTurn'
  <2> SUFFICES ASSUME imports' = 0
               PROVE  /\ current' # None => current' = Len(file')
                      /\ \A j, l \in DOMAIN file' : \A k \in Parsed(file'[j]), m \in Parsed(file'[l]) :
                           j < l => file'[j].lines[k] < file'[l].lines[m]
    BY DEF InTurn, Parsed
  <2>1. imports = 0 /\ i = Len(file') /\ (current' # None => current' = i)
    BY DEF Turns
  <2>2. file' \in Seq(FileRow)
    BY DEF Puts
  <2>3. \A j \in DOMAIN file' : j \in Nat /\ j <= i
    BY <2>1, <2>2
  <2> SUFFICES ASSUME NEW j \in DOMAIN file', NEW l \in DOMAIN file', NEW k \in Parsed(file'[j]),
                      NEW m \in Parsed(file'[l]), j < l
               PROVE  file'[j].lines[k] < file'[l].lines[m]
    BY <2>1
  <2>4. j # i
    BY <2>1, <2>2, <2>3
  <2>5. Stays(j, k)
    BY <1>2, <2>4 DEF Arrives
  <2>6. CASE Stays(l, m)
    BY <2>1, <2>5, <2>6 DEF Stays, Inv, InTurn
  <2>7. CASE Arrives(i, new, l, m)
    BY <1>1, <1>4, <2>5, <2>7 DEF Arrives
  <2>8. QED
    BY <1>2, <2>6, <2>7
<1>7. QED
  BY <1>2, <1>3, <1>5, <1>6

\* The cached bounds and the calls under way name files that stay.
LEMMA ReadersKept ==
  ASSUME Inv, DOMAIN file \subseteq DOMAIN file', manifest' = manifest,
         rd' = Touched \/ rd' = [r \in Readers |-> None] \/ rd' = rd
  PROVE  rd' \in [Readers -> Opt(Call)] /\ manifest' \in Opt(Bounds) /\ Cached'
<1>1. rd \in [Readers -> Opt(Call)] /\ manifest \in Opt(Bounds) /\ Cached
  BY DEF Inv, TypeOK
<1>2. ASSUME NEW b, Sound(b) PROVE /\ b.max # None => b.maxFile \in DOMAIN file'
                                   /\ b.min # None => b.minFile \in DOMAIN file'
  BY <1>2 DEF Sound
<1>3. \A r \in Readers : rd'[r] = None \/ (rd[r] # None /\ rd'[r] \in {rd[r], [rd[r] EXCEPT !.clean = FALSE]})
  BY <1>1 DEF Touched
<1>4. \A r \in Readers : rd'[r] = None \/ (/\ rd[r] \in Call /\ rd'[r] \in Call
        /\ rd'[r].m = rd[r].m /\ rd'[r].best = rd[r].best /\ rd'[r].todo = rd[r].todo /\ rd'[r].pc = rd[r].pc
        /\ rd'[r].i = rd[r].i /\ rd'[r].seq = rd[r].seq /\ Reading(rd[r]))
  <2> SUFFICES ASSUME NEW r \in Readers, rd'[r] # None
               PROVE  /\ rd[r] \in Call /\ rd'[r] \in Call
                      /\ rd'[r].m = rd[r].m /\ rd'[r].best = rd[r].best /\ rd'[r].todo = rd[r].todo
                      /\ rd'[r].pc = rd[r].pc /\ rd'[r].i = rd[r].i /\ rd'[r].seq = rd[r].seq /\ Reading(rd[r])
    OBVIOUS
  <2>1. rd[r] # None /\ rd[r] \in Call /\ Reading(rd[r])
    BY <1>1, <1>3 DEF Opt, Cached
  <2>2. PICK k \in Call : k = rd[r]
    BY <2>1
  <2>3. PICK l : l = rd'[r] /\ l \in {k, [k EXCEPT !.clean = FALSE]}
    BY <1>3, <2>2
  <2>4. l \in Call /\ l.m = k.m /\ l.best = k.best /\ l.todo = k.todo /\ l.pc = k.pc /\ l.i = k.i /\ l.seq = k.seq
    BY <2>3 DEF Call
  <2>5. QED
    BY <2>1, <2>2, <2>3, <2>4
<1>5. rd' \in [Readers -> Opt(Call)]
  <2>1. \A r \in Readers : rd'[r] \in Opt(Call)
    BY <1>4 DEF Opt
  <2>2. rd' = [r \in Readers |-> rd'[r]]
    BY <1>1 DEF Touched
  <2>3. QED
    BY <2>1, <2>2
<1>6. \A r \in Readers : rd'[r] # None => Reading(rd[r])'
  BY <1>2, <1>4 DEF Reading, Sound
<1>7. Cached'
  BY <1>1, <1>2, <1>6 DEF Cached, Sound
<1>8. QED
  BY <1>1, <1>5, <1>7

-----------------------------------------------------------------------------
(* Tails.                                                                  *)

TailOf(f) == IF f.open THEN f.lines[Len(f.lines)] ELSE None

\* What the writer's file ends with.
LEMMA OpenTailIs ==
  ASSUME current # None
  PROVE  OpenTail = TailOf(file[current])
  BY DEF OpenTail, TailOf

\* The same after the step.
LEMMA OpenTailNext ==
  /\ current' = None => OpenTail' = None
  /\ current' # None => OpenTail' = TailOf(file'[current'])
  BY DEF OpenTail, TailOf

\* A tail is a line.
LEMMA TailIsLine ==
  ASSUME NEW f \in FileRow, f.open => f.lines # <<>>
  PROVE  /\ f.open => TailOf(f) \in Line /\ TailOf(f) # None
         /\ ~f.open => TailOf(f) = None
<1>1. PICK q \in Seq(Line) : q = f.lines
  BY DEF FileRow
<1>2. q # <<>> => Len(q) \in DOMAIN q
  OBVIOUS
<1>3. QED
  BY <1>1, <1>2 DEF TailOf, Line

\* How a file ends after a write.
EndsLike(f, new, o, h) ==
    TailOf(h) = IF new = <<>> THEN TailOf(f)
                ELSE IF ~o THEN None
                ELSE IF f.open /\ Len(new) = 1 THEN Junk ELSE new[Len(new)]

\* How a file ends after a write.
LEMMA LastLine ==
  ASSUME NEW f \in FileRow, f.open => f.lines # <<>>, NEW new \in Seq(Line), NEW o \in BOOLEAN,
         NEW h, h = Extend(f, new, o)
  PROVE  EndsLike(f, new, o, h)
<1>1. CASE new = <<>>
  <2>1. h = f
    BY <1>1, Extended
  <2>2. QED
    BY <1>1, <2>1 DEF EndsLike
<1>2. CASE new # <<>>
  <2>1. PICK q \in Seq(Line), r \in Seq(Line) : q = f.lines /\ r = h.lines
    BY Extended DEF FileRow
  <2>2. h.open = o /\ IF f.open THEN Joined(q, new, r) ELSE After(q, new, r)
    BY <1>2, <2>1, Extended
  <2>3. PICK n \in Nat, m \in Nat, w \in Nat : n = Len(q) /\ m = Len(new) /\ w = Len(r) /\ DOMAIN r = 1..w
    OBVIOUS
  <2>4. m >= 1
    BY <1>2, <2>3
  <2>5. CASE f.open
    <3>1. w = n + m - 1 /\ \A k \in 1..w : r[k] = IF k < n THEN q[k] ELSE IF k = n THEN Junk ELSE new[k - n + 1]
      BY <2>2, <2>3, <2>5 DEF Joined
    <3>2. n >= 1
      BY <2>1, <2>3, <2>5
    <3>3. r[w] = IF m = 1 THEN Junk ELSE new[m]
      BY <2>4, <3>1, <3>2
    <3>4. QED
      BY <1>2, <2>1, <2>2, <2>3, <2>5, <3>3 DEF TailOf, EndsLike
  <2>6. CASE ~f.open
    <3>1. w = n + m /\ \A k \in 1..w : r[k] = IF k <= n THEN q[k] ELSE new[k - n]
      BY <2>2, <2>3, <2>6 DEF After
    <3>2. r[w] = new[m]
      BY <2>4, <3>1
    <3>3. QED
      BY <1>2, <2>1, <2>2, <2>3, <2>6, <3>2 DEF TailOf, EndsLike
  <2>7. QED
    BY <2>5, <2>6
<1>3. QED
  BY <1>1, <1>2

\* The file the writer turns to ends with the writer's tail or is new.
LEMMA TargetTail ==
  ASSUME Inv, global_seq # None, NEW n, NEW f, NEW new, NEW o, Puts(Target(n), f, new, o)
  PROVE  /\ f \in FileRow /\ (f.open => f.lines # <<>>)
         /\ needs_new_file(n) => ~f.open
         /\ ~needs_new_file(n) => TailOf(f) = OpenTail /\ current # None
         /\ f.open => OpenTail # None /\ OpenTail = f.lines[Len(f.lines)]
<1>1. Sane
  BY InvSane
<1>2. f \in FileRow /\ (f.open => f.lines # <<>>)
  BY <1>1, FileBefore
<1>3. CASE needs_new_file(n)
  <2>1. Target(n) = Len(file) + 1
    BY <1>3 DEF Target
  <2>2. Target(n) \notin DOMAIN file
    BY <1>1, <2>1 DEF Sane
  <2>3. ~f.open
    BY <2>2, NewFile DEF Puts
  <2>4. QED
    BY <1>2, <1>3, <2>3
<1>4. CASE ~needs_new_file(n)
  <2>1. current # None /\ Target(n) = current /\ current \in DOMAIN file
    BY <1>4, InvSane DEF needs_new_file, Target, Opt
  <2>2. f = file[current]
    BY <2>1 DEF Puts
  <2>3. TailOf(f) = OpenTail
    BY <2>1, <2>2, OpenTailIs
  <2>4. f.open => TailOf(f) # None
    BY <1>2, TailIsLine
  <2>5. QED
    BY <1>2, <1>4, <2>1, <2>3, <2>4 DEF TailOf
<1>5. QED
  BY <1>3, <1>4

-----------------------------------------------------------------------------
(* What the failed appends pay for.                                        *)

\* No line is lost.
LEMMA PaidSame ==
  ASSUME Paid, acked' \in SUBSET Nat, IsFiniteSet(acked'), fails \in Nat, fails' \in Nat,
         \A y \in acked' : y \notin Safe' => y \in acked /\ y \notin Safe,
         Due' + fails <= Due + fails'
  PROVE  Paid'
<1>1. IsFiniteSet(acked \ Safe)
  BY FS_Difference DEF Paid
<1>2. (acked' \ Safe') \in SUBSET (acked \ Safe)
  OBVIOUS
<1>3. Cardinality(acked' \ Safe') <= Cardinality(acked \ Safe) /\ IsFiniteSet(acked' \ Safe')
  BY <1>1, <1>2, FS_Subset
<1>4. Cardinality(acked' \ Safe') \in Nat /\ Cardinality(acked \ Safe) \in Nat
  BY <1>1, <1>3, FS_CardinalityType
<1>5. Due \in Nat /\ Due' \in Nat
  BY DEF Due
<1>6. Cardinality(acked \ Safe) + Due <= fails
  BY DEF Paid
<1>7. \A a, b, d, e, m, n \in Nat : (a <= b /\ b + d <= m /\ e + m <= d + n) => a + e <= n
  OBVIOUS
<1>8. Cardinality(acked' \ Safe') + Due' <= fails'
  BY <1>3, <1>4, <1>5, <1>6, <1>7
<1>9. QED
  BY <1>8 DEF Paid

\* One line is lost, and the tail that took it is gone.
LEMMA PaidOne ==
  ASSUME Paid, acked' \in SUBSET Nat, IsFiniteSet(acked'), fails \in Nat, fails' = fails, NEW x,
         \A y \in acked' : y \notin Safe' => y = x \/ (y \in acked /\ y \notin Safe),
         OpenTail # None, OpenTail' = None
  PROVE  Paid'
<1>1. IsFiniteSet(acked \ Safe)
  BY FS_Difference DEF Paid
<1>2. PICK S : S = (acked \ Safe) \cup {x}
  OBVIOUS
<1>3. IsFiniteSet(S) /\ Cardinality(S) <= Cardinality(acked \ Safe) + 1
  <2>1. /\ IsFiniteSet(S)
        /\ Cardinality(S) = IF x \in acked \ Safe THEN Cardinality(acked \ Safe) ELSE Cardinality(acked \ Safe) + 1
    BY <1>1, <1>2, FS_AddElement
  <2>2. Cardinality(acked \ Safe) \in Nat
    BY <1>1, FS_CardinalityType
  <2>3. QED
    BY <2>1, <2>2
<1>4. (acked' \ Safe') \in SUBSET S
  BY <1>2
<1>5. Cardinality(acked' \ Safe') <= Cardinality(S) /\ IsFiniteSet(acked' \ Safe')
  BY <1>3, <1>4, FS_Subset
<1>6. /\ Cardinality(acked' \ Safe') \in Nat /\ Cardinality(acked \ Safe) \in Nat
      /\ Cardinality(S) \in Nat
  BY <1>1, <1>3, <1>5, FS_CardinalityType
<1>7. Due = 1 /\ Due' = 0
  BY DEF Due
<1>8. Cardinality(acked \ Safe) + Due <= fails
  BY DEF Paid
<1>9. Cardinality(acked' \ Safe') + Due' <= fails'
  BY <1>3, <1>5, <1>6, <1>7, <1>8
<1>10. QED
  BY <1>9 DEF Paid

\* A write leaves the safe lines safe, if the writer stays with its file or turns to none.
LEMMA SafeKept ==
  ASSUME Inv, global_seq # None, NEW n, NEW f, NEW new, Fresh(new), NEW o \in BOOLEAN,
         Puts(Target(n), f, new, o), current' \in {Target(n), None}
  PROVE  \A y \in Safe : y \in Safe'
<1>1. Sane /\ global_seq \in Nat
  BY InvSane
<1>2. /\ f \in FileRow /\ (f.open => f.lines # <<>>)
      /\ needs_new_file(n) => ~f.open
      /\ ~needs_new_file(n) => TailOf(f) = OpenTail /\ current # None
      /\ f.open => OpenTail # None /\ OpenTail = f.lines[Len(f.lines)]
  BY TargetTail
<1> SUFFICES ASSUME NEW y \in Safe PROVE y \in Safe'
  OBVIOUS
<1>3. y \in Readable /\ y # OpenTail
  BY DEF Safe
<1>4. ~Joins(f, new, y)
  BY <1>2, <1>3 DEF Joins
<1>5. y \in Readable'
  BY <1>1, <1>3, <1>4, PutReadable
<1>6. y \in Nat /\ y < global_seq
  <2>1. PICK j \in DOMAIN file : \E k \in Parsed(file[j]) : y = file[j].lines[k]
    BY <1>3, InReadable
  <2>2. file[j] \in FileRow
    BY <1>1 DEF Sane
  <2>3. y \in Nat
    BY <2>1, <2>2, ParsedLines
  <2>4. QED
    BY <1>1, <1>3, <2>3 DEF Sane
<1>7. y # None
  BY <1>6
<1>8. OpenTail' # y
  <2>1. CASE current' = None
    BY <1>7, <2>1, OpenTailNext
  <2>2. CASE current' = Target(n)
    <3>1. PICK h : h = file'[Target(n)] /\ h = Extend(f, new, o)
      BY DEF Puts
    <3>2. OpenTail' = None \/ OpenTail' = TailOf(h)
      BY <2>2, <3>1, OpenTailNext
    <3>3. new \in Seq(Line)
      BY DEF Fresh
    <3>4. EndsLike(f, new, o, h)
      BY <1>2, <3>1, <3>3, LastLine
    <3>5. TailOf(f) # y
      BY <1>2, <1>3, <1>7 DEF TailOf
    <3>6. new # <<>> => new[Len(new)] # y
      <4>1. new # <<>> => Len(new) \in DOMAIN new /\ Len(new) >= 1 /\ Len(new) \in Nat
        BY <3>3
      <4>2. new # <<>> => new[Len(new)] = Junk \/ new[Len(new)] = global_seq + Len(new) - 1
        BY <4>1 DEF Fresh
      <4>3. QED
        BY <1>1, <1>6, <4>1, <4>2
    <3>7. QED
      BY <1>6, <1>7, <3>2, <3>4, <3>5, <3>6 DEF EndsLike
  <2>3. QED
    BY <2>1, <2>2
<1>9. QED
  BY <1>5, <1>8 DEF Safe

-----------------------------------------------------------------------------
(* The writer's operations.                                                *)

\* Where a write goes.
LEMMA TargetTurn ==
  ASSUME Inv, NEW n, NEW f, NEW new, NEW o, Puts(Target(n), f, new, o)
  PROVE  /\ Target(n) \in DOMAIN file' /\ DOMAIN file \subseteq DOMAIN file' /\ file' \in Seq(FileRow)
         /\ imports = 0 => Target(n) = Len(file')
         /\ Target(n) # None
<1>1. file \in Seq(FileRow) /\ current \in Opt(DOMAIN file)
  BY InvSane
<1>2. file' \in Seq(FileRow) /\ DOMAIN file' = DOMAIN file \cup {Target(n)} /\ Target(n) \in 1..(Len(file) + 1)
  BY DEF Puts
<1>3. PICK a \in Nat, b \in Nat : a = Len(file) /\ b = Len(file') /\ DOMAIN file = 1..a /\ DOMAIN file' = 1..b
  BY <1>1, <1>2
<1>4. imports = 0 => Target(n) = Len(file')
  <2>1. CASE needs_new_file(n)
    <3>1. Target(n) = a + 1
      BY <1>3, <2>1 DEF Target
    <3>2. 1..b = (1..a) \cup {a + 1}
      BY <1>2, <1>3, <3>1
    <3>3. b = a + 1
      <4>1. a + 1 \in 1..b
        BY <3>2
      <4>2. \A x \in 1..b : x <= a + 1
        BY <3>2
      <4>3. b \in 1..b
        BY <4>1
      <4>4. b <= a + 1 /\ a + 1 <= b
        BY <4>1, <4>2, <4>3
      <4>5. QED
        BY <4>4
    <3>4. QED
      BY <1>3, <3>1, <3>3
  <2>2. CASE ~needs_new_file(n)
    <3>1. current # None /\ Target(n) = current /\ current \in 1..a
      BY <1>1, <1>3, <2>2 DEF needs_new_file, Target, Opt
    <3>2. 1..b = 1..a
      BY <1>2, <1>3, <3>1
    <3>3. b = a
      <4>1. a >= 1 => a \in 1..b
        BY <3>2
      <4>2. b >= 1 => b \in 1..a
        BY <3>2
      <4>3. QED
        BY <3>1, <4>1, <4>2
    <3>4. QED
      BY <1>3, <3>1, <3>3 DEF Inv, InTurn
  <2>3. QED
    BY <2>1, <2>2
<1>5. Target(n) # None
  <2>1. Target(n) \in Nat
    BY <1>2, <1>3
  <2>2. QED
    BY <2>1
<1>6. QED
  BY <1>2, <1>4, <1>5

\* Without faults: how long the written file is.
LEMMA SizedKept ==
  ASSUME Inv, fails = 0, crashes = 0, global_seq # None, NEW n \in ChunkSizes, NEW f, NEW new, Fresh(new), Len(new) = n,
         Puts(Target(n), f, new, FALSE), events' = (IF needs_new_file(n) THEN 0 ELSE events) + n, current' = Target(n)
  PROVE  Sized'
<1>1. Sane
  BY InvSane
<1>2. f \in FileRow /\ (f.open => f.lines # <<>>) /\ (f.open => OpenTail # None)
  BY TargetTail
<1>3. Sized /\ (\A i \in DOMAIN file : ~file[i].open)
  BY DEF Inv, Sized
<1>4. ~f.open
  BY <1>3, NewFile DEF Puts
<1>5. n \in Nat /\ n >= 1
  OBVIOUS
<1>6. new \in Seq(Line) /\ new # <<>>
  BY <1>5 DEF Fresh
<1>a. PICK o \in BOOLEAN : o = FALSE
  OBVIOUS
<1>7. PICK h : h = file'[Target(n)] /\ h = Extend(f, new, o)
  BY <1>a DEF Puts
<1>b. h \in FileRow /\ h.open = o /\ IF f.open THEN Joined(f.lines, new, h.lines) ELSE After(f.lines, new, h.lines)
  BY <1>2, <1>6, <1>7, Extended
<1>8. h \in FileRow /\ ~h.open /\ After(f.lines, new, h.lines)
  BY <1>4, <1>a, <1>b
<1>9. Len(h.lines) = Len(f.lines) + n /\ Len(f.lines) \in Nat
  BY <1>2, <1>8 DEF After, FileRow
<1>10. Len(f.lines) = IF needs_new_file(n) THEN 0 ELSE events
  <2>1. CASE needs_new_file(n)
    <3>1. Target(n) = Len(file) + 1
      BY <2>1 DEF Target
    <3>2. f = EmptyFile
      BY <1>1, <3>1 DEF Puts, Sane
    <3>3. f.lines = <<>>
      BY <3>2, NewFile
    <3>4. QED
      BY <2>1, <3>3
  <2>2. CASE ~needs_new_file(n)
    <3>1. current # None /\ Target(n) = current /\ current \in DOMAIN file
      BY <2>2, InvSane DEF needs_new_file, Target, Opt
    <3>2. f = file[current]
      BY <3>1 DEF Puts
    <3>3. QED
      BY <1>3, <2>2, <3>1, <3>2 DEF Sized
  <2>3. QED
    BY <2>1, <2>2
<1>11. events' = Len(h.lines)
  BY <1>9, <1>10
<1>12. Len(h.lines) <= MaxEvents \/ Len(h.lines) \in ChunkSizes
  <2>1. CASE needs_new_file(n)
    BY <1>5, <1>9, <1>10, <2>1
  <2>2. CASE ~needs_new_file(n)
    <3>1. events \in Nat /\ ~(events > 0 /\ events + n > MaxEvents)
      BY <2>2 DEF needs_new_file, Inv, TypeOK
    <3>2. Len(h.lines) = events + n
      BY <1>9, <1>10, <2>2
    <3>3. CASE events = 0
      BY <1>5, <3>2, <3>3
    <3>4. CASE events > 0
      BY <1>5, <3>1, <3>2, <3>4
    <3>5. QED
      BY <3>1, <3>3, <3>4
  <2>3. QED
    BY <2>1, <2>2
<1>13. \A j \in DOMAIN file' : j = Target(n) \/ (j \in DOMAIN file /\ file'[j] = file[j])
  BY DEF Puts
<1>14. \A j \in DOMAIN file' : ~file'[j].open
  BY <1>3, <1>7, <1>8, <1>13
<1>15. \A j \in DOMAIN file' : Len(file'[j].lines) <= MaxEvents \/ Len(file'[j].lines) \in ChunkSizes
  BY <1>3, <1>7, <1>12, <1>13 DEF Sized
<1>16. QED
  BY <1>7, <1>11, <1>14, <1>15 DEF Sized

\* The seqs of a chunk.
LEMMA ChunkSeqs ==
  ASSUME global_seq \in Nat, NEW n \in Nat
  PROVE  /\ IsFiniteSet({chunk(n)[k] : k \in 1..n}) /\ {chunk(n)[k] : k \in 1..n} \in SUBSET Nat
         /\ \A y \in {chunk(n)[k] : k \in 1..n} : \E p \in 1..n : y = chunk(n)[p] /\ y = global_seq + p - 1
<1>1. \A k \in 1..n : chunk(n)[k] = global_seq + k - 1 /\ global_seq + k - 1 \in global_seq..(global_seq + n)
  BY DEF chunk
<1>2. {chunk(n)[k] : k \in 1..n} \in SUBSET (global_seq..(global_seq + n))
  BY <1>1
<1>3. IsFiniteSet(global_seq..(global_seq + n))
  BY FS_Interval
<1>4. IsFiniteSet({chunk(n)[k] : k \in 1..n})
  BY <1>2, <1>3, FS_Subset
<1>5. {chunk(n)[k] : k \in 1..n} \in SUBSET Nat
  BY <1>2
<1>6. \A y \in {chunk(n)[k] : k \in 1..n} : \E p \in 1..n : y = chunk(n)[p] /\ y = global_seq + p - 1
  BY <1>1
<1>7. QED
  BY <1>4, <1>5, <1>6

\* with_chunk acknowledges lines that can be read, and joins a tail at most
\* once.
LEMMA WithChunkPaid ==
  ASSUME Inv, NEW n \in ChunkSizes, with_chunk(n), NEW f, Puts(Target(n), f, chunk(n), FALSE)
  PROVE  Paid' /\ acked' \in SUBSET Nat
<1>1. global_seq # None /\ acked' = acked \cup {chunk(n)[k] : k \in 1..n} /\ fails' = fails /\ current' = Target(n)
  BY DEF with_chunk, Fits, budgetVars
<1>2. Sane /\ global_seq \in Nat
  BY <1>1, InvSane
<1>3. n \in Nat /\ n >= 1
  OBVIOUS
<1>4. PICK new : new = chunk(n)
  OBVIOUS
<1>5. Fresh(new) /\ Len(new) = n /\ new \in Seq(Line) /\ new # <<>> /\ DOMAIN new = 1..n
  BY <1>2, <1>3, <1>4, ChunkWhole DEF Piece, Fresh
<1>6. /\ f \in FileRow /\ (f.open => f.lines # <<>>) /\ (f.open => OpenTail # None)
  BY <1>1, TargetTail
<1>7. OpenTail' = None
  <2>a. PICK o \in BOOLEAN : o = FALSE
    OBVIOUS
  <2>1. PICK h : h = file'[Target(n)] /\ h = Extend(f, new, o)
    BY <1>4, <2>a DEF Puts
  <2>b. EndsLike(f, new, o, h)
    BY <1>5, <1>6, <2>1, LastLine
  <2>2. TailOf(h) = None
    BY <1>5, <2>a, <2>b DEF EndsLike
  <2>3. QED
    BY <1>1, <2>1, <2>2, OpenTailNext
<1>8. /\ IsFiniteSet({chunk(n)[k] : k \in 1..n}) /\ {chunk(n)[k] : k \in 1..n} \in SUBSET Nat
      /\ \A y \in {chunk(n)[k] : k \in 1..n} : \E p \in 1..n : y = chunk(n)[p] /\ y = global_seq + p - 1
  BY <1>2, <1>3, ChunkSeqs
<1>9. acked \in SUBSET Nat /\ IsFiniteSet(acked) /\ fails \in Nat /\ Paid
  BY DEF Inv, TypeOK, Paid
<1>10. acked' \in SUBSET Nat /\ IsFiniteSet(acked')
  BY <1>1, <1>8, <1>9, FS_Union
<1>11. \A y \in Safe : y \in Safe'
  BY <1>1, <1>4, <1>5, SafeKept
<1>12. ASSUME NEW y \in acked', y \notin Safe', y \notin acked PROVE f.open /\ y = global_seq
  <2>1. PICK p \in 1..n : y = new[p] /\ y = global_seq + p - 1
    BY <1>1, <1>4, <1>8, <1>12
  <2>2. y \in Nat /\ y # Junk /\ y # None
    BY <1>2, <2>1
  <2>3. ASSUME ~(f.open /\ p = 1) PROVE FALSE
    <3>1. Brings(f, new, y)
      BY <1>5, <2>1, <2>2, <2>3 DEF Brings
    <3>2. y \in Readable'
      BY <1>2, <1>4, <1>5, <3>1, PutReadable
    <3>3. QED
      BY <1>7, <1>12, <2>2, <3>2 DEF Safe
  <2>4. QED
    BY <1>2, <2>1, <2>3
<1>13. CASE f.open
  <2>1. \A y \in acked' : y \notin Safe' => y = global_seq \/ (y \in acked /\ y \notin Safe)
    BY <1>11, <1>12
  <2>2. QED
    BY <1>1, <1>6, <1>7, <1>9, <1>10, <1>13, <2>1, PaidOne
<1>14. CASE ~f.open
  <2>1. \A y \in acked' : y \notin Safe' => y \in acked /\ y \notin Safe
    BY <1>11, <1>12, <1>14
  <2>2. Due' = 0 /\ Due \in {0, 1}
    BY <1>7 DEF Due
  <2>3. Due' + fails <= Due + fails'
    BY <1>1, <1>9, <2>2
  <2>4. QED
    BY <1>1, <1>9, <1>10, <2>1, <2>3, PaidSame
<1>15. QED
  BY <1>13, <1>14

\* A chunk is appended, to the current file or to a new one.
LEMMA WithChunkInv ==
  ASSUME Inv, NEW n \in ChunkSizes, with_chunk(n)
  PROVE  Inv'
<1>1. /\ global_seq # None /\ file' = Written(n, chunk(n), FALSE) /\ current' = Target(n)
      /\ events' = (IF needs_new_file(n) THEN 0 ELSE events) + n
      /\ bytes' = (IF needs_new_file(n) THEN 0 ELSE bytes) + 2 * n
      /\ global_seq' = global_seq + n /\ raced' = (raced \/ Overtakes(Target(n))) /\ rd' = Touched
      /\ UNCHANGED <<manifest, fails, crashes, imports>>
  BY DEF with_chunk, Fits, budgetVars
<1>2. /\ Sane /\ global_seq \in Nat /\ n \in Nat /\ file \in Seq(FileRow) /\ Writing
      /\ current \in Opt(DOMAIN file)
  BY <1>1, InvSane
<1>3. PICK new : new = chunk(n)
  OBVIOUS
<1>4. Fresh(new) /\ Len(new) = n
  BY <1>2, <1>3, ChunkWhole DEF Piece
<1>5. PICK f : Puts(Target(n), f, new, FALSE)
  BY <1>1, <1>2, <1>3, <1>4, WritePuts
<1>6. /\ Target(n) \in DOMAIN file' /\ DOMAIN file \subseteq DOMAIN file' /\ file' \in Seq(FileRow)
      /\ imports = 0 => Target(n) = Len(file')
  BY <1>5, TargetTurn
<1>a. global_seq' \in Nat
  BY <1>1, <1>2
<1>7. Turns(Target(n))
  BY <1>1, <1>2, <1>6, <1>a DEF Turns, Opt
<1>8. Writing' /\ InOrder' /\ InTurn' /\ CounterAhead'
  <2>a. PICK i : i = Target(n)
    OBVIOUS
  <2>1. PICK o \in BOOLEAN : o = FALSE /\ i = Target(n)
    BY <2>a
  <2>2. Puts(i, f, new, o) /\ Turns(i)
    BY <1>5, <1>7, <2>1, Zenon
  <2>4. Len(new) <= n /\ global_seq' \in {None, global_seq + n}
    BY <1>1, <1>2, <1>4
  <2>3. QED
    BY <1>1, <1>2, <1>4, <2>2, <2>4, LogKept
<1>9. rd' \in [Readers -> Opt(Call)] /\ manifest' \in Opt(Bounds) /\ Cached'
  BY <1>1, <1>6, ReadersKept
<1>10. Paid' /\ acked' \in SUBSET Nat
  BY <1>3, <1>5, WithChunkPaid
<1>11. Sized'
  <2>1. CASE fails = 0 /\ crashes = 0
    BY <1>1, <1>4, <1>5, <2>1, SizedKept
  <2>2. CASE ~(fails = 0 /\ crashes = 0)
    BY <1>1, <2>2 DEF Sized
  <2>3. QED
    BY <2>1, <2>2
<1>12. TypeOK'
  <2>1. events' \in Nat /\ bytes' \in Nat /\ raced' \in BOOLEAN /\ global_seq' \in Opt(Nat)
    BY <1>1, <1>2 DEF Inv, TypeOK, Opt, Overtakes
  <2>2. current' \in Opt(DOMAIN file')
    BY <1>7 DEF Turns
  <2>3. fails' \in Nat /\ crashes' \in Nat /\ imports' \in Nat
    BY <1>1 DEF Inv, TypeOK
  <2>4. file' \in Seq([lines : Seq(Nat \cup {Junk}), open : BOOLEAN, size : Nat])
    BY <1>6 DEF FileRow, Line
  <2>5. QED
    BY <1>9, <1>10, <2>1, <2>2, <2>3, <2>4 DEF TypeOK
<1>13. QED
  BY <1>8, <1>9, <1>10, <1>11, <1>12 DEF Inv

\* The directory is left alone; the writer keeps its file, or has none.
LEMMA NoWrite ==
  ASSUME Inv, file' = file, current' \in {current, None}, imports' = imports, acked' = acked,
         fails' \in Nat, fails' >= fails,
         \/ global_seq' = None /\ current' = None
         \/ global_seq' \in Nat /\ \A x \in Readable : x < global_seq'
  PROVE  Writing' /\ InOrder' /\ InTurn' /\ CounterAhead' /\ Paid' /\ current' \in Opt(DOMAIN file')
<1>1. Readable' = Readable
  BY DEF Readable, Parsed
<1>2. Writing' /\ InOrder' /\ InTurn'
  BY DEF Inv, Writing, InOrder, InTurn, Rising, Parsed
<1>3. CounterAhead'
  BY <1>1 DEF CounterAhead
<1>4. OpenTail' = OpenTail \/ OpenTail' = None
  BY DEF OpenTail
<1>5. \A y \in Readable : y # None
  <2> SUFFICES ASSUME NEW y \in Readable PROVE y # None
    OBVIOUS
  <2>1. PICK j \in DOMAIN file : \E k \in Parsed(file[j]) : y = file[j].lines[k]
    BY InReadable
  <2>2. file[j] \in FileRow
    BY InvSane
  <2>3. QED
    BY <2>1, <2>2, ParsedLines
<1>6. \A y \in Safe : y \in Safe'
  BY <1>1, <1>4, <1>5 DEF Safe
<1>7. Paid'
  <2>1. acked' \in SUBSET Nat /\ IsFiniteSet(acked') /\ fails \in Nat /\ Paid
    BY DEF Inv, TypeOK, Paid
  <2>2. \A y \in acked' : y \notin Safe' => y \in acked /\ y \notin Safe
    BY <1>6
  <2>3. Due \in {0, 1} /\ Due' \in {0, 1} /\ (Due' = 0 \/ Due = 1)
    BY <1>4 DEF Due
  <2>a. \A d, e \in {0, 1} : \A m, n \in Nat : (n >= m /\ (e = 0 \/ d = 1)) => e + m <= d + n
    OBVIOUS
  <2>4. Due' + fails <= Due + fails'
    BY <2>1, <2>3, <2>a
  <2>5. QED
    BY <2>1, <2>2, <2>4, PaidSame
<1>8. QED
  BY <1>2, <1>3, <1>7 DEF Inv, TypeOK, Opt

\* A write that stops: nothing was acknowledged, and the writer stays with the file or has none.
LEMMA StoppedWrite ==
  ASSUME Inv, global_seq # None, NEW n \in ChunkSizes, NEW t \in Torn(n), file' = Written(n, t.new, t.open),
         current' \in {Target(n), None}, imports' = imports, acked' = acked,
         \/ global_seq' = global_seq + n /\ fails' = fails + 1
         \/ global_seq' = None /\ current' = None /\ fails' = fails
  PROVE  /\ Writing' /\ InOrder' /\ InTurn' /\ CounterAhead' /\ Paid'
         /\ current' \in Opt(DOMAIN file') /\ file' \in Seq(FileRow) /\ DOMAIN file \subseteq DOMAIN file'
<1>1. /\ Sane /\ global_seq \in Nat /\ n \in Nat /\ file \in Seq(FileRow) /\ Writing
      /\ current \in Opt(DOMAIN file)
  BY InvSane
<1>2. PICK k \in 0..n : Piece(n, k, t.new, t.open)
  BY <1>1, TornPiece
<1>a. PICK new : new = t.new
  OBVIOUS
<1>3. PICK o \in BOOLEAN : new = t.new /\ o = t.open
  BY <1>2, <1>a DEF Piece
<1>4. Fresh(new) /\ Len(new) <= n
  BY <1>1, <1>2, <1>3 DEF Piece
<1>5. file' = Written(n, new, o)
  BY <1>3
<1>6. PICK f : Puts(Target(n), f, new, o)
  BY <1>1, <1>4, <1>5, WritePuts
<1>7. /\ Target(n) \in DOMAIN file' /\ DOMAIN file \subseteq DOMAIN file' /\ file' \in Seq(FileRow)
      /\ imports = 0 => Target(n) = Len(file')
      /\ Target(n) # None
  BY <1>6, TargetTurn
<1>8. PICK i : i = Target(n)
  OBVIOUS
<1>9. global_seq + n \in Nat
  BY <1>1
<1>10. Turns(i)
  BY <1>7, <1>8, <1>9 DEF Turns, Opt
<1>11. Puts(i, f, new, o)
  BY <1>6, <1>8, Zenon
<1>12. Writing' /\ InOrder' /\ InTurn' /\ CounterAhead'
  BY <1>1, <1>4, <1>10, <1>11, LogKept
<1>13. \A y \in Safe : y \in Safe'
  BY <1>4, <1>6, SafeKept
<1>14. Paid'
  <2>1. acked' \in SUBSET Nat /\ IsFiniteSet(acked') /\ fails \in Nat /\ fails' \in Nat /\ Paid
    BY DEF Inv, TypeOK, Paid
  <2>2. \A y \in acked' : y \notin Safe' => y \in acked /\ y \notin Safe
    BY <1>13
  <2>3. Due \in {0, 1} /\ Due' \in {0, 1} /\ (current' = None => Due' = 0)
    BY OpenTailNext DEF Due
  <2>a. \A d, e \in {0, 1} : \A m, k1 \in Nat : ((k1 = m /\ e = 0) \/ k1 = m + 1) => e + m <= d + k1
    OBVIOUS
  <2>b. (fails' = fails /\ Due' = 0) \/ fails' = fails + 1
    BY <2>3
  <2>4. Due' + fails <= Due + fails'
    BY <2>1, <2>3, <2>a, <2>b
  <2>5. QED
    BY <2>1, <2>2, <2>4, PaidSame
<1>15. QED
  BY <1>7, <1>10, <1>12, <1>14 DEF Turns

\* The parts of the type invariant together.
LEMMA Types ==
  ASSUME file' \in Seq(FileRow), global_seq' \in Opt(Nat), current' \in Opt(DOMAIN file'), events' \in Nat, bytes' \in Nat,
         manifest' \in Opt(Bounds), rd' \in [Readers -> Opt(Call)], acked' \subseteq Nat, raced' \in BOOLEAN,
         fails' \in Nat, crashes' \in Nat, imports' \in Nat
  PROVE  TypeOK'
  BY DEF TypeOK, FileRow, Line

\* An append fails half way, and leaves at most one open line.
LEMMA WithChunkErrInv ==
  ASSUME Inv, NEW n \in ChunkSizes, with_chunk_err(n)
  PROVE  Inv'
<1>1. /\ global_seq # None /\ FlushFails(n) /\ global_seq' = global_seq + n /\ fails' = fails + 1 /\ rd' = Touched
      /\ UNCHANGED <<manifest, acked, crashes, imports>>
  BY DEF with_chunk_err, Fits
<1>2. /\ Sane /\ global_seq \in Nat /\ n \in Nat /\ file \in Seq(FileRow) /\ current \in Opt(DOMAIN file)
  BY <1>1, InvSane
<1>3. fails \in Nat /\ crashes \in Nat /\ imports \in Nat /\ acked \subseteq Nat /\ events \in Nat /\ bytes \in Nat
      /\ raced \in BOOLEAN
  BY DEF Inv, TypeOK
<1>4. /\ Writing' /\ InOrder' /\ InTurn' /\ CounterAhead' /\ Paid'
      /\ current' \in Opt(DOMAIN file') /\ file' \in Seq(FileRow) /\ DOMAIN file \subseteq DOMAIN file'
  <2>1. CASE file' = file /\ current' \in {current, None}
    <3>1. global_seq' \in Nat /\ \A x \in Readable : x < global_seq'
      <4>1. \A x \in Readable : x \in Nat /\ x < global_seq
        <5> SUFFICES ASSUME NEW x \in Readable PROVE x \in Nat /\ x < global_seq
          OBVIOUS
        <5>1. PICK j \in DOMAIN file : \E k \in Parsed(file[j]) : x = file[j].lines[k]
          BY InReadable
        <5>2. file[j] \in FileRow
          BY <1>2
        <5>3. QED
          BY <1>2, <5>1, <5>2, ParsedLines DEF Sane
      <4>2. QED
        BY <1>1, <1>2, <4>1
    <3>2. fails' \in Nat /\ fails' >= fails
      BY <1>1, <1>3
    <3>3. Writing' /\ InOrder' /\ InTurn' /\ CounterAhead' /\ Paid' /\ current' \in Opt(DOMAIN file')
      BY <1>1, <2>1, <3>1, <3>2, NoWrite
    <3>4. QED
      BY <1>2, <2>1, <3>3
  <2>2. ASSUME NEW t \in Torn(n), file' = Written(n, t.new, t.open), current' = Target(n)
        PROVE  /\ Writing' /\ InOrder' /\ InTurn' /\ CounterAhead' /\ Paid'
               /\ current' \in Opt(DOMAIN file') /\ file' \in Seq(FileRow) /\ DOMAIN file \subseteq DOMAIN file'
    BY <1>1, <2>2, StoppedWrite
  <2>3. QED
    BY <1>1, <2>1, <2>2 DEF FlushFails
<1>5. rd' \in [Readers -> Opt(Call)] /\ manifest' \in Opt(Bounds) /\ Cached'
  BY <1>1, <1>4, ReadersKept
<1>6. Sized'
  BY <1>1, <1>3 DEF Sized
<1>7. events' \in Nat /\ bytes' \in Nat /\ raced' \in BOOLEAN
  <2>1. events' \in {events, 0} /\ bytes' \in {bytes, 0}
    BY <1>1 DEF FlushFails
  <2>2. raced' = raced \/ raced' = (raced \/ Overtakes(Target(n)))
    BY <1>1 DEF FlushFails
  <2>3. raced' \in BOOLEAN
    BY <1>3, <2>2 DEF Overtakes
  <2>4. QED
    BY <1>3, <2>1, <2>3
<1>8. global_seq' \in Opt(Nat) /\ fails' \in Nat /\ crashes' \in Nat /\ imports' \in Nat /\ acked' \subseteq Nat
  BY <1>1, <1>2, <1>3 DEF Opt
<1>9. TypeOK'
  BY <1>4, <1>5, <1>7, <1>8, Types
<1>10. QED
  BY <1>4, <1>5, <1>6, <1>9 DEF Inv

\* A crash forgets the writer; of an append under way it may keep some lines.
LEMMA CrashInv ==
  ASSUME Inv, NEW n \in ChunkSizes, Crash(n)
  PROVE  Inv'
<1>1. /\ global_seq # None /\ global_seq' = None /\ current' = None /\ events' = 0 /\ bytes' = 0
      /\ rd' = [r \in Readers |-> None] /\ crashes' = crashes + 1
      /\ UNCHANGED <<manifest, acked, fails, imports, raced>>
  BY DEF Crash
<1>2. file \in Seq(FileRow)
  BY InvSane
<1>3. fails \in Nat /\ crashes \in Nat /\ imports \in Nat /\ acked \subseteq Nat /\ raced \in BOOLEAN
  BY DEF Inv, TypeOK
<1>4. /\ Writing' /\ InOrder' /\ InTurn' /\ CounterAhead' /\ Paid'
      /\ current' \in Opt(DOMAIN file') /\ file' \in Seq(FileRow) /\ DOMAIN file \subseteq DOMAIN file'
  <2>1. CASE file' = file
    <3>1. fails' \in Nat /\ fails' >= fails
      BY <1>1, <1>3
    <3>2. Writing' /\ InOrder' /\ InTurn' /\ CounterAhead' /\ Paid' /\ current' \in Opt(DOMAIN file')
      BY <1>1, <2>1, <3>1, NoWrite
    <3>3. QED
      BY <1>2, <2>1, <3>2
  <2>2. ASSUME NEW t \in Torn(n), file' = Written(n, t.new, t.open)
        PROVE  /\ Writing' /\ InOrder' /\ InTurn' /\ CounterAhead' /\ Paid'
               /\ current' \in Opt(DOMAIN file') /\ file' \in Seq(FileRow) /\ DOMAIN file \subseteq DOMAIN file'
    BY <1>1, <2>2, StoppedWrite
  <2>3. QED
    BY <2>1, <2>2 DEF Crash
<1>5. rd' \in [Readers -> Opt(Call)] /\ manifest' \in Opt(Bounds) /\ Cached'
  BY <1>1, <1>4, ReadersKept
<1>6. Sized'
  BY <1>1, <1>3 DEF Sized
<1>7. TypeOK'
  BY <1>1, <1>3, <1>4, <1>5, Types DEF Opt
<1>8. QED
  BY <1>4, <1>5, <1>6, <1>7 DEF Inv

\* A rotation closes the current file and starts a higher-numbered one.
LEMMA RotateInv ==
  ASSUME Inv, rotate
  PROVE  Inv'
<1>1. /\ global_seq # None /\ current' = None /\ events' = 0 /\ bytes' = 0
      /\ UNCHANGED <<file, global_seq, manifest, rd, acked, fails, crashes, imports, raced>>
  BY DEF rotate, budgetVars
<1>2. file \in Seq(FileRow) /\ Sane /\ global_seq \in Nat
  BY <1>1, InvSane
<1>3. fails \in Nat /\ crashes \in Nat /\ imports \in Nat /\ acked \subseteq Nat /\ raced \in BOOLEAN
  BY DEF Inv, TypeOK
<1>4. Writing' /\ InOrder' /\ InTurn' /\ CounterAhead' /\ Paid' /\ current' \in Opt(DOMAIN file')
  <2>1. fails' \in Nat /\ fails' >= fails /\ global_seq' \in Nat /\ \A x \in Readable : x < global_seq'
    BY <1>1, <1>2, <1>3 DEF Sane
  <2>2. QED
    BY <1>1, <2>1, NoWrite
<1>5. rd' \in [Readers -> Opt(Call)] /\ manifest' \in Opt(Bounds) /\ Cached'
  BY <1>1, ReadersKept
<1>6. Sized'
  BY <1>1 DEF Sized, Inv
<1>7. TypeOK'
  BY <1>1, <1>2, <1>3, <1>4, <1>5, Types DEF Opt
<1>8. QED
  BY <1>4, <1>5, <1>6, <1>7 DEF Inv

\* A new writer counts on from the highest line.
LEMMA ScanMax ==
  ASSUME file \in Seq(FileRow), InOrder
  PROVE  /\ scan_max_seq \in Nat /\ \A x \in Readable : x \in Nat /\ x < scan_max_seq
         /\ scan_max_seq = 0 \/ scan_max_seq - 1 \in Readable
<1>1. PICK T : T = {read_last_seq(file[i]) : i \in DOMAIN file} \ {None}
  OBVIOUS
<1>2. ASSUME NEW i \in DOMAIN file, Parsed(file[i]) # {}
      PROVE  /\ read_last_seq(file[i]) \in T /\ read_last_seq(file[i]) \in Nat /\ read_last_seq(file[i]) \in Readable
             /\ \A k \in Parsed(file[i]) : file[i].lines[k] \in Nat /\ file[i].lines[k] <= read_last_seq(file[i])
  <2>1. file[i] \in FileRow /\ Rising(file[i].lines)
    BY DEF InOrder
  <2>2. /\ \E k \in Parsed(file[i]) : read_last_seq(file[i]) = file[i].lines[k]
        /\ \A k \in Parsed(file[i]) : file[i].lines[k] <= read_last_seq(file[i])
        /\ read_last_seq(file[i]) \in Nat
    BY <1>2, <2>1, Ends
  <2>3. \A k \in Parsed(file[i]) : file[i].lines[k] \in Nat
    BY <2>1, ParsedLines
  <2>4. read_last_seq(file[i]) \in T
    BY <1>1, <2>2
  <2>5. QED
    BY <2>2, <2>3, <2>4, InReadable
<1>3. \A x \in T : \E i \in DOMAIN file : Parsed(file[i]) # {} /\ x = read_last_seq(file[i])
  BY <1>1 DEF read_last_seq
<1>4. T \in SUBSET Nat /\ \A x \in T : x \in Readable
  BY <1>2, <1>3
<1>5. IsFiniteSet(T)
  <2>1. PICK n \in Nat : DOMAIN file = 1..n
    OBVIOUS
  <2>2. IsFiniteSet(1..n)
    BY FS_Interval
  <2>3. PICK g : g = [i \in 1..n |-> read_last_seq(file[i])]
    OBVIOUS
  <2>4. PICK U : U = {g[i] : i \in 1..n}
    OBVIOUS
  <2>5. g \in Surjection(1..n, U)
    BY <2>3, <2>4 DEF Surjection
  <2>6. IsFiniteSet(U)
    BY <2>2, <2>5, FS_Surjection DEF ExistsSurjection
  <2>7. T \in SUBSET U
    BY <1>3, <2>1, <2>3, <2>4
  <2>8. QED
    BY <2>6, <2>7, FS_Subset
<1>6. scan_max_seq = IF T = {} THEN 0 ELSE Last(T) + 1
  BY <1>1 DEF scan_max_seq
<1>7. \A x \in Readable : \E y \in T : x \in Nat /\ x <= y
  BY <1>2, InReadable
<1>8. CASE T = {}
  BY <1>6, <1>7, <1>8
<1>9. CASE T # {}
  <2>1. PICK m \in T : m = Last(T) /\ \A x \in T : x <= m
    BY <1>4, <1>5, <1>9, LastOf
  <2>2. m \in Nat /\ scan_max_seq = m + 1 /\ m \in Readable
    BY <1>4, <1>6, <1>9, <2>1
  <2>3. \A x \in Readable : x \in Nat /\ x < m + 1
    <3> SUFFICES ASSUME NEW x \in Readable PROVE x \in Nat /\ x < m + 1
      OBVIOUS
    <3>1. PICK y \in T : x \in Nat /\ x <= y
      BY <1>7
    <3>2. y \in Nat /\ y <= m
      BY <1>4, <2>1
    <3>3. QED
      BY <2>2, <3>1, <3>2
  <2>4. (m + 1) - 1 = m
    BY <2>2
  <2>5. QED
    BY <2>2, <2>3, <2>4
<1>10. QED
  BY <1>8, <1>9

\* A new writer starts beyond every seq it can read.
LEMMA WalWriterNewInv ==
  ASSUME Inv, WalWriter_new
  PROVE  Inv'
<1>1. /\ global_seq = None /\ global_seq' = scan_max_seq
      /\ UNCHANGED <<file, current, events, bytes, manifest, rd, acked, fails, crashes, imports, raced>>
  BY DEF WalWriter_new, budgetVars
<1>2. file \in Seq(FileRow) /\ InOrder
  BY InvSane
<1>3. /\ fails \in Nat /\ crashes \in Nat /\ imports \in Nat /\ acked \subseteq Nat /\ raced \in BOOLEAN
      /\ events \in Nat /\ bytes \in Nat
  BY DEF Inv, TypeOK
<1>4. global_seq' \in Nat /\ \A x \in Readable : x < global_seq'
  BY <1>1, <1>2, ScanMax
<1>5. Writing' /\ InOrder' /\ InTurn' /\ CounterAhead' /\ Paid' /\ current' \in Opt(DOMAIN file')
  <2>1. fails' \in Nat /\ fails' >= fails
    BY <1>1, <1>3
  <2>2. QED
    BY <1>1, <1>4, <2>1, NoWrite
<1>6. rd' \in [Readers -> Opt(Call)] /\ manifest' \in Opt(Bounds) /\ Cached'
  BY <1>1, ReadersKept
<1>7. Sized'
  BY <1>1 DEF Sized, Inv
<1>8. TypeOK'
  BY <1>1, <1>2, <1>3, <1>4, <1>5, <1>6, Types DEF Opt
<1>9. QED
  BY <1>5, <1>6, <1>7, <1>8 DEF Inv

\* One line is delivered in a file of its own.
LEMMA OneLine ==
  ASSUME global_seq \in Nat, NEW new, new = <<global_seq>>
  PROVE  Fresh(new) /\ new \in Seq(Line) /\ Len(new) = 1 /\ new # <<>> /\ new[1] = global_seq
<1>1. new \in Seq(Line) /\ Len(new) = 1 /\ DOMAIN new = {1} /\ new[1] = global_seq
  BY DEF Line
<1>2. QED
  BY <1>1 DEF Fresh

\* What a delivery does to the directory.
LEMMA DeliveredFile ==
  ASSUME Inv, ImportAndResync
  PROVE  \E i, new : \E o \in BOOLEAN :
           /\ i = Len(file) + 1 /\ new = <<global_seq>> /\ Puts(i, EmptyFile, new, o) /\ Fresh(new) /\ Len(new) = 1
           /\ file'[i] \in FileRow /\ ~file'[i].open /\ Len(file'[i].lines) = 1
<1>1. /\ global_seq # None /\ file' = Append(file, Extend(EmptyFile, <<global_seq>>, FALSE))
  BY DEF ImportAndResync
<1>2. Sane /\ global_seq \in Nat /\ file \in Seq(FileRow)
  BY <1>1, InvSane
<1>3. PICK new : new = <<global_seq>>
  OBVIOUS
<1>4. Fresh(new) /\ new \in Seq(Line) /\ Len(new) = 1 /\ new # <<>> /\ new[1] = global_seq
  BY <1>2, <1>3, OneLine
<1>5. PICK o \in BOOLEAN : o = FALSE
  OBVIOUS
<1>6. PICK h : h = Extend(EmptyFile, new, o)
  OBVIOUS
<1>7. EmptyFile \in FileRow /\ ~EmptyFile.open /\ EmptyFile.lines = <<>>
  BY NewFile
<1>8. h \in FileRow /\ h.open = o
      /\ IF EmptyFile.open THEN Joined(EmptyFile.lines, new, h.lines) ELSE After(EmptyFile.lines, new, h.lines)
  BY <1>4, <1>6, <1>7, Extended
<1>9. Len(h.lines) = 1
  BY <1>4, <1>7, <1>8 DEF After
<1>10. file' = Append(file, h)
  BY <1>1, <1>3, <1>5, <1>6
<1>11. PICK i : i = Len(file) + 1
  OBVIOUS
<1>12. Puts(i, EmptyFile, new, o)
  BY <1>2, <1>6, <1>7, <1>8, <1>10, <1>11, PutFile
<1>13. file'[i] = h
  BY <1>6, <1>12 DEF Puts
<1>14. QED
  BY <1>3, <1>4, <1>5, <1>8, <1>9, <1>11, <1>12, <1>13

\* A file with higher seqs is delivered beside the log.
LEMMA ImportInv ==
  ASSUME Inv, ImportAndResync
  PROVE  Inv'
<1>1. /\ global_seq # None /\ global_seq' = global_seq + 1 /\ imports' = imports + 1 /\ rd' = Touched
      /\ UNCHANGED <<current, events, bytes, manifest, acked, fails, crashes, raced>>
  BY DEF ImportAndResync
<1>2. Sane /\ global_seq \in Nat /\ file \in Seq(FileRow) /\ current \in Opt(DOMAIN file)
  BY <1>1, InvSane
<1>3. /\ fails \in Nat /\ crashes \in Nat /\ imports \in Nat /\ acked \subseteq Nat /\ raced \in BOOLEAN
      /\ events \in Nat /\ bytes \in Nat
  BY DEF Inv, TypeOK
<1>4. PICK i, new : \E o \in BOOLEAN :
           /\ i = Len(file) + 1 /\ new = <<global_seq>> /\ Puts(i, EmptyFile, new, o) /\ Fresh(new) /\ Len(new) = 1
           /\ file'[i] \in FileRow /\ ~file'[i].open /\ Len(file'[i].lines) = 1
  BY DeliveredFile
<1>5. PICK o \in BOOLEAN :
           /\ i = Len(file) + 1 /\ new = <<global_seq>> /\ Puts(i, EmptyFile, new, o) /\ Fresh(new) /\ Len(new) = 1
           /\ file'[i] \in FileRow /\ ~file'[i].open /\ Len(file'[i].lines) = 1
  BY <1>4
<1>6. /\ file' \in Seq(FileRow) /\ DOMAIN file' = DOMAIN file \cup {i} /\ i \notin DOMAIN file
      /\ \A j \in DOMAIN file : file'[j] = file[j]
  BY <1>2, <1>5 DEF Puts
<1>7. current' \in Opt(DOMAIN file') /\ global_seq' \in Nat /\ imports' \in Nat /\ imports' # 0
  BY <1>1, <1>2, <1>3, <1>6 DEF Opt
<1>8. Turns(i)
  BY <1>7 DEF Turns
<1>9. Writing' /\ InOrder' /\ InTurn' /\ CounterAhead'
  <2>1. PICK n \in Nat : n = 1
    OBVIOUS
  <2>2. Len(new) <= n /\ global_seq' \in {None, global_seq + n}
    BY <1>1, <1>5, <2>1
  <2>3. QED
    BY <1>1, <1>5, <1>8, <2>2, LogKept
<1>10. rd' \in [Readers -> Opt(Call)] /\ manifest' \in Opt(Bounds) /\ Cached'
  BY <1>1, <1>6, ReadersKept
<1>11. OpenTail' = OpenTail
  BY <1>1, <1>2, <1>6 DEF OpenTail, Opt
<1>12. \A y \in Safe : y \in Safe'
  <2>1. \A y : ~Joins(EmptyFile, new, y)
    BY NewFile DEF Joins
  <2>2. \A y \in Readable : y \in Readable'
    BY <1>2, <1>5, <2>1, PutReadable
  <2>3. QED
    BY <1>11, <2>2 DEF Safe
<1>13. Paid'
  <2>1. acked' \in SUBSET Nat /\ IsFiniteSet(acked') /\ fails \in Nat /\ fails' \in Nat /\ Paid
    BY <1>1, <1>3 DEF Inv, Paid
  <2>2. \A y \in acked' : y \notin Safe' => y \in acked /\ y \notin Safe
    BY <1>1, <1>12
  <2>3. Due' = Due /\ Due \in Nat
    BY <1>11 DEF Due
  <2>4. Due' + fails <= Due + fails'
    BY <1>1, <2>1, <2>3
  <2>5. QED
    BY <2>1, <2>2, <2>4, PaidSame
<1>14. Sized'
  <2> SUFFICES ASSUME fails' = 0, crashes' = 0
               PROVE  /\ \A j \in DOMAIN file' : ~file'[j].open
                      /\ current' # None => events' = Len(file'[current'].lines)
                      /\ \A j \in DOMAIN file' : Len(file'[j].lines) <= MaxEvents \/ Len(file'[j].lines) \in ChunkSizes
    BY DEF Sized
  <2>1. /\ \A j \in DOMAIN file : ~file[j].open
        /\ current # None => events = Len(file[current].lines)
        /\ \A j \in DOMAIN file : Len(file[j].lines) <= MaxEvents \/ Len(file[j].lines) \in ChunkSizes
    BY <1>1 DEF Inv, Sized
  <2>2. \A j \in DOMAIN file' : ~file'[j].open
    BY <1>5, <1>6, <2>1
  <2>3. current' # None => events' = Len(file'[current'].lines)
    BY <1>1, <1>2, <1>6, <2>1 DEF Opt
  <2>4. 1 <= MaxEvents
    OBVIOUS
  <2>5. \A j \in DOMAIN file' : Len(file'[j].lines) <= MaxEvents \/ Len(file'[j].lines) \in ChunkSizes
    BY <1>5, <1>6, <2>1, <2>4
  <2>6. QED
    BY <2>2, <2>3, <2>5
<1>15. TypeOK'
  BY <1>1, <1>3, <1>6, <1>7, <1>10, Types DEF Opt
<1>16. QED
  BY <1>9, <1>10, <1>13, <1>14, <1>15 DEF Inv

-----------------------------------------------------------------------------
(* The readers' steps leave the log and the writer alone.                  *)

\* What a reader finds in a file.
LEMMA SeqsRead ==
  ASSUME NEW f \in FileRow
  PROVE  read_last_seq(f) \in Opt(Nat) /\ first_seq_in_file(f) \in Opt(Nat)
<1>1. /\ Parsed(f) \in SUBSET Nat /\ IsFiniteSet(Parsed(f))
      /\ \A k \in Parsed(f) : f.lines[k] \in Nat
  BY ParsedLines
<1>2. CASE Parsed(f) = {}
  BY <1>2 DEF read_last_seq, first_seq_in_file, Opt
<1>3. CASE Parsed(f) # {}
  <2>1. PICK l \in Parsed(f) : l = Last(Parsed(f))
    BY <1>1, <1>3, LastOf
  <2>2. PICK e \in Parsed(f) : e = First(Parsed(f))
    BY <1>1, <1>3, FirstOf
  <2>3. QED
    BY <1>1, <1>3, <2>1, <2>2 DEF read_last_seq, first_seq_in_file, Opt
<1>4. QED
  BY <1>2, <1>3

\* One reader goes on, perhaps with a new manifest.
LEMMA ReaderInv ==
  ASSUME Inv, NEW r \in Readers, UNCHANGED Keep, NEW k \in Opt(Call), k # None => Reading(k),
         rd' = [rd EXCEPT ![r] = k],
         \E b \in Opt(Bounds) : manifest' = b /\ (b # None => Sound(b))
  PROVE  Inv'
<1>1. UNCHANGED <<file, global_seq, current, events, bytes, acked, fails, crashes, imports, raced>>
  BY DEF Keep, writerVars, budgetVars
<1>2. rd \in [Readers -> Opt(Call)] /\ \A q \in Readers : rd[q] # None => Reading(rd[q])
  BY DEF Inv, TypeOK, Cached
<1>3. rd' \in [Readers -> Opt(Call)] /\ \A q \in Readers : rd'[q] = (IF q = r THEN k ELSE rd[q])
  BY <1>2
<1>4. TypeOK'
  BY <1>1, <1>3 DEF Inv, TypeOK
<1>5. Readable' = Readable /\ OpenTail' = OpenTail
  BY <1>1 DEF Readable, Parsed, OpenTail
<1>6. Writing' /\ InOrder' /\ InTurn' /\ Sized'
  BY <1>1 DEF Inv, Writing, InOrder, InTurn, Sized, Parsed
<1>7. CounterAhead' /\ Paid'
  BY <1>1, <1>5 DEF Inv, CounterAhead, Paid, Safe, Due
<1>8. \A q \in Readers : rd'[q] # None => Reading(rd'[q])
  BY <1>2, <1>3
<1>9. Cached'
  <2>1. \A b : Sound(b) => (/\ b.max # None => b.maxFile \in DOMAIN file'
                            /\ b.min # None => b.minFile \in DOMAIN file')
    BY <1>1 DEF Sound
  <2>2. manifest' # None => Sound(manifest')
    OBVIOUS
  <2>3. QED
    BY <1>1, <1>8, <2>2 DEF Cached, Reading, Sound
<1>10. QED
  BY <1>4, <1>6, <1>7, <1>9 DEF Inv

\* The call of a reader under way.
LEMMA Under ==
  ASSUME Inv, NEW r \in Readers, rd[r] # None
  PROVE  rd[r] \in Call /\ Reading(rd[r])
  BY DEF Inv, TypeOK, Cached, Opt

\* The calls a reader can make: a new one, a scan, and a return.
LEMMA Calls ==
  ASSUME Inv
  PROVE  /\ \A op \in {"max", "min"}, m \in Opt(Bounds) : (m # None => Sound(m)) =>
              NewCall(op, m) \in Call /\ Reading(NewCall(op, m))
         /\ \A k \in Call : Scan(k) \in Call /\ Reading(Scan(k))
         /\ \A k \in Call, v \in Opt(Nat) : Return(k, v) \in Call /\ Reading(Return(k, v))
<1>1. PICK n \in Nat : n = fingerprint /\ DOMAIN file \in SUBSET Nat
  BY InvSane DEF fingerprint
<1>2. \A a \in Nat : NoBounds(a) \in Bounds /\ Sound(NoBounds(a))
  BY DEF NoBounds, Bounds, Opt, Sound
<1>3. ASSUME NEW op \in {"max", "min"}, NEW m \in Opt(Bounds), m # None => Sound(m)
      PROVE  /\ NewCall(op, m) \in Call /\ Reading(NewCall(op, m))
  <2>1. PICK b \in Bounds : b = NoBounds(0) /\ Sound(b)
    BY <1>2
  <2>2. PICK k : k = NewCall(op, m)
    OBVIOUS
  <2>3. k = [op |-> op, pc |-> "list", m |-> m, size |-> 0, todo |-> {}, i |-> 0,
             seq |-> None, best |-> b, clean |-> TRUE, ret |-> None]
    BY <2>1, <2>2 DEF NewCall
  <2>4. k \in Call
    BY <2>3 DEF Call, Opt
  <2>5. Reading(k)
    BY <1>3, <2>1, <2>3 DEF Reading
  <2>6. QED
    BY <2>2, <2>4, <2>5
<1>4. PICK e : e = None /\ e \in Opt(Bounds)
  BY DEF Opt
<1>5. ASSUME NEW k \in Call PROVE Scan(k) \in Call /\ Reading(Scan(k))
  <2>1. k.op \in {"max", "min"} /\ k.clean \in BOOLEAN
    BY DEF Call
  <2>2. PICK c \in Call : c = NewCall(k.op, None) /\ Reading(c)
    BY <1>3, <1>4, <2>1
  <2>3. PICK b \in Bounds : b = NoBounds(n) /\ Sound(b)
    BY <1>2
  <2>4. PICK s : s = [c EXCEPT !.pc = "scan_read", !.todo = DOMAIN file, !.best = b, !.clean = k.clean]
    OBVIOUS
  <2>5. s = Scan(k)
    BY <1>1, <2>2, <2>3, <2>4 DEF Scan
  <2>6. s \in Call /\ s.m = c.m /\ s.best = b /\ s.todo = DOMAIN file /\ s.pc = "scan_read"
    BY <1>1, <2>1, <2>4 DEF Call
  <2>7. Reading(s)
    BY <2>2, <2>3, <2>6 DEF Reading
  <2>8. QED
    BY <2>5, <2>6, <2>7
<1>6. ASSUME NEW k \in Call, NEW v \in Opt(Nat) PROVE Return(k, v) \in Call /\ Reading(Return(k, v))
  <2>1. k.op \in {"max", "min"} /\ k.clean \in BOOLEAN
    BY DEF Call
  <2>2. PICK c \in Call : c = NewCall(k.op, None) /\ Reading(c)
    BY <1>3, <1>4, <2>1
  <2>4. PICK s : s = [c EXCEPT !.pc = "done", !.ret = v, !.clean = k.clean]
    OBVIOUS
  <2>5. s = Return(k, v)
    BY <2>2, <2>4 DEF Return
  <2>6. s \in Call /\ s.m = c.m /\ s.best = c.best /\ s.todo = c.todo /\ s.pc = "done"
    BY <2>1, <2>4 DEF Call
  <2>7. Reading(s)
    BY <2>2, <2>6 DEF Reading
  <2>8. QED
    BY <2>5, <2>6, <2>7
<1>7. QED
  BY <1>3, <1>5, <1>6

\* A step that only moves a reader.
LEMMA UpdateInv ==
  ASSUME Inv, NEW r \in Readers, NEW k \in Opt(Call), k # None => Reading(k), Update(r, k)
  PROVE  Inv'
<1>1. manifest \in Opt(Bounds) /\ (manifest # None => Sound(manifest))
  BY DEF Inv, TypeOK, Cached
<1>2. UNCHANGED Keep /\ manifest' = manifest /\ rd' = [rd EXCEPT ![r] = k]
  BY DEF Update
<1>3. QED
  BY <1>1, <1>2, ReaderInv

\* A call begins, looks at the directory, or ends.
LEMMA EndsInv ==
  ASSUME Inv, NEW r \in Readers,
         \/ \E op \in {"max", "min"} : ReadManifest(r, op)
         \/ ListDir(r) \/ ScanDone(r) \/ WriteManifest(r) \/ Answer(r)
  PROVE  Inv'
<1>1. ASSUME NEW op \in {"max", "min"}, ReadManifest(r, op) PROVE Inv'
  <2>1. manifest \in Opt(Bounds) /\ (manifest # None => Sound(manifest))
    BY DEF Inv, TypeOK, Cached
  <2>2. PICK k \in Call : k = NewCall(op, manifest) /\ Reading(k)
    BY <2>1, Calls
  <2>3. Update(r, k)
    BY <1>1, <2>2 DEF ReadManifest
  <2>4. QED
    BY <2>2, <2>3, UpdateInv DEF Opt
<1>2. CASE ListDir(r)
  <2>1. rd[r] # None /\ rd[r] \in Call /\ Reading(rd[r])
    BY <1>2, Under DEF ListDir
  <2>2. PICK c \in Call : c = rd[r]
    BY <2>1
  <2>3. PICK s \in Call : s = Scan(c) /\ Reading(s)
    BY Calls
  <2>4. PICK g : g = [c EXCEPT !.pc = "stat"]
    OBVIOUS
  <2>5. g \in Call /\ g.m = c.m /\ g.best = c.best /\ g.todo = c.todo /\ g.pc = "stat"
    BY <2>4 DEF Call
  <2>6. c.m # None => Reading(g)
    BY <2>1, <2>2, <2>5 DEF Reading
  <2>7. PICK k \in Call : k = (IF c.m # None /\ c.m.fp = fingerprint THEN g ELSE s) /\ Reading(k)
    BY <2>3, <2>5, <2>6
  <2>8. Update(r, k)
    BY <1>2, <2>2, <2>3, <2>4, <2>7 DEF ListDir, Goto
  <2>9. QED
    BY <2>7, <2>8, UpdateInv DEF Opt
<1>3. CASE ScanDone(r)
  <2>1. rd[r] # None /\ rd[r] \in Call /\ Reading(rd[r])
    BY <1>3, Under DEF ScanDone
  <2>2. PICK c \in Call : c = rd[r]
    BY <2>1
  <2>3. PICK v \in Opt(Nat) : v = IF c.op = "max" THEN c.best.max ELSE c.best.min
    BY DEF Call, Bounds
  <2>4. PICK k : k = [c EXCEPT !.pc = "write", !.ret = v]
    OBVIOUS
  <2>5. k \in Call /\ k.m = c.m /\ k.best = c.best /\ k.todo = c.todo /\ k.pc = "write"
    BY <2>4 DEF Call
  <2>6. Reading(k)
    BY <2>1, <2>2, <2>5 DEF Reading
  <2>7. Update(r, k)
    BY <1>3, <2>2, <2>3, <2>4 DEF ScanDone
  <2>8. QED
    BY <2>5, <2>6, <2>7, UpdateInv DEF Opt
<1>4. CASE WriteManifest(r)
  <2>1. rd[r] # None /\ rd[r] \in Call /\ Reading(rd[r])
    BY <1>4, Under DEF WriteManifest
  <2>2. PICK c \in Call : c = rd[r]
    BY <2>1
  <2>3. c.ret \in Opt(Nat) /\ c.best \in Bounds /\ Sound(c.best)
    BY <2>1, <2>2 DEF Call, Reading
  <2>4. PICK k \in Call : k = Return(c, c.ret) /\ Reading(k)
    BY <2>3, Calls
  <2>5. rd' = [rd EXCEPT ![r] = k] /\ UNCHANGED Keep /\ manifest' \in {c.best, manifest}
    BY <1>4, <2>2, <2>4 DEF WriteManifest
  <2>6. manifest \in Opt(Bounds) /\ (manifest # None => Sound(manifest))
    BY DEF Inv, TypeOK, Cached
  <2>7. PICK b \in Opt(Bounds) : manifest' = b /\ (b # None => Sound(b))
    BY <2>3, <2>5, <2>6 DEF Opt
  <2>8. QED
    BY <2>4, <2>5, <2>7, ReaderInv DEF Opt
<1>5. CASE Answer(r)
  <2>1. PICK k \in Opt(Call) : k = None
    BY DEF Opt
  <2>2. Update(r, k)
    BY <1>5, <2>1 DEF Answer
  <2>3. QED
    BY <2>1, <2>2, UpdateInv
<1>6. QED
  BY <1>1, <1>2, <1>3, <1>4, <1>5

\* A call follows the manifest it read.
LEMMA FastPathInv ==
  ASSUME Inv, NEW r \in Readers, StatMax(r) \/ StatMin(r) \/ ReRead(r)
  PROVE  Inv'
<1>1. rd[r] # None /\ rd[r] \in Call /\ Reading(rd[r])
  BY Under DEF StatMax, StatMin, ReRead
<1>2. PICK c \in Call : c = rd[r]
  BY <1>1
<1>3. c.pc \in {"stat", "reread"} /\ c.m # None
  BY <1>1, <1>2 DEF StatMax, StatMin, ReRead, Reading
<1>4. c.m \in Bounds /\ Sound(c.m) /\ c.best \in Bounds /\ Sound(c.best) /\ c.todo \subseteq DOMAIN file
  BY <1>1, <1>2, <1>3 DEF Call, Opt, Reading
<1>5. PICK m \in Bounds : m = c.m
  BY <1>4
<1>6. m.max \in Opt(Nat) /\ m.min \in Opt(Nat) /\ m.maxFile \in Opt(Nat)
  BY DEF Bounds
<1>7. \A i \in DOMAIN file : file[i] \in FileRow /\ file[i].size \in Nat
  <2>1. \A i \in DOMAIN file : file[i] \in FileRow
    BY InvSane
  <2>2. \A g \in FileRow : g.size \in Nat
    BY DEF FileRow
  <2>3. QED
    BY <2>1, <2>2
<1>8. PICK s \in Call : s = Scan(c) /\ Reading(s)
  BY Calls
<1>9. CASE StatMax(r)
  <2>1. c.pc = "stat" /\ Update(r, CASE m.max = None -> Return(c, None)
                       [] m.max # None /\ file[m.maxFile].size = m.maxSize -> Return(c, m.max)
                       [] OTHER -> [c EXCEPT !.pc = "reread", !.size = file[m.maxFile].size])
    BY <1>2, <1>5, <1>9 DEF StatMax
  <2>2. CASE m.max = None
    <3>1. PICK v \in Opt(Nat) : v = None
      BY DEF Opt
    <3>2. PICK k \in Call : k = Return(c, v) /\ Reading(k)
      BY Calls
    <3>3. Update(r, k)
      BY <2>1, <2>2, <3>1, <3>2
    <3>4. QED
      BY <3>2, <3>3, UpdateInv DEF Opt
  <2>3. CASE m.max # None /\ file[m.maxFile].size = m.maxSize
    <3>1. PICK v \in Opt(Nat) : v = m.max
      BY <1>6
    <3>2. PICK k \in Call : k = Return(c, v) /\ Reading(k)
      BY Calls
    <3>3. Update(r, k)
      BY <2>1, <2>3, <3>1, <3>2
    <3>4. QED
      BY <3>2, <3>3, UpdateInv DEF Opt
  <2>4. CASE m.max # None /\ ~(file[m.maxFile].size = m.maxSize)
    <3>1. PICK z \in Nat : z = file[m.maxFile].size
      BY <1>4, <1>5, <1>7, <2>4 DEF Sound
    <3>2. PICK k : k = [c EXCEPT !.pc = "reread", !.size = z]
      OBVIOUS
    <3>3. k \in Call /\ k.m = c.m /\ k.best = c.best /\ k.todo = c.todo /\ k.pc = "reread"
      BY <3>1, <3>2 DEF Call
    <3>4. Reading(k)
      BY <1>3, <1>4, <1>5, <2>4, <3>3 DEF Reading
    <3>5. Update(r, k)
      BY <2>1, <2>4, <3>1, <3>2
    <3>6. QED
      BY <3>3, <3>4, <3>5, UpdateInv DEF Opt
  <2>5. QED
    BY <2>2, <2>3, <2>4
<1>10. CASE StatMin(r)
  <2>1. PICK v \in Opt(Nat) : v = m.min
    BY <1>6
  <2>2. PICK a \in Call : a = Return(c, v) /\ Reading(a)
    BY Calls
  <2>3. PICK k \in Call : k = (IF m.min = None \/ file[m.minFile].size >= m.minSize THEN a ELSE s) /\ Reading(k)
    BY <1>8, <2>2
  <2>4. Update(r, k)
    BY <1>2, <1>5, <1>8, <1>10, <2>1, <2>2, <2>3 DEF StatMin
  <2>5. QED
    BY <2>3, <2>4, UpdateInv DEF Opt
<1>11. CASE ReRead(r)
  <2>1. c.pc = "reread" /\ m.max # None
    BY <1>1, <1>2, <1>5, <1>11 DEF ReRead, Reading
  <2>2. PICK i \in DOMAIN file : i = m.maxFile
    BY <1>4, <1>5, <2>1 DEF Sound
  <2>3. PICK v \in Opt(Nat) : v = read_last_seq(file[i])
    BY <1>7, SeqsRead
  <2>4. PICK b : b = [m EXCEPT !.max = v, !.maxSize = c.size]
    OBVIOUS
  <2>5. b \in Bounds /\ b.maxFile = m.maxFile /\ b.minFile = m.minFile /\ b.min = m.min
    BY <2>4 DEF Bounds, Call
  <2>6. Sound(b)
    BY <1>4, <1>5, <2>2, <2>5 DEF Sound
  <2>7. PICK g : g = [c EXCEPT !.pc = "write", !.ret = v, !.best = b]
    OBVIOUS
  <2>8. g \in Call /\ g.m = c.m /\ g.best = b /\ g.todo = c.todo /\ g.pc = "write"
    BY <2>5, <2>7 DEF Call
  <2>9. Reading(g)
    BY <1>4, <2>6, <2>8 DEF Reading
  <2>10. PICK k \in Call : k = (IF v # None /\ v >= m.max THEN g ELSE s) /\ Reading(k)
    BY <1>8, <2>8, <2>9
  <2>11. Update(r, k)
    BY <1>2, <1>5, <1>8, <1>11, <2>2, <2>3, <2>4, <2>7, <2>10 DEF ReRead
  <2>12. QED
    BY <2>10, <2>11, UpdateInv DEF Opt
<1>12. QED
  BY <1>9, <1>10, <1>11

\* A call scans the files it listed.
LEMMA ScanInv ==
  ASSUME Inv, NEW r \in Readers, ScanRead(r) \/ ScanStat(r) \/ ScanFirst(r)
  PROVE  Inv'
<1>1. rd[r] # None /\ rd[r] \in Call /\ Reading(rd[r])
  BY Under DEF ScanRead, ScanStat, ScanFirst
<1>2. PICK c \in Call : c = rd[r]
  BY <1>1
<1>3. /\ c.m # None => Sound(c.m)
      /\ c.todo \subseteq DOMAIN file /\ c.todo \in SUBSET Nat
  BY <1>1, <1>2 DEF Reading, Call
<1>4. PICK d \in Bounds : d = c.best /\ Sound(d)
  BY <1>1, <1>2 DEF Reading, Call
<1>5. \A i \in DOMAIN file : file[i] \in FileRow /\ file[i].size \in Nat /\ i \in Nat
  <2>1. \A i \in DOMAIN file : file[i] \in FileRow /\ i \in Nat
    BY InvSane
  <2>2. \A g \in FileRow : g.size \in Nat
    BY DEF FileRow
  <2>3. QED
    BY <2>1, <2>2
<1>6. CASE ScanRead(r)
  <2>1. PICK i \in c.todo :
             LET seq == read_last_seq(file[i])
                 higher == seq # None /\ (c.best.max = None \/ seq > c.best.max)
             IN  Update(r, [c EXCEPT !.i = i, !.seq = seq,
                                     !.pc = IF higher THEN "scan_stat" ELSE "scan_first"])
    BY <1>2, <1>6 DEF ScanRead
  <2>2. i \in DOMAIN file /\ i \in Nat
    BY <1>3, <1>5
  <2>3. PICK v \in Opt(Nat) : v = read_last_seq(file[i])
    BY <1>5, <2>2, SeqsRead
  <2>4. PICK p \in {"scan_stat", "scan_first"} :
          /\ p = IF v # None /\ (c.best.max = None \/ v > c.best.max) THEN "scan_stat" ELSE "scan_first"
          /\ p = "scan_stat" => v # None
    OBVIOUS
  <2>5. PICK k : k = [c EXCEPT !.i = i, !.seq = v, !.pc = p]
    OBVIOUS
  <2>6. k \in Call /\ k.m = c.m /\ k.best = d /\ k.todo = c.todo /\ k.i = i /\ k.seq = v /\ k.pc = p
    BY <1>4, <2>2, <2>4, <2>5 DEF Call
  <2>7. Reading(k)
    BY <1>3, <1>4, <2>2, <2>4, <2>6 DEF Reading
  <2>8. Update(r, k)
    BY <2>1, <2>3, <2>4, <2>5
  <2>9. QED
    BY <2>6, <2>7, <2>8, UpdateInv DEF Opt
<1>7. CASE ScanStat(r)
  <2>1. c.pc = "scan_stat" /\ c.i \in DOMAIN file /\ c.i \in Nat /\ c.seq \in Opt(Nat)
    BY <1>1, <1>2, <1>7 DEF ScanStat, Reading, Call
  <2>2. PICK z \in Nat : z = file[c.i].size
    BY <1>5, <2>1
  <2>3. PICK b : b = [d EXCEPT !.max = c.seq, !.maxFile = c.i, !.maxSize = z]
    OBVIOUS
  <2>4. b \in Bounds /\ b.maxFile = c.i /\ b.minFile = d.minFile /\ b.min = d.min
    BY <2>1, <2>2, <2>3 DEF Bounds, Opt
  <2>5. Sound(b)
    BY <1>4, <2>1, <2>4 DEF Sound
  <2>6. PICK k : k = [c EXCEPT !.pc = "scan_first", !.best.max = c.seq, !.best.maxFile = c.i, !.best.maxSize = z]
    OBVIOUS
  <2>7. k \in Call /\ k.m = c.m /\ k.best = b /\ k.todo = c.todo /\ k.i = c.i /\ k.pc = "scan_first"
    BY <1>4, <2>1, <2>3, <2>4, <2>6 DEF Call
  <2>8. Reading(k)
    BY <1>3, <2>1, <2>5, <2>7 DEF Reading
  <2>9. Update(r, k)
    BY <1>2, <1>7, <2>2, <2>6 DEF ScanStat
  <2>10. QED
    BY <2>7, <2>8, <2>9, UpdateInv DEF Opt
<1>8. CASE ScanFirst(r)
  <2>1. c.pc = "scan_first" /\ c.i \in DOMAIN file /\ c.i \in Nat
    BY <1>1, <1>2, <1>8 DEF ScanFirst, Reading, Call
  <2>2. PICK z \in Nat, v \in Opt(Nat) : z = file[c.i].size /\ v = first_seq_in_file(file[c.i])
    BY <1>5, <2>1, SeqsRead
  <2>3. PICK g : g = [d EXCEPT !.min = v, !.minFile = c.i, !.minSize = z]
    OBVIOUS
  <2>4. g \in Bounds /\ g.minFile = c.i /\ g.maxFile = d.maxFile /\ g.max = d.max
    BY <2>1, <2>2, <2>3 DEF Bounds, Opt
  <2>5. Sound(g)
    BY <1>4, <2>1, <2>4 DEF Sound
  <2>6. PICK b \in Bounds : b = (IF v # None /\ (d.min = None \/ v < d.min) THEN g ELSE d) /\ Sound(b)
    BY <1>4, <2>4, <2>5
  <2>7. PICK k : k = [c EXCEPT !.pc = "scan_read", !.todo = @ \ {c.i}, !.i = 0, !.seq = None, !.best = b]
    OBVIOUS
  <2>8. k \in Call /\ k.m = c.m /\ k.best = b /\ k.todo = c.todo \ {c.i} /\ k.pc = "scan_read"
    BY <1>3, <2>7 DEF Call, Opt
  <2>9. Reading(k)
    BY <1>3, <2>6, <2>8 DEF Reading
  <2>10. Update(r, k)
    BY <1>2, <1>4, <1>8, <2>2, <2>3, <2>6, <2>7 DEF ScanFirst
  <2>11. QED
    BY <2>8, <2>9, <2>10, UpdateInv DEF Opt
<1>9. QED
  BY <1>6, <1>7, <1>8

-----------------------------------------------------------------------------
(* The invariant, and what it says.                                        *)

\* An empty directory without a writer.
LEMMA InvInit ==
  ASSUME Init
  PROVE  Inv
<1>1. PICK q \in Seq(FileRow) : q = file /\ q = <<>>
  BY Nothing DEF Init
<1>2. DOMAIN file = {}
  BY <1>1
<1>3. Readable = {}
  BY <1>2 DEF Readable
<1>4. OpenTail = None
  BY DEF Init, OpenTail
<1>5. TypeOK
  <2>1. file \in Seq([lines : Seq(Nat \cup {Junk}), open : BOOLEAN, size : Nat])
    BY <1>1 DEF FileRow, Line
  <2>2. rd \in [Readers -> Opt(Call)]
    BY DEF Init, Opt
  <2>3. QED
    BY <2>1, <2>2 DEF Init, TypeOK, Opt
<1>6. Writing /\ InOrder /\ InTurn /\ CounterAhead /\ Sized /\ Cached
  BY <1>2, <1>3 DEF Init, Writing, InOrder, InTurn, CounterAhead, Sized, Cached
<1>7. Paid
  <2>1. acked \ Safe = {} /\ acked = {} /\ Due = 0 /\ fails = 0
    BY <1>4 DEF Init, Due
  <2>2. IsFiniteSet(acked) /\ Cardinality(acked \ Safe) = 0
    BY <2>1, FS_EmptySet
  <2>3. QED
    BY <2>1, <2>2 DEF Paid
<1>8. QED
  BY <1>5, <1>6, <1>7 DEF Inv

\* Every operation of the writer and every step of a reader preserves it.
LEMMA InvNext ==
  ASSUME Inv, [Next]_vars
  PROVE  Inv'
<1>1. ASSUME NEW n \in ChunkSizes, with_chunk(n) PROVE Inv'
  BY <1>1, WithChunkInv
<1>2. ASSUME NEW n \in ChunkSizes, with_chunk_err(n) PROVE Inv'
  BY <1>2, WithChunkErrInv
<1>3. ASSUME NEW n \in ChunkSizes, Crash(n) PROVE Inv'
  BY <1>3, CrashInv
<1>4. CASE rotate
  BY <1>4, RotateInv
<1>5. CASE WalWriter_new
  BY <1>5, WalWriterNewInv
<1>6. CASE ImportAndResync
  BY <1>6, ImportInv
<1>7. ASSUME NEW r \in Readers,
             \/ \E op \in {"max", "min"} : ReadManifest(r, op)
             \/ ListDir(r) \/ StatMax(r) \/ StatMin(r) \/ ReRead(r)
             \/ ScanRead(r) \/ ScanStat(r) \/ ScanFirst(r) \/ ScanDone(r)
             \/ WriteManifest(r) \/ Answer(r)
      PROVE  Inv'
  BY <1>7, EndsInv, FastPathInv, ScanInv
<1>8. CASE UNCHANGED vars
  <2>1. UNCHANGED <<file, global_seq, current, events, bytes, manifest, rd, acked, fails, crashes, imports, raced>>
    BY <1>8 DEF vars, writerVars, budgetVars
  <2>2. Readable' = Readable /\ OpenTail' = OpenTail
    BY <2>1 DEF Readable, Parsed, OpenTail
  <2>3. TypeOK' /\ Writing' /\ InOrder' /\ InTurn' /\ Sized'
    BY <2>1 DEF Inv, TypeOK, Writing, InOrder, InTurn, Sized, Parsed
  <2>4. CounterAhead' /\ Paid'
    BY <2>1, <2>2 DEF Inv, CounterAhead, Paid, Safe, Due
  <2>5. Cached'
    BY <2>1 DEF Inv, Cached, Reading, Sound
  <2>6. QED
    BY <2>3, <2>4, <2>5 DEF Inv
<1>9. QED
  BY <1>1, <1>2, <1>3, <1>4, <1>5, <1>6, <1>7, <1>8 DEF Next

\* In turn, and therefore read in turn.
LEMMA InvReplay ==
  ASSUME Inv
  PROVE  ReplayInOrder
<1>1. \A i \in DOMAIN file : \A j, k \in Parsed(file[i]) : j < k => file[i].lines[j] < file[i].lines[k]
  BY DEF Inv, InOrder, Rising, Parsed
<1>2. \A i, j \in DOMAIN file : \A k \in Parsed(file[i]), l \in Parsed(file[j]) :
         i # j => file[i].lines[k] # file[j].lines[l]
  BY DEF Inv, InOrder
<1>3. ASSUME imports = 0, NEW i \in DOMAIN file, NEW j \in DOMAIN file, i # j,
             Parsed(file[i]) # {}, Parsed(file[j]) # {}
      PROVE  \/ read_last_seq(file[i]) < first_seq_in_file(file[j])
             \/ read_last_seq(file[j]) < first_seq_in_file(file[i])
  <2>1. file[i] \in FileRow /\ file[j] \in FileRow /\ i \in Nat /\ j \in Nat
    BY InvSane
  <2>2. Rising(file[i].lines) /\ Rising(file[j].lines)
    BY DEF Inv, InOrder
  <2>3. /\ \E k \in Parsed(file[i]) : read_last_seq(file[i]) = file[i].lines[k]
        /\ \E k \in Parsed(file[i]) : first_seq_in_file(file[i]) = file[i].lines[k]
    BY <1>3, <2>1, <2>2, Ends
  <2>4. /\ \E k \in Parsed(file[j]) : read_last_seq(file[j]) = file[j].lines[k]
        /\ \E k \in Parsed(file[j]) : first_seq_in_file(file[j]) = file[j].lines[k]
    BY <1>3, <2>1, <2>2, Ends
  <2>5. i < j \/ j < i
    BY <1>3, <2>1
  <2>6. QED
    BY <1>3, <2>3, <2>4, <2>5 DEF Inv, InTurn
<1>4. QED
  BY <1>1, <1>2, <1>3 DEF ReplayInOrder

\* The lines that cannot be read are no more than those that are not safe.
LEMMA InvDamage ==
  ASSUME Inv
  PROVE  DamageBounded
<1>1. IsFiniteSet(acked \ Safe) /\ Cardinality(acked \ Safe) + Due <= fails /\ fails \in Nat
  BY FS_Difference DEF Inv, Paid, TypeOK
<1>2. acked \ Readable \in SUBSET (acked \ Safe)
  BY DEF Safe
<1>3. Cardinality(acked \ Readable) <= Cardinality(acked \ Safe) /\ IsFiniteSet(acked \ Readable)
  BY <1>1, <1>2, FS_Subset
<1>4. Cardinality(acked \ Safe) \in Nat /\ Cardinality(acked \ Readable) \in Nat /\ Due \in Nat
  BY <1>1, <1>3, FS_CardinalityType DEF Due
<1>5. \A a, b, d, m \in Nat : (a <= b /\ b + d <= m) => a <= m
  OBVIOUS
<1>6. QED
  BY <1>1, <1>3, <1>4, <1>5 DEF DamageBounded

\* Every reachable state satisfies the invariant.
THEOREM Invariant == Spec => []Inv
<1>1. Init => Inv
  BY InvInit
<1>2. Inv /\ [Next]_vars => Inv'
  BY InvNext
<1>3. QED
  BY <1>1, <1>2, PTL DEF Spec

\* A group's log is read in the order its mutations were acknowledged, whatever rotations,
\* torn appends, crashes, new writers and deliveries made of its files (flush_pending,
\* rotate, scan_max_seq in wal.rs); the counter stays beyond it, max_events_per_file is
\* kept while no append failed, and one failed append costs at most one acknowledged line.
THEOREM LogInOrder == Spec => []LogSound
<1>1. Inv => LogSound
  <2>1. Inv => FilesBounded
    BY DEF Inv, Sized, FilesBounded
  <2>2. QED
    BY <2>1, InvReplay, InvDamage DEF Inv, LogSound
<1>2. QED
  BY <1>1, Invariant, PTL

-----------------------------------------------------------------------------
(* The directory as a stream.                                              *)

\* A piece of a chunk reaches the stream.
LEMMA Reached ==
  ASSUME Inv, global_seq # None, NEW n \in Nat, NEW k \in 0..n, NEW f, NEW new, NEW o \in BOOLEAN,
         Piece(n, k, new, o), Puts(Target(n), f, new, o)
  PROVE  Stream!Reaches(k)
<1>1. Sane /\ global_seq \in Nat /\ Fresh(new) /\ k \in Nat
  BY InvSane DEF Piece
<1>2. PICK i : i = Target(n)
  OBVIOUS
<1>3. Puts(i, f, new, o)
  BY <1>2, Zenon
<1>4. \A x : x \in Readable' <=> (x \in Readable /\ ~Joins(f, new, x)) \/ Brings(f, new, x)
  BY <1>1, <1>3, PutReadable
<1>5. /\ f.open => OpenTail # None /\ OpenTail = f.lines[Len(f.lines)]
  BY TargetTail
<1>6. PICK got : got = {global_seq + j : j \in 0..(k - 1)}
  OBVIOUS
<1>7. \A x : x \in got <=> \E p \in 1..k : x = global_seq + p - 1
  <2>1. ASSUME NEW x \in got PROVE \E p \in 1..k : x = global_seq + p - 1
    <3>1. PICK j \in 0..(k - 1) : x = global_seq + j
      BY <1>6
    <3>2. j + 1 \in 1..k /\ x = global_seq + (j + 1) - 1
      BY <1>1, <3>1
    <3>3. QED
      BY <3>2
  <2>2. ASSUME NEW p \in 1..k PROVE global_seq + p - 1 \in got
    <3>1. p - 1 \in 0..(k - 1) /\ global_seq + p - 1 = global_seq + (p - 1)
      BY <1>1
    <3>2. QED
      BY <1>6, <3>1
  <2>3. QED
    BY <2>1, <2>2
<1>8. /\ DOMAIN new \subseteq 1..(k + 1) /\ (1..k) \subseteq DOMAIN new
      /\ \A p \in 1..k : new[p] = global_seq + p - 1 /\ new[p] # Junk
      /\ \A p \in DOMAIN new : p \in 1..k \/ new[p] = Junk
  <2>1. PICK m \in Nat : m = Len(new) /\ DOMAIN new = 1..m /\ m \in {k, k + 1}
    BY <1>1 DEF Fresh, Piece
  <2>2. \A p \in 1..k : new[p] = global_seq + p - 1 /\ new[p] # Junk
    <3>1. \A p \in 1..k : global_seq + p - 1 \in Nat
      BY <1>1
    <3>2. \A p \in 1..k : new[p] = global_seq + p - 1
      BY DEF Piece
    <3>3. QED
      BY <3>1, <3>2
  <2>3. m = k + 1 => new[k + 1] = Junk
    BY <2>1 DEF Piece
  <2>4. \A p \in 1..m : p \in 1..k \/ (m = k + 1 /\ p = k + 1)
    BY <1>1, <2>1
  <2>5. DOMAIN new \subseteq 1..(k + 1) /\ (1..k) \subseteq DOMAIN new
    BY <1>1, <2>1
  <2>6. \A p \in DOMAIN new : p \in 1..k \/ new[p] = Junk
    BY <2>1, <2>3, <2>4
  <2>7. QED
    BY <2>2, <2>5, <2>6
<1>9. CASE ~f.open \/ new = <<>>
  <2>1. \A x : ~Joins(f, new, x)
    BY <1>9 DEF Joins
  <2>2. \A x : Brings(f, new, x) <=> x \in got
    <3>1. CASE ~f.open
      BY <1>7, <1>8, <3>1 DEF Brings
    <3>2. CASE new = <<>>
      <4>1. DOMAIN new = {}
        BY <3>2
      <4>2. k = 0
        BY <1>1, <1>8, <4>1
      <4>3. QED
        BY <1>7, <4>1, <4>2 DEF Brings
    <3>3. QED
      BY <1>9, <3>1, <3>2
  <2>3. Readable' = Readable \cup got
    BY <1>4, <2>1, <2>2
  <2>4. QED
    BY <1>6, <2>3 DEF Stream!Reaches
<1>10. CASE f.open /\ new # <<>>
  <2>1. \A x : Joins(f, new, x) <=> x = OpenTail
    BY <1>5, <1>10 DEF Joins
  <2>2. \A x : Brings(f, new, x) <=> x \in got /\ x # global_seq
    <3>1. ASSUME NEW x, Brings(f, new, x) PROVE x \in got /\ x # global_seq
      <4>1. PICK p \in 1..k : p # 1 /\ x = new[p]
        BY <1>8, <1>10, <3>1 DEF Brings
      <4>2. x = global_seq + p - 1
        BY <1>8, <4>1
      <4>3. QED
        BY <1>1, <1>7, <4>1, <4>2
    <3>2. ASSUME NEW x \in got, x # global_seq PROVE Brings(f, new, x)
      <4>1. PICK p \in 1..k : x = global_seq + p - 1
        BY <1>7
      <4>2. p # 1
        BY <1>1, <3>2, <4>1
      <4>3. QED
        BY <1>8, <4>1, <4>2 DEF Brings
    <3>3. QED
      BY <3>1, <3>2
  <2>3. Readable' = (Readable \ {OpenTail}) \cup (got \ {global_seq})
    BY <1>4, <2>1, <2>2
  <2>4. QED
    BY <1>5, <1>6, <1>10, <2>3 DEF Stream!Reaches
<1>11. QED
  BY <1>9, <1>10

\* The tail it leaves.
LEMMA TailAfter ==
  ASSUME Inv, global_seq # None, NEW n \in Nat, NEW k \in 0..n, NEW f, NEW new, NEW o \in BOOLEAN,
         Piece(n, k, new, o), Puts(Target(n), f, new, o), new # <<>>, current' = Target(n)
  PROVE  /\ OpenTail' \in {None, Junk} \cup ({global_seq + k - 1} \cap Readable')
         /\ ~o => OpenTail' = None
<1>1. Sane /\ global_seq \in Nat /\ Fresh(new) /\ new \in Seq(Line) /\ k \in Nat
  BY InvSane DEF Piece, Fresh
<1>2. PICK i : i = Target(n)
  OBVIOUS
<1>3. Puts(i, f, new, o) /\ current' = i
  BY <1>2, Zenon
<1>4. \A x : Brings(f, new, x) => x \in Readable'
  BY <1>1, <1>3, PutReadable
<1>5. f \in FileRow /\ (f.open => f.lines # <<>>)
  BY TargetTail
<1>6. PICK h : h = file'[i] /\ h = Extend(f, new, o)
  BY <1>3 DEF Puts
<1>7. EndsLike(f, new, o, h)
  BY <1>1, <1>5, <1>6, LastLine
<1>8. OpenTail' = TailOf(h)
  <2>1. current' # None
    BY TargetTurn
  <2>2. QED
    BY <1>3, <1>6, <2>1, OpenTailNext
<1>9. PICK m \in Nat : m = Len(new) /\ DOMAIN new = 1..m /\ m >= 1 /\ m \in {k, k + 1}
  BY <1>1 DEF Piece
<1>10. ~o => OpenTail' = None
  BY <1>7, <1>8 DEF EndsLike
<1>11. CASE o /\ ~(f.open /\ m = 1) /\ m = k
  <2>1. m \in 1..k /\ new[m] = global_seq + k - 1
    BY <1>9, <1>11 DEF Piece
  <2>2. new[m] # Junk
    BY <1>1, <1>9, <1>11, <2>1
  <2>3. Brings(f, new, new[m])
    BY <1>9, <1>11, <2>2 DEF Brings
  <2>4. OpenTail' = new[m]
    BY <1>7, <1>8, <1>9, <1>11 DEF EndsLike
  <2>5. QED
    BY <1>4, <1>11, <2>1, <2>3, <2>4
<1>12. CASE o /\ ~(f.open /\ m = 1) /\ m = k + 1
  <2>1. new[m] = Junk
    BY <1>9, <1>12 DEF Piece
  <2>2. OpenTail' = new[m]
    BY <1>7, <1>8, <1>9, <1>12 DEF EndsLike
  <2>3. QED
    BY <1>12, <2>1, <2>2
<1>13. CASE o /\ f.open /\ m = 1
  BY <1>7, <1>8, <1>9, <1>13 DEF EndsLike
<1>14. QED
  BY <1>9, <1>10, <1>11, <1>12, <1>13

\* An append that succeeds is an append to the stream.
LEMMA AppendStep ==
  ASSUME Inv, NEW n \in ChunkSizes, with_chunk(n)
  PROVE  Stream!Append(n)
<1>1. /\ global_seq # None /\ file' = Written(n, chunk(n), FALSE) /\ current' = Target(n)
      /\ global_seq' = global_seq + n
  BY DEF with_chunk, Fits
<1>2. /\ Sane /\ global_seq \in Nat /\ n \in Nat /\ n >= 1 /\ file \in Seq(FileRow) /\ Writing
      /\ current \in Opt(DOMAIN file)
  BY <1>1, InvSane
<1>a. PICK new : new = chunk(n)
  OBVIOUS
<1>3. PICK o \in BOOLEAN : new = chunk(n) /\ o = FALSE
  BY <1>a
<1>4. Piece(n, n, chunk(n), FALSE) /\ Len(chunk(n)) = n
  BY <1>2, ChunkWhole
<1>5. Piece(n, n, new, o) /\ Len(new) = n
  BY <1>3, <1>4
<1>6. Fresh(new) /\ new # <<>> /\ file' = Written(n, new, o)
  BY <1>1, <1>2, <1>3, <1>5 DEF Piece
<1>7. PICK f : Puts(Target(n), f, new, o)
  BY <1>1, <1>2, <1>6, WritePuts
<1>8. PICK k \in 0..n : k = n
  BY <1>2
<1>9. Piece(n, k, new, o)
  BY <1>5, <1>8
<1>10. Stream!Reaches(k)
  BY <1>1, <1>2, <1>7, <1>9, Reached
<1>11. OpenTail' = None
  BY <1>1, <1>2, <1>3, <1>6, <1>7, <1>9, TailAfter
<1>12. Stream!Reaches(n)
  BY <1>8, <1>10, Zenon
<1>13. QED
  BY <1>1, <1>11, <1>12 DEF Stream!Append

\* What a write that stopped brought to the stream.
LEMMA TornReaches ==
  ASSUME Inv, global_seq # None, NEW n \in ChunkSizes, NEW t \in Torn(n), file' = Written(n, t.new, t.open)
  PROVE  \E k \in 0..n : /\ Stream!Reaches(k)
                         /\ current' = Target(n) =>
                              \/ OpenTail' \in {None, Junk} \cup ({global_seq + k - 1} \cap Readable')
                              \/ OpenTail' = OpenTail /\ Readable' = Readable
<1>2. /\ Sane /\ global_seq \in Nat /\ n \in Nat /\ file \in Seq(FileRow) /\ Writing
      /\ current \in Opt(DOMAIN file)
  BY InvSane
<1>3. PICK k \in 0..n : Piece(n, k, t.new, t.open)
  BY <1>2, TornPiece
<1>4. PICK new : new = t.new
  OBVIOUS
<1>5. PICK o \in BOOLEAN : new = t.new /\ o = t.open
  BY <1>3, <1>4 DEF Piece
<1>6. Piece(n, k, new, o) /\ Fresh(new) /\ file' = Written(n, new, o)
  BY <1>3, <1>5 DEF Piece
<1>7. PICK f : Puts(Target(n), f, new, o)
  BY <1>2, <1>6, WritePuts
<1>8. Stream!Reaches(k)
  BY <1>2, <1>6, <1>7, Reached
<1>9. CASE new # <<>>
  <2>1. current' = Target(n) => OpenTail' \in {None, Junk} \cup ({global_seq + k - 1} \cap Readable')
    BY <1>2, <1>6, <1>7, <1>9, TailAfter
  <2>2. QED
    BY <1>8, <2>1
<1>10. CASE new = <<>> /\ current' = Target(n)
  <2>1. PICK i : i = Target(n)
    OBVIOUS
  <2>2. Puts(i, f, new, o) /\ current' = i
    BY <1>7, <1>10, <2>1, Zenon
  <2>3. f \in FileRow /\ (f.open => f.lines # <<>>) /\ (needs_new_file(n) => ~f.open)
        /\ (~needs_new_file(n) => TailOf(f) = OpenTail)
    BY <1>7, TargetTail
  <2>4. PICK h : h = file'[i] /\ h = Extend(f, new, o)
    BY <2>2 DEF Puts
  <2>5. new \in Seq(Line)
    BY <1>6 DEF Fresh
  <2>6. h = f
    BY <1>10, <2>3, <2>4, <2>5, Extended
  <2>7. OpenTail' = TailOf(f)
    <3>1. current' # None
      BY <1>7, <1>10, TargetTurn
    <3>2. QED
      BY <2>2, <2>4, <2>6, <3>1, OpenTailNext
  <2>8. \A x : ~Joins(f, new, x) /\ ~Brings(f, new, x)
    BY <1>10 DEF Joins, Brings
  <2>9. Readable' = Readable
    <3>1. \A x : x \in Readable' <=> x \in Readable
      BY <1>2, <1>6, <2>2, <2>8, PutReadable
    <3>2. QED
      BY <3>1
  <2>10. OpenTail' = None \/ OpenTail' = OpenTail
    BY <2>3, <2>7, TailIsLine
  <2>11. QED
    BY <1>8, <2>9, <2>10
<1>11. QED
  BY <1>8, <1>9, <1>10

\* An append that fails burns its seqs.
LEMMA FailStep ==
  ASSUME Inv, NEW n \in ChunkSizes, with_chunk_err(n)
  PROVE  Stream!Fail(n)
<1>1. global_seq # None /\ FlushFails(n) /\ global_seq' = global_seq + n
  BY DEF with_chunk_err, Fits
<1>2. global_seq \in Nat /\ n \in Nat
  BY <1>1, InvSane
<1>3. CASE UNCHANGED <<file, current>>
  <2>1. Readable' = Readable /\ OpenTail' = OpenTail
    BY <1>3 DEF Readable, Parsed, OpenTail
  <2>2. QED
    BY <1>1, <2>1 DEF Stream!Fail
<1>4. CASE file' = file /\ current' = None
  <2>1. Readable' = Readable
    BY <1>4 DEF Readable, Parsed
  <2>2. OpenTail' = None
    BY <1>4, OpenTailNext
  <2>3. Stream!Reaches(0)
    <3>1. {global_seq + j : j \in 0..(0 - 1)} = {}
      OBVIOUS
    <3>2. QED
      BY <2>1, <3>1 DEF Stream!Reaches
  <2>4. 0 \in 0..n
    BY <1>2
  <2>5. Stream!Partial(n)
    BY <2>2, <2>3, <2>4 DEF Stream!Partial
  <2>6. QED
    BY <1>1, <2>5 DEF Stream!Fail
<1>5. ASSUME NEW t \in Torn(n), file' = Written(n, t.new, t.open), current' = Target(n) PROVE Stream!Fail(n)
  <2>1. PICK k \in 0..n :
          /\ Stream!Reaches(k)
          /\ \/ OpenTail' \in {None, Junk} \cup ({global_seq + k - 1} \cap Readable')
             \/ OpenTail' = OpenTail /\ Readable' = Readable
    BY <1>1, <1>5, TornReaches
  <2>2. Stream!Partial(n) \/ (OpenTail' = OpenTail /\ Readable' = Readable)
    BY <2>1 DEF Stream!Partial
  <2>3. QED
    BY <1>1, <2>2 DEF Stream!Fail
<1>6. QED
  BY <1>1, <1>3, <1>4, <1>5 DEF FlushFails

\* A crash, perhaps inside an append, stops the stream.
LEMMA StopStep ==
  ASSUME Inv, NEW n \in ChunkSizes, Crash(n)
  PROVE  Stream!Stop(n)
<1>1. global_seq # None /\ global_seq' = None /\ current' = None
  BY DEF Crash
<1>2. OpenTail' = None
  BY <1>1, OpenTailNext
<1>3. Readable' = Readable \/ \E k \in 0..n : Stream!Reaches(k)
  <2>1. CASE file' = file
    BY <2>1 DEF Readable, Parsed
  <2>2. ASSUME NEW t \in Torn(n), file' = Written(n, t.new, t.open) PROVE \E k \in 0..n : Stream!Reaches(k)
    BY <1>1, <2>2, TornReaches
  <2>3. QED
    BY <2>1, <2>2 DEF Crash
<1>4. QED
  BY <1>1, <1>2, <1>3 DEF Stream!Stop

\* Rotation, a new writer and a delivery.
LEMMA OtherSteps ==
  ASSUME Inv
  PROVE  /\ rotate => Stream!Rotate
         /\ WalWriter_new => Stream!Open
         /\ ImportAndResync => Stream!Deliver
<1>1. ASSUME rotate PROVE Stream!Rotate
  <2>1. Readable' = Readable /\ OpenTail' = None
    BY <1>1 DEF rotate, Readable, Parsed, OpenTail
  <2>2. QED
    BY <1>1, <2>1 DEF rotate, Stream!Rotate
<1>2. ASSUME WalWriter_new PROVE Stream!Open
  <2>1. Readable' = Readable /\ OpenTail' = OpenTail
    BY <1>2 DEF WalWriter_new, Readable, Parsed, OpenTail
  <2>2. /\ scan_max_seq \in Nat /\ \A x \in Readable : x \in Nat /\ x < scan_max_seq
        /\ scan_max_seq = 0 \/ scan_max_seq - 1 \in Readable
    BY InvSane, ScanMax
  <2>3. QED
    BY <1>2, <2>1, <2>2 DEF WalWriter_new, Stream!Open
<1>3. ASSUME ImportAndResync PROVE Stream!Deliver
  <2>1. global_seq # None /\ global_seq' = global_seq + 1 /\ current' = current
    BY <1>3 DEF ImportAndResync
  <2>2. Sane /\ global_seq \in Nat /\ current \in Opt(DOMAIN file)
    BY <2>1, InvSane
  <2>3. PICK i, new : \E o \in BOOLEAN :
           /\ i = Len(file) + 1 /\ new = <<global_seq>> /\ Puts(i, EmptyFile, new, o) /\ Fresh(new) /\ Len(new) = 1
           /\ file'[i] \in FileRow /\ ~file'[i].open /\ Len(file'[i].lines) = 1
    BY <1>3, DeliveredFile
  <2>4. PICK o \in BOOLEAN : i = Len(file) + 1 /\ new = <<global_seq>> /\ Puts(i, EmptyFile, new, o) /\ Fresh(new)
    BY <2>3
  <2>5. i \notin DOMAIN file
    BY <2>2, <2>4 DEF Sane
  <2>6. OpenTail' = OpenTail
    BY <2>1, <2>2, <2>4, <2>5 DEF OpenTail, Opt, Puts
  <2>7. \A x : ~Joins(EmptyFile, new, x)
    BY NewFile DEF Joins
  <2>8. \A x : Brings(EmptyFile, new, x) <=> x = global_seq
    <3>1. DOMAIN new = {1} /\ new[1] = global_seq /\ global_seq # Junk
      BY <2>2, <2>4
    <3>2. QED
      BY <3>1, NewFile DEF Brings
  <2>9. \A x : x \in Readable' <=> (x \in Readable /\ ~Joins(EmptyFile, new, x)) \/ Brings(EmptyFile, new, x)
    BY <2>2, <2>4, PutReadable
  <2>10. Readable' = Readable \cup {global_seq}
    BY <2>7, <2>8, <2>9
  <2>11. QED
    BY <2>1, <2>6, <2>10 DEF Stream!Deliver
<1>4. QED
  BY <1>1, <1>2, <1>3

\* A reader's step is none of the stream's.
LEMMA ReaderStep ==
  ASSUME UNCHANGED Keep
  PROVE  UNCHANGED Stream!vars
<1>1. UNCHANGED <<file, global_seq, current>>
  BY DEF Keep, writerVars
<1>2. Readable' = Readable /\ OpenTail' = OpenTail
  BY <1>1 DEF Readable, Parsed, OpenTail
<1>3. QED
  BY <1>1, <1>2 DEF Stream!vars

\* The directory implements the numbered stream the rest of the service takes it for:
\* files, rotation, torn appends, crashes, new writers and deliveries (wal.rs) lose a line
\* only with the unterminated tail it is joined to, and give no seq twice.
THEOREM DirectoryIsStream == Spec => ImplementsStream
<1>1. Init => Stream!Init
  <2> SUFFICES ASSUME Init PROVE Stream!Init
    OBVIOUS
  <2>1. DOMAIN file = {}
    BY DEF Init
  <2>2. Readable = {} /\ OpenTail = None /\ global_seq = None
    BY <2>1 DEF Init, Readable, OpenTail
  <2>3. QED
    BY <2>2 DEF Stream!Init
<1>2. Inv /\ [Next]_vars => [Stream!Next]_(Stream!vars)
  <2> SUFFICES ASSUME Inv, [Next]_vars PROVE [Stream!Next]_(Stream!vars)
    OBVIOUS
  <2>1. ASSUME NEW n \in ChunkSizes, with_chunk(n) \/ with_chunk_err(n) \/ Crash(n) PROVE Stream!Next
    BY <2>1, AppendStep, FailStep, StopStep DEF Stream!Next
  <2>2. CASE rotate \/ WalWriter_new \/ ImportAndResync
    BY <2>2, OtherSteps DEF Stream!Next
  <2>3. ASSUME NEW r \in Readers,
               \/ \E op \in {"max", "min"} : ReadManifest(r, op)
               \/ ListDir(r) \/ StatMax(r) \/ StatMin(r) \/ ReRead(r)
               \/ ScanRead(r) \/ ScanStat(r) \/ ScanFirst(r) \/ ScanDone(r)
               \/ WriteManifest(r) \/ Answer(r)
        PROVE  UNCHANGED Keep
    BY <2>3 DEF ReadManifest, ListDir, StatMax, StatMin, ReRead, ScanRead, ScanStat, ScanFirst, ScanDone,
                WriteManifest, Answer, Update
  <2>4. CASE UNCHANGED vars
    <3>1. UNCHANGED Keep
      BY <2>4 DEF vars, Keep
    <3>2. QED
      BY <3>1, ReaderStep
  <2>5. QED
    BY <2>1, <2>2, <2>3, <2>4, ReaderStep DEF Next
<1>3. QED
  BY <1>1, <1>2, Invariant, PTL DEF Spec, ImplementsStream, Stream!Spec

-----------------------------------------------------------------------------
(* wal_max_seq and wal_min_seq answer with the directory's true bounds,    *)
(* for every number of readers, files and chunks: the manifest they share  *)
(* may be older than the directory and written by a slower call, and still *)
(* describes the files it was taken from.                                  *)
(*                                                                         *)
(* The argument: while no append failed and nothing was delivered, only    *)
(* the last file grows, and only while it is the writer's. Cached bounds   *)
(* taken of as many files as there are name the file whose seq bounds the  *)
(* log; its size, which an append makes larger, tells whether the cached   *)
(* seq is still its last. A scan that is under way has that of the files   *)
(* it has visited.                                                         *)

Quiet == fails = 0 /\ imports = 0 /\ ~raced

\* A directory F whose lines are in order, within a file and from file to file.
Lined(F) ==
    /\ F \in Seq(FileRow) /\ \A i \in DOMAIN F : Rising(F[i].lines)
    /\ \A i, j \in DOMAIN F : \A k \in Parsed(F[i]), l \in Parsed(F[j]) :
         i < j => F[i].lines[k] < F[j].lines[l]

Has(F, i) == Parsed(F[i]) # {}
LastIn(F, i) == read_last_seq(F[i])
FirstIn(F, i) == first_seq_in_file(F[i])

\* The writer's file ends with a line that can be read.
Full == current # None => Has(file, current) /\ ~file[current].open

\* The highest seq in the files D, and the lowest.
Highest(F, D, v) ==
    /\ v = None => \A j \in D : ~Has(F, j)
    /\ v # None => \E i \in D : Has(F, i) /\ (\A j \in D : j > i => ~Has(F, j)) /\ v = LastIn(F, i)
Lowest(F, D, v) ==
    /\ v = None => \A j \in D : ~Has(F, j)
    /\ v # None => \E i \in D : Has(F, i) /\ (\A j \in D : j < i => ~Has(F, j)) /\ v = FirstIn(F, i)

\* The upper bound of the files D, taken when its file was no larger than now.
Newest(F, b, D) ==
    /\ b.max = None => \A j \in D : ~Has(F, j)
    /\ b.max # None =>
         /\ b.maxFile \in D /\ Has(F, b.maxFile) /\ \A j \in D : j > b.maxFile => ~Has(F, j)
         /\ FirstIn(F, b.maxFile) <= b.max /\ b.max <= LastIn(F, b.maxFile)
         /\ b.maxSize <= F[b.maxFile].size
         /\ b.maxSize = F[b.maxFile].size => b.max = LastIn(F, b.maxFile)

\* Their lower bound, which no append changes.
Oldest(F, b, D) ==
    /\ b.min = None => \A j \in D : ~Has(F, j)
    /\ b.min # None =>
         /\ b.minFile \in D /\ Has(F, b.minFile) /\ \A j \in D : j < b.minFile => ~Has(F, j)
         /\ b.min = FirstIn(F, b.minFile) /\ b.minSize <= F[b.minFile].size

\* Bounds taken of an earlier, smaller set of files say nothing.
Valid(F, b) == b.fp <= Len(F) /\ (b.fp = Len(F) => Newest(F, b, DOMAIN F) /\ Oldest(F, b, DOMAIN F))

Scanning == {"scan_read", "scan_stat", "scan_first"}
Visited(F, k) == (DOMAIN F \ k.todo) \cup (IF k.pc = "scan_first" THEN {k.i} ELSE {})

\* What a scan has found of the files it has visited.
Found(F, k) ==
    /\ k.best.fp <= Len(F)
    /\ k.pc \in {"scan_stat", "scan_first"} => k.i \in k.todo
    /\ k.best.fp = Len(F) =>
         /\ Newest(F, k.best, Visited(F, k)) /\ Oldest(F, k.best, DOMAIN F \ k.todo)
         /\ k.pc = "scan_stat" => k.seq = LastIn(F, k.i) /\ (k.best.max = None \/ k.seq > k.best.max)

\* What a call that no writer step overlapped knows.
Undisturbed(F, k) ==
    /\ k.pc \in {"stat", "reread"} => k.m.fp = Len(F)
    /\ k.pc \in Scanning =>
         k.best.fp = Len(F) /\ (k.best.max # None => k.best.max = LastIn(F, k.best.maxFile))
    /\ k.pc \in {"write", "done"} =>
         IF k.op = "max" THEN Highest(F, DOMAIN F, k.ret) ELSE Lowest(F, DOMAIN F, k.ret)

Tracks(F, k) ==
    /\ k.m # None => Valid(F, k.m)
    /\ k.pc = "reread" => k.op = "max" /\ k.size <= F[k.m.maxFile].size
    /\ k.pc \in Scanning => Found(F, k)
    /\ k.pc = "write" => Valid(F, k.best)
    /\ k.clean => Undisturbed(F, k)

BoundsInv ==
    Quiet => /\ Full
             /\ manifest # None => Valid(file, manifest)
             /\ \A r \in Readers : rd[r] # None => Tracks(file, rd[r])

USE WalFilesAssumption

-----------------------------------------------------------------------------
(* Directories that are in order.                                          *)

\* While nothing was delivered, the directory is one.
LEMMA InvLined ==
  ASSUME Inv, imports = 0
  PROVE  Lined(file)
  BY InvSane DEF Inv, InOrder, InTurn, Lined

\* The ends of its files.
LEMMA LinedEnds ==
  ASSUME NEW F, Lined(F), NEW i \in DOMAIN F, Has(F, i)
  PROVE  /\ FirstIn(F, i) \in Nat /\ LastIn(F, i) \in Nat /\ FirstIn(F, i) <= LastIn(F, i)
         /\ \A j \in DOMAIN F : (Has(F, j) /\ i < j) => LastIn(F, i) < FirstIn(F, j)
<1>1. \A j \in DOMAIN F : F[j] \in FileRow /\ Rising(F[j].lines)
  BY DEF Lined
<1>2. ASSUME NEW j \in DOMAIN F, Has(F, j)
      PROVE  /\ \E k \in Parsed(F[j]) : LastIn(F, j) = F[j].lines[k]
             /\ \E k \in Parsed(F[j]) : FirstIn(F, j) = F[j].lines[k]
             /\ \A k \in Parsed(F[j]) : F[j].lines[k] <= LastIn(F, j) /\ FirstIn(F, j) <= F[j].lines[k]
             /\ LastIn(F, j) \in Nat /\ FirstIn(F, j) \in Nat
  <2>1. PICK f \in FileRow : f = F[j]
    BY <1>1
  <2>2. QED
    BY <1>1, <1>2, <2>1, Ends DEF Has, LastIn, FirstIn
<1>3. FirstIn(F, i) <= LastIn(F, i)
  BY <1>2
<1>4. ASSUME NEW j \in DOMAIN F, Has(F, j), i < j PROVE LastIn(F, i) < FirstIn(F, j)
  <2>1. PICK k \in Parsed(F[i]) : LastIn(F, i) = F[i].lines[k]
    BY <1>2
  <2>2. PICK l \in Parsed(F[j]) : FirstIn(F, j) = F[j].lines[l]
    BY <1>2, <1>4
  <2>3. QED
    BY <1>4, <2>1, <2>2 DEF Lined
<1>5. QED
  BY <1>2, <1>3, <1>4

\* The highest and the lowest seq of all files are the bounds of the log.
LEMMA TrueBounds ==
  ASSUME Inv, imports = 0, NEW v \in Opt(Nat)
  PROVE  /\ Highest(file, DOMAIN file, v) => v = TrueMax
         /\ Lowest(file, DOMAIN file, v) => v = TrueMin
<1>1. Lined(file)
  BY InvLined
<1>2. \A j \in DOMAIN file : file[j] \in FileRow /\ Rising(file[j].lines) /\ j \in Nat
  BY <1>1 DEF Lined
<1>3. Readable \in SUBSET Nat
  BY <1>2, InReadable, ParsedLines
<1>4. (\A j \in DOMAIN file : ~Has(file, j)) => Readable = {}
  BY InReadable DEF Has
<1>5. \A S \in SUBSET Nat : \A m \in S : (\A x \in S : x <= m) => Last(S) = m
  <2> SUFFICES ASSUME NEW S \in SUBSET Nat, NEW m \in S, \A x \in S : x <= m PROVE Last(S) = m
    OBVIOUS
  <2>1. PICK l : l = Last(S) /\ l \in S /\ \A x \in S : x <= l
    BY DEF Last
  <2>2. m <= l /\ l <= m /\ m \in Nat /\ l \in Nat
    BY <2>1
  <2>3. QED
    BY <2>1, <2>2
<1>6. \A S \in SUBSET Nat : \A m \in S : (\A x \in S : m <= x) => First(S) = m
  <2> SUFFICES ASSUME NEW S \in SUBSET Nat, NEW m \in S, \A x \in S : m <= x PROVE First(S) = m
    OBVIOUS
  <2>1. PICK l : l = First(S) /\ l \in S /\ \A x \in S : l <= x
    BY DEF First
  <2>2. m <= l /\ l <= m /\ m \in Nat /\ l \in Nat
    BY <2>1
  <2>3. QED
    BY <2>1, <2>2
<1>7. ASSUME NEW i \in DOMAIN file, Has(file, i)
      PROVE  /\ LastIn(file, i) \in Readable /\ FirstIn(file, i) \in Readable
             /\ \A k \in Parsed(file[i]) : file[i].lines[k] <= LastIn(file, i) /\ FirstIn(file, i) <= file[i].lines[k]
  <2>1. PICK f \in FileRow : f = file[i] /\ Rising(f.lines) /\ Parsed(f) # {}
    BY <1>2, <1>7 DEF Has
  <2>2. /\ \E k \in Parsed(f) : read_last_seq(f) = f.lines[k]
        /\ \E k \in Parsed(f) : first_seq_in_file(f) = f.lines[k]
        /\ \A k \in Parsed(f) : f.lines[k] <= read_last_seq(f) /\ first_seq_in_file(f) <= f.lines[k]
    BY <2>1, Ends
  <2>3. QED
    BY <2>1, <2>2, InReadable DEF LastIn, FirstIn
<1>8. \A x \in Readable : \E j \in DOMAIN file : Has(file, j) /\ x <= LastIn(file, j) /\ FirstIn(file, j) <= x
  <2> SUFFICES ASSUME NEW x \in Readable
               PROVE  \E j \in DOMAIN file : Has(file, j) /\ x <= LastIn(file, j) /\ FirstIn(file, j) <= x
    OBVIOUS
  <2>1. PICK j \in DOMAIN file : \E k \in Parsed(file[j]) : x = file[j].lines[k]
    BY InReadable
  <2>2. Has(file, j)
    BY <2>1 DEF Has
  <2>3. QED
    BY <1>7, <2>1, <2>2
<1>9. ASSUME NEW i \in DOMAIN file, Has(file, i), \A j \in DOMAIN file : j > i => ~Has(file, j)
      PROVE  \A x \in Readable : x <= LastIn(file, i)
  <2> SUFFICES ASSUME NEW x \in Readable PROVE x <= LastIn(file, i)
    OBVIOUS
  <2>1. PICK j \in DOMAIN file : Has(file, j) /\ x <= LastIn(file, j)
    BY <1>8
  <2>2. j < i \/ j = i
    BY <1>2, <1>9, <2>1
  <2>3. x \in Nat /\ LastIn(file, j) \in Nat /\ LastIn(file, i) \in Nat /\ FirstIn(file, i) \in Nat
        /\ FirstIn(file, i) <= LastIn(file, i)
    BY <1>1, <1>3, <1>9, <2>1, LinedEnds
  <2>4. j < i => LastIn(file, j) < FirstIn(file, i)
    BY <1>1, <1>9, <2>1, LinedEnds
  <2>5. QED
    BY <2>1, <2>2, <2>3, <2>4
<1>10. ASSUME NEW i \in DOMAIN file, Has(file, i), \A j \in DOMAIN file : j < i => ~Has(file, j)
      PROVE  \A x \in Readable : FirstIn(file, i) <= x
  <2> SUFFICES ASSUME NEW x \in Readable PROVE FirstIn(file, i) <= x
    OBVIOUS
  <2>1. PICK j \in DOMAIN file : Has(file, j) /\ FirstIn(file, j) <= x
    BY <1>8
  <2>2. i < j \/ j = i
    BY <1>2, <1>10, <2>1
  <2>3. x \in Nat /\ FirstIn(file, j) \in Nat /\ LastIn(file, i) \in Nat /\ FirstIn(file, i) \in Nat
        /\ FirstIn(file, i) <= LastIn(file, i)
    BY <1>1, <1>3, <1>10, <2>1, LinedEnds
  <2>4. i < j => LastIn(file, i) < FirstIn(file, j)
    BY <1>1, <1>10, <2>1, LinedEnds
  <2>5. QED
    BY <2>1, <2>2, <2>3, <2>4
<1>11. ASSUME Highest(file, DOMAIN file, v) PROVE v = TrueMax
  <2>1. CASE v = None
    BY <1>4, <1>11, <2>1 DEF Highest, TrueMax
  <2>2. CASE v # None
    <3>1. PICK i \in DOMAIN file : Has(file, i) /\ (\A j \in DOMAIN file : j > i => ~Has(file, j)) /\ v = LastIn(file, i)
      BY <1>11, <2>2 DEF Highest
    <3>2. v \in Readable /\ \A x \in Readable : x <= v
      BY <1>7, <1>9, <3>1
    <3>3. QED
      BY <1>3, <1>5, <3>2 DEF TrueMax
  <2>3. QED
    BY <2>1, <2>2
<1>12. ASSUME Lowest(file, DOMAIN file, v) PROVE v = TrueMin
  <2>1. CASE v = None
    BY <1>4, <1>12, <2>1 DEF Lowest, TrueMin
  <2>2. CASE v # None
    <3>1. PICK i \in DOMAIN file : Has(file, i) /\ (\A j \in DOMAIN file : j < i => ~Has(file, j)) /\ v = FirstIn(file, i)
      BY <1>12, <2>2 DEF Lowest
    <3>2. v \in Readable /\ \A x \in Readable : v <= x
      BY <1>7, <1>10, <3>1
    <3>3. QED
      BY <1>3, <1>6, <3>2 DEF TrueMin
  <2>3. QED
    BY <2>1, <2>2
<1>13. QED
  BY <1>11, <1>12

-----------------------------------------------------------------------------
(* A directory that grows at its end.                                      *)

\* The file is as it was, or more of it can be read.
Like(f, h) ==
    \/ h = f
    \/ /\ Parsed(f) # {} /\ Parsed(h) # {} /\ h.size > f.size
       /\ first_seq_in_file(h) = first_seq_in_file(f) /\ read_last_seq(f) <= read_last_seq(h)
Grown(F, G) ==
    /\ DOMAIN F \subseteq DOMAIN G /\ Len(F) <= Len(G)
    /\ \A j \in DOMAIN F : Like(F[j], G[j])

\* A write to a file that ends with a readable line.
LEMMA LikeWritten ==
  ASSUME NEW f \in FileRow, ~f.open, Parsed(f) # {}, Rising(f.lines), NEW new \in Seq(Line), NEW o \in BOOLEAN,
         NEW h, h = Extend(f, new, o), Rising(h.lines)
  PROVE  Like(f, h)
<1>1. CASE new = <<>>
  BY <1>1, Extended DEF Like
<1>2. CASE new # <<>>
  <2>1. h \in FileRow /\ h.size > f.size
    BY <1>2, Extended
  <2>2. /\ \A k \in Parsed(h) : Kept(f, h, k) \/ Came(f, new, h, k)
        /\ \A k \in Parsed(f) : k \in Parsed(h) /\ h.lines[k] = f.lines[k]
    BY <1>2, WrittenLines
  <2>3. PICK e \in Parsed(f) : first_seq_in_file(f) = f.lines[e]
    BY Ends
  <2>4. PICK l \in Parsed(f) : read_last_seq(f) = f.lines[l]
    BY Ends
  <2>5. Parsed(h) # {} /\ e \in Parsed(h) /\ l \in Parsed(h) /\ h.lines[e] = f.lines[e] /\ h.lines[l] = f.lines[l]
    BY <2>2
  <2>6. PICK d \in Parsed(h) : first_seq_in_file(h) = h.lines[d]
    BY <2>1, <2>5, Ends
  <2>7. /\ \A k \in Parsed(h) : h.lines[k] <= read_last_seq(h) /\ first_seq_in_file(h) <= h.lines[k]
        /\ \A k \in Parsed(f) : first_seq_in_file(f) <= f.lines[k]
        /\ first_seq_in_file(h) \in Nat /\ first_seq_in_file(f) \in Nat
    BY <2>1, <2>5, Ends
  <2>8. read_last_seq(f) <= read_last_seq(h) /\ first_seq_in_file(h) <= first_seq_in_file(f)
    BY <2>3, <2>4, <2>5, <2>7
  <2>9. first_seq_in_file(f) <= first_seq_in_file(h)
    <3>1. CASE Kept(f, h, d)
      BY <2>6, <2>7, <3>1 DEF Kept
    <3>2. CASE Came(f, new, h, d)
      <4>1. PICK n \in Nat, q \in Seq(Line) : q = f.lines /\ n = Len(q) /\ DOMAIN q = 1..n
        BY DEF FileRow
      <4>2. e \in 1..n
        BY <4>1 DEF Parsed
      <4>3. d > n /\ d \in DOMAIN h.lines /\ e \in DOMAIN h.lines /\ d \in Nat
        <5>1. d > n
          BY <3>2, <4>1 DEF Came
        <5>2. \A k \in Parsed(h) : k \in DOMAIN h.lines /\ k \in Nat
          BY <2>1, ParsedLines
        <5>3. QED
          BY <2>5, <2>6, <5>1, <5>2
      <4>4. h.lines[d] # Junk /\ h.lines[e] # Junk
        BY <2>5, <2>6 DEF Parsed
      <4>5. e < d
        BY <4>1, <4>2, <4>3
      <4>6. h.lines[e] < h.lines[d]
        BY <4>3, <4>4, <4>5 DEF Rising
      <4>7. QED
        BY <2>3, <2>5, <2>6, <2>7, <4>6
    <3>3. QED
      BY <2>2, <2>6, <3>1, <3>2
  <2>10. first_seq_in_file(h) = first_seq_in_file(f)
    BY <2>7, <2>8, <2>9
  <2>11. QED
    BY <2>1, <2>5, <2>8, <2>10 DEF Like
<1>3. QED
  BY <1>1, <1>2

\* What a file that grew has.
LEMMA GrownFile ==
  ASSUME NEW F, NEW G, Lined(F), Lined(G), Grown(F, G), NEW j \in DOMAIN F
  PROVE  /\ j \in DOMAIN G /\ (Has(F, j) <=> Has(G, j))
         /\ F[j].size \in Nat /\ G[j].size \in Nat /\ F[j].size <= G[j].size
         /\ F[j].size = G[j].size => G[j] = F[j]
         /\ Has(F, j) => /\ FirstIn(G, j) = FirstIn(F, j) /\ LastIn(F, j) <= LastIn(G, j)
                         /\ FirstIn(F, j) \in Nat /\ LastIn(F, j) \in Nat /\ LastIn(G, j) \in Nat
<1>1. j \in DOMAIN G /\ Like(F[j], G[j]) /\ F[j] \in FileRow /\ G[j] \in FileRow
  BY DEF Grown, Lined
<1>2. F[j].size \in Nat /\ G[j].size \in Nat
  BY <1>1 DEF FileRow
<1>3. Has(F, j) => FirstIn(F, j) \in Nat /\ LastIn(F, j) \in Nat
  BY LinedEnds
<1>4. Has(G, j) => LastIn(G, j) \in Nat
  BY <1>1, LinedEnds
<1>5. CASE G[j] = F[j]
  BY <1>1, <1>2, <1>3, <1>5 DEF Has, FirstIn, LastIn
<1>6. CASE G[j] # F[j]
  BY <1>1, <1>2, <1>3, <1>4, <1>6 DEF Has, FirstIn, LastIn, Like
<1>7. QED
  BY <1>5, <1>6

\* Bounds of some of the files stay bounds of them.
LEMMA BoundsKept ==
  ASSUME NEW F, NEW G, Lined(F), Lined(G), Grown(F, G), NEW D \in SUBSET (DOMAIN F), NEW b \in Bounds
  PROVE  /\ Newest(F, b, D) => Newest(G, b, D)
         /\ Oldest(F, b, D) => Oldest(G, b, D)
<1>1. b.max \in Opt(Nat) /\ b.min \in Opt(Nat) /\ b.maxSize \in Nat /\ b.minSize \in Nat
  BY DEF Bounds
<1>2. \A j \in D : Has(F, j) <=> Has(G, j)
  BY GrownFile
<1>3. ASSUME Newest(F, b, D) PROVE Newest(G, b, D)
  <2>1. CASE b.max = None
    BY <1>2, <1>3, <2>1 DEF Newest
  <2>2. CASE b.max # None
    <3>1. PICK i \in D : i = b.maxFile
      BY <1>3, <2>2 DEF Newest
    <3>2. /\ Has(F, i) /\ \A j \in D : j > i => ~Has(F, j)
          /\ FirstIn(F, i) <= b.max /\ b.max <= LastIn(F, i)
          /\ b.maxSize <= F[i].size
          /\ b.maxSize = F[i].size => b.max = LastIn(F, i)
      BY <1>3, <2>2, <3>1 DEF Newest
    <3>3. /\ F[i].size \in Nat /\ G[i].size \in Nat /\ F[i].size <= G[i].size
          /\ F[i].size = G[i].size => G[i] = F[i]
          /\ FirstIn(G, i) = FirstIn(F, i) /\ LastIn(F, i) <= LastIn(G, i)
          /\ FirstIn(F, i) \in Nat /\ LastIn(F, i) \in Nat /\ LastIn(G, i) \in Nat
      BY <3>2, GrownFile
    <3>4. b.max \in Nat
      BY <1>1, <2>2 DEF Opt
    <3>5. Has(G, i) /\ (\A j \in D : j > i => ~Has(G, j)) /\ FirstIn(G, i) <= b.max /\ b.max <= LastIn(G, i)
          /\ b.maxSize <= G[i].size
      BY <1>1, <1>2, <3>2, <3>3, <3>4
    <3>6. ASSUME b.maxSize = G[i].size PROVE b.max = LastIn(G, i)
      <4>1. F[i].size = G[i].size
        BY <1>1, <3>2, <3>3, <3>6
      <4>2. G[i] = F[i]
        BY <3>3, <4>1
      <4>3. QED
        BY <3>2, <3>6, <4>2 DEF LastIn
    <3>7. QED
      BY <2>2, <3>1, <3>5, <3>6 DEF Newest
  <2>3. QED
    BY <2>1, <2>2
<1>4. ASSUME Oldest(F, b, D) PROVE Oldest(G, b, D)
  <2>1. CASE b.min = None
    BY <1>2, <1>4, <2>1 DEF Oldest
  <2>2. CASE b.min # None
    <3>1. PICK i \in D : i = b.minFile
      BY <1>4, <2>2 DEF Oldest
    <3>2. /\ Has(F, i) /\ \A j \in D : j < i => ~Has(F, j)
          /\ b.min = FirstIn(F, i) /\ b.minSize <= F[i].size
      BY <1>4, <2>2, <3>1 DEF Oldest
    <3>3. /\ F[i].size \in Nat /\ G[i].size \in Nat /\ F[i].size <= G[i].size
          /\ FirstIn(G, i) = FirstIn(F, i)
      BY <3>2, GrownFile
    <3>4. Has(G, i) /\ (\A j \in D : j < i => ~Has(G, j)) /\ b.min = FirstIn(G, i) /\ b.minSize <= G[i].size
      BY <1>1, <1>2, <3>2, <3>3
    <3>5. QED
      BY <2>2, <3>1, <3>4 DEF Oldest
  <2>3. QED
    BY <2>1, <2>2
<1>5. QED
  BY <1>3, <1>4

\* The number of files, and their indices.
LEMMA Indices ==
  ASSUME NEW F, Lined(F)
  PROVE  Len(F) \in Nat /\ DOMAIN F = 1..Len(F)
  BY DEF Lined

\* Cached bounds stay valid.
LEMMA ValidKept ==
  ASSUME NEW F, NEW G, Lined(F), Lined(G), Grown(F, G), NEW b \in Bounds, Valid(F, b)
  PROVE  Valid(G, b)
<1>1. Len(F) \in Nat /\ DOMAIN F = 1..Len(F) /\ Len(G) \in Nat /\ DOMAIN G = 1..Len(G) /\ b.fp \in Nat
  BY Indices DEF Bounds
<1>2. b.fp <= Len(F) /\ Len(F) <= Len(G)
  BY DEF Valid, Grown
<1>3. b.fp <= Len(G)
  BY <1>1, <1>2
<1>4. CASE b.fp = Len(G)
  <2>a. \A x, y, z \in Nat : (x <= y /\ y <= z /\ x = z) => y = z /\ x = y
    OBVIOUS
  <2>1. Len(F) = Len(G) /\ b.fp = Len(F)
    BY <1>1, <1>2, <1>4, <2>a
  <2>2. PICK D \in SUBSET (DOMAIN F) : D = DOMAIN F /\ D = DOMAIN G
    BY <1>1, <2>1
  <2>3. Newest(F, b, D) /\ Oldest(F, b, D)
    BY <2>1, <2>2 DEF Valid
  <2>4. Newest(G, b, D) /\ Oldest(G, b, D)
    BY <2>3, BoundsKept
  <2>5. QED
    BY <1>3, <2>2, <2>4 DEF Valid
<1>5. QED
  BY <1>3, <1>4 DEF Valid

\* So does what a scan has found, if no append falls between its read of a file and its stat.
LEMMA FoundKept ==
  ASSUME NEW F, NEW G, Lined(F), Lined(G), Grown(F, G), NEW k \in Call, k.todo \subseteq DOMAIN F,
         k.pc = "scan_stat" => G[k.i] = F[k.i], Found(F, k)
  PROVE  Found(G, k)
<1>1. Len(F) \in Nat /\ DOMAIN F = 1..Len(F) /\ Len(G) \in Nat /\ DOMAIN G = 1..Len(G)
  BY Indices
<1>2. k.best \in Bounds /\ k.best.fp \in Nat
  BY DEF Call, Bounds
<1>3. k.best.fp <= Len(F) /\ Len(F) <= Len(G) /\ (k.pc \in {"scan_stat", "scan_first"} => k.i \in k.todo)
  BY DEF Found, Grown
<1>4. k.best.fp <= Len(G)
  BY <1>1, <1>2, <1>3
<1>5. CASE k.best.fp = Len(G)
  <2>a. \A x, y, z \in Nat : (x <= y /\ y <= z /\ x = z) => y = z /\ x = y
    OBVIOUS
  <2>b. k.best.fp = Len(F) /\ Len(F) = Len(G)
    BY <1>1, <1>2, <1>3, <1>5, <2>a
  <2>1. k.best.fp = Len(F) /\ DOMAIN G = DOMAIN F
    BY <1>1, <2>b
  <2>2. PICK D \in SUBSET (DOMAIN F) : D = Visited(F, k) /\ D = Visited(G, k)
    BY <1>3, <2>1 DEF Visited
  <2>3. PICK E \in SUBSET (DOMAIN F) : E = DOMAIN F \ k.todo /\ E = DOMAIN G \ k.todo
    BY <2>1
  <2>4. Newest(F, k.best, D) /\ Oldest(F, k.best, E)
    BY <2>1, <2>2, <2>3 DEF Found
  <2>5. Newest(G, k.best, D) /\ Oldest(G, k.best, E)
    BY <1>2, <2>4, BoundsKept
  <2>6. k.pc = "scan_stat" => k.seq = LastIn(G, k.i) /\ (k.best.max = None \/ k.seq > k.best.max)
    BY <2>1 DEF Found, LastIn
  <2>7. QED
    BY <1>3, <1>4, <2>2, <2>3, <2>5, <2>6 DEF Found
<1>6. QED
  BY <1>3, <1>4, <1>5 DEF Found

\* And a call that the writer overtakes.
LEMMA TracksKept ==
  ASSUME NEW F, NEW G, Lined(F), Lined(G), Grown(F, G), NEW k \in Call, k.todo \subseteq DOMAIN F,
         k.pc = "scan_stat" => G[k.i] = F[k.i], Tracks(F, k),
         k.pc = "reread" => k.m # None /\ k.m.maxFile \in DOMAIN F,
         NEW c, c = [k EXCEPT !.clean = FALSE]
  PROVE  Tracks(G, c)
<1>1. /\ c \in Call /\ c.m = k.m /\ c.best = k.best /\ c.todo = k.todo /\ c.pc = k.pc /\ c.i = k.i /\ c.seq = k.seq
      /\ c.op = k.op /\ c.size = k.size /\ c.clean = FALSE
  BY DEF Call
<1>2. k.m # None => Valid(G, k.m)
  BY ValidKept DEF Tracks, Call, Opt
<1>3. k.pc = "reread" => k.op = "max" /\ k.size <= G[k.m.maxFile].size
  <2> SUFFICES ASSUME k.pc = "reread" PROVE k.op = "max" /\ k.size <= G[k.m.maxFile].size
    OBVIOUS
  <2>1. PICK i \in DOMAIN F : i = k.m.maxFile
    OBVIOUS
  <2>2. F[i].size \in Nat /\ G[i].size \in Nat /\ F[i].size <= G[i].size /\ k.size \in Nat
    BY GrownFile DEF Call
  <2>3. QED
    BY <2>1, <2>2 DEF Tracks
<1>4. k.pc \in Scanning => Found(G, k)
  BY FoundKept DEF Tracks
<1>5. k.pc = "write" => Valid(G, k.best)
  BY ValidKept DEF Tracks, Call
<1>6. Found(G, k) => Found(G, c)
  <2>1. Visited(G, c) = Visited(G, k)
    BY <1>1 DEF Visited
  <2>2. QED
    BY <1>1, <2>1 DEF Found
<1>7. QED
  BY <1>1, <1>2, <1>3, <1>4, <1>5, <1>6 DEF Tracks

-----------------------------------------------------------------------------
(* The writer's steps.                                                     *)

\* The directory after a step is in order too.
LEMMA InvLinedNext ==
  ASSUME Inv', imports' = 0
  PROVE  Lined(file')
  BY DEF Inv, TypeOK, FileRow, Line, InOrder, InTurn, Lined

\* A write makes the directory grow at its end.
LEMMA WriteGrows ==
  ASSUME Inv, Inv', imports = 0, imports' = 0, Full, global_seq # None, NEW n \in ChunkSizes,
         NEW new, Fresh(new), NEW o \in BOOLEAN, file' = Written(n, new, o)
  PROVE  /\ Lined(file) /\ Lined(file') /\ Grown(file, file')
         /\ \A j \in DOMAIN file : j # Target(n) => file'[j] = file[j]
         /\ Target(n) \in DOMAIN file'
         /\ (new # <<>> /\ new[1] # Junk /\ ~o) => Has(file', Target(n)) /\ ~file'[Target(n)].open
<1>1. Lined(file) /\ Lined(file')
  BY InvLined, InvLinedNext
<1>2. file \in Seq(FileRow) /\ Writing /\ current \in Opt(DOMAIN file) /\ Sane
  BY InvSane
<1>3. PICK f : Puts(Target(n), f, new, o)
  BY <1>2, WritePuts
<1>4. /\ Target(n) = IF needs_new_file(n) THEN Len(file) + 1 ELSE current
      /\ ~needs_new_file(n) => current \in DOMAIN file
  BY <1>2, WritePuts
<1>5. Target(n) \in DOMAIN file' /\ DOMAIN file \subseteq DOMAIN file'
  BY <1>3, TargetTurn
<1>6. \A j \in DOMAIN file : j # Target(n) => file'[j] = file[j]
  BY <1>3 DEF Puts
<1>7. new \in Seq(Line)
  BY DEF Fresh
<1>8. PICK h : h = file'[Target(n)] /\ h = Extend(f, new, o) /\ h \in FileRow /\ Rising(h.lines)
  <2>1. file'[Target(n)] \in FileRow /\ Rising(file'[Target(n)].lines)
    BY <1>1, <1>5 DEF Lined
  <2>2. QED
    BY <1>3, <2>1 DEF Puts
<1>11. (\A j \in DOMAIN file : Like(file[j], file'[j])) /\ ~f.open /\ f \in FileRow
  <2>1. CASE needs_new_file(n)
    <3>1. Target(n) \notin DOMAIN file
      BY <1>1, <1>4, <2>1, Indices
    <3>2. f = EmptyFile
      BY <1>3, <3>1 DEF Puts
    <3>3. QED
      BY <1>6, <3>1, <3>2, NewFile DEF Like
  <2>2. CASE ~needs_new_file(n)
    <3>1. current # None /\ current \in DOMAIN file /\ Target(n) = current
      BY <1>4, <2>2 DEF needs_new_file
    <3>2. f = file[current]
      BY <1>3, <3>1 DEF Puts
    <3>3. f \in FileRow /\ Rising(f.lines) /\ Parsed(f) # {} /\ ~f.open
      BY <1>1, <3>1, <3>2 DEF Lined, Full, Has
    <3>4. Like(f, h)
      BY <1>7, <1>8, <3>3, LikeWritten
    <3>5. QED
      BY <1>6, <1>8, <3>1, <3>2, <3>3, <3>4 DEF Like
  <2>3. QED
    BY <2>1, <2>2
<1>12. Grown(file, file')
  <2>1. /\ Len(file) \in Nat /\ DOMAIN file = 1..Len(file)
        /\ Len(file') \in Nat /\ DOMAIN file' = 1..Len(file')
    BY <1>1, Indices
  <2>2. PICK a \in Nat, b \in Nat : a = Len(file) /\ b = Len(file')
    BY <2>1
  <2>3. 1..a \subseteq 1..b
    BY <1>5, <2>1, <2>2
  <2>4. a <= b
    <3>1. a >= 1 => a \in 1..b
      BY <2>3
    <3>2. QED
      BY <3>1
  <2>5. QED
    BY <1>5, <1>11, <2>2, <2>4 DEF Grown
<1>13. (new # <<>> /\ new[1] # Junk /\ ~o) => Has(file', Target(n)) /\ ~file'[Target(n)].open
  <2> SUFFICES ASSUME new # <<>>, new[1] # Junk, ~o PROVE Has(file', Target(n)) /\ ~file'[Target(n)].open
    OBVIOUS
  <2>1. 1 \in DOMAIN new
    BY <1>7
  <2>2. \E k \in Parsed(h) : h.lines[k] = new[1]
    BY <1>7, <1>8, <1>11, <2>1, WrittenLines
  <2>3. h.open = o
    BY <1>7, <1>8, <1>11, Extended
  <2>4. QED
    BY <1>8, <2>2, <2>3 DEF Has
<1>14. QED
  BY <1>1, <1>5, <1>6, <1>12, <1>13

\* What a call under way names.
LEMMA UnderNames ==
  ASSUME Inv, NEW r \in Readers, rd[r] # None
  PROVE  /\ rd[r] \in Call /\ rd[r].todo \subseteq DOMAIN file
         /\ rd[r].pc = "scan_stat" => rd[r].i \in DOMAIN file
         /\ rd[r].pc = "reread" => rd[r].m # None /\ rd[r].m.maxFile \in DOMAIN file
  BY Under DEF Reading, Sound

\* A chunk is appended.
LEMMA AppendBounds ==
  ASSUME Inv, Inv', BoundsInv, NEW n \in ChunkSizes, with_chunk(n)
  PROVE  BoundsInv'
<1> SUFFICES ASSUME Quiet' PROVE /\ Full' /\ (manifest' # None => Valid(file', manifest'))
                                 /\ \A r \in Readers : rd'[r] # None => Tracks(file', rd'[r])
  BY DEF BoundsInv
<1>1. /\ global_seq # None /\ file' = Written(n, chunk(n), FALSE) /\ current' = Target(n)
      /\ raced' = (raced \/ Overtakes(Target(n))) /\ rd' = Touched
      /\ UNCHANGED <<manifest, fails, imports>>
  BY DEF with_chunk, Fits, budgetVars
<1>2. Quiet /\ ~Overtakes(Target(n)) /\ imports = 0 /\ imports' = 0
  BY <1>1 DEF Quiet
<1>3. /\ Full /\ (manifest # None => Valid(file, manifest))
      /\ \A r \in Readers : rd[r] # None => Tracks(file, rd[r])
  BY <1>2 DEF BoundsInv
<1>4. PICK new : new = chunk(n)
  OBVIOUS
<1>5. PICK o \in BOOLEAN : new = chunk(n) /\ o = FALSE
  BY <1>4
<1>6. global_seq \in Nat /\ n \in Nat /\ n >= 1
  BY <1>1, InvSane
<1>7. Fresh(new) /\ Len(new) = n /\ new[1] = global_seq
  <2>1. Piece(n, n, chunk(n), FALSE) /\ Len(chunk(n)) = n
    BY <1>6, ChunkWhole
  <2>2. Fresh(new) /\ Len(new) = n /\ \A p \in 1..n : new[p] = global_seq + p - 1
    BY <1>5, <2>1 DEF Piece
  <2>3. 1 \in 1..n /\ global_seq + 1 - 1 = global_seq
    BY <1>6
  <2>4. QED
    BY <2>2, <2>3
<1>8. new # <<>> /\ new[1] # Junk /\ file' = Written(n, new, o)
  BY <1>1, <1>5, <1>6, <1>7
<1>9. /\ Lined(file) /\ Lined(file') /\ Grown(file, file')
      /\ \A j \in DOMAIN file : j # Target(n) => file'[j] = file[j]
      /\ Has(file', Target(n)) /\ ~file'[Target(n)].open
  BY <1>1, <1>2, <1>3, <1>5, <1>7, <1>8, WriteGrows
<1>10. Full'
  BY <1>1, <1>9 DEF Full
<1>11. manifest' # None => Valid(file', manifest')
  <2>1. manifest \in Opt(Bounds)
    BY DEF Inv, TypeOK
  <2>2. QED
    BY <1>1, <1>3, <1>9, <2>1, ValidKept DEF Opt
<1>12. ASSUME NEW r \in Readers, rd'[r] # None PROVE Tracks(file', rd'[r])
  <2>1. rd[r] # None /\ rd'[r] = [rd[r] EXCEPT !.clean = FALSE]
    BY <1>1, <1>12 DEF Touched
  <2>2. PICK k \in Call : /\ k = rd[r] /\ k.todo \subseteq DOMAIN file
                          /\ k.pc = "scan_stat" => k.i \in DOMAIN file
                          /\ k.pc = "reread" => k.m # None /\ k.m.maxFile \in DOMAIN file
    BY <2>1, UnderNames
  <2>3. k.pc = "scan_stat" => file'[k.i] = file[k.i]
    BY <1>2, <1>9, <2>1, <2>2 DEF Overtakes
  <2>4. PICK c : c = [k EXCEPT !.clean = FALSE] /\ c = rd'[r]
    BY <2>1, <2>2
  <2>5. Tracks(file, k)
    BY <1>3, <2>1, <2>2
  <2>6. Tracks(file', c)
    BY <1>9, <2>2, <2>3, <2>4, <2>5, TracksKept
  <2>7. QED
    BY <2>4, <2>6
<1>13. QED
  BY <1>10, <1>11, <1>12

\* The process dies, perhaps inside an append; the manifest stays.
LEMMA CrashBounds ==
  ASSUME Inv, Inv', BoundsInv, NEW n \in ChunkSizes, Crash(n)
  PROVE  BoundsInv'
<1> SUFFICES ASSUME Quiet' PROVE /\ Full' /\ (manifest' # None => Valid(file', manifest'))
                                 /\ \A r \in Readers : rd'[r] # None => Tracks(file', rd'[r])
  BY DEF BoundsInv
<1>1. /\ global_seq # None /\ current' = None /\ rd' = [r \in Readers |-> None]
      /\ UNCHANGED <<manifest, fails, imports, raced>>
  BY DEF Crash
<1>2. Quiet /\ imports = 0 /\ imports' = 0
  BY <1>1 DEF Quiet
<1>3. Full /\ (manifest # None => Valid(file, manifest)) /\ manifest \in Opt(Bounds)
  BY <1>2 DEF BoundsInv, Inv, TypeOK
<1>4. manifest' # None => Valid(file', manifest')
  <2>1. CASE file' = file
    BY <1>1, <1>3, <2>1
  <2>2. ASSUME NEW t \in Torn(n), file' = Written(n, t.new, t.open)
        PROVE  manifest' # None => Valid(file', manifest')
    <3>1. global_seq \in Nat /\ n \in Nat
      BY <1>1, InvSane
    <3>2. PICK k \in 0..n : Piece(n, k, t.new, t.open)
      BY <3>1, TornPiece
    <3>3. PICK new : new = t.new
      OBVIOUS
    <3>4. PICK o \in BOOLEAN : new = t.new /\ o = t.open
      BY <3>2, <3>3 DEF Piece
    <3>5. Fresh(new) /\ file' = Written(n, new, o)
      BY <2>2, <3>2, <3>4 DEF Piece
    <3>6. Lined(file) /\ Lined(file') /\ Grown(file, file')
      BY <1>1, <1>2, <1>3, <3>5, WriteGrows
    <3>7. QED
      BY <1>1, <1>3, <3>6, ValidKept DEF Opt
  <2>3. QED
    BY <2>1, <2>2 DEF Crash
<1>5. QED
  BY <1>1, <1>4 DEF Full

\* A failed append and a delivery end the quiet; rotation and a new writer touch no file.
LEMMA OtherBounds ==
  ASSUME Inv, BoundsInv,
         (\E n \in ChunkSizes : with_chunk_err(n)) \/ rotate \/ WalWriter_new \/ ImportAndResync \/ UNCHANGED vars
  PROVE  BoundsInv'
<1>1. CASE \E n \in ChunkSizes : with_chunk_err(n)
  <2>1. fails' # 0
    BY <1>1 DEF with_chunk_err, Inv, TypeOK
  <2>2. QED
    BY <2>1 DEF BoundsInv, Quiet
<1>2. CASE ImportAndResync
  <2>1. imports' # 0
    BY <1>2 DEF ImportAndResync, Inv, TypeOK
  <2>2. QED
    BY <2>1 DEF BoundsInv, Quiet
<1>3. CASE rotate \/ WalWriter_new \/ UNCHANGED vars
  <2>1. UNCHANGED <<file, manifest, rd, fails, imports, raced>> /\ current' \in {current, None}
    BY <1>3 DEF rotate, WalWriter_new, vars, writerVars, budgetVars
  <2>2. QED
    BY <2>1 DEF BoundsInv, Quiet, Full
<1>4. QED
  BY <1>1, <1>2, <1>3

-----------------------------------------------------------------------------
(* The readers' steps.                                                     *)

\* What a call returns when nothing overlapped it.
Right(k, v) == k.clean => IF k.op = "max" THEN Highest(file, DOMAIN file, v) ELSE Lowest(file, DOMAIN file, v)

\* A new call, a scan and a return know what they should.
LEMMA CallsTrack ==
  ASSUME Inv
  PROVE  /\ \A op \in {"max", "min"}, m \in Opt(Bounds) : (m # None => Valid(file, m)) =>
              Tracks(file, NewCall(op, m))
         /\ \A k \in Call : Tracks(file, Scan(k))
         /\ \A k \in Call, v \in Opt(Nat) : Right(k, v) => Tracks(file, Return(k, v))
<1>1. PICK n \in Nat : n = Len(file)
  BY InvSane
<1>2. ASSUME NEW op \in {"max", "min"}, NEW m \in Opt(Bounds), m # None => Valid(file, m)
      PROVE  Tracks(file, NewCall(op, m))
  <2>1. PICK c : c = NewCall(op, m)
    OBVIOUS
  <2>2. c.m = m /\ c.pc = "list"
    BY <2>1 DEF NewCall
  <2>3. QED
    BY <1>2, <2>1, <2>2 DEF Tracks, Undisturbed, Scanning
<1>3. ASSUME NEW k \in Call PROVE Tracks(file, Scan(k))
  <2>1. PICK c : c = Scan(k)
    OBVIOUS
  <2>2. PICK b : b = NoBounds(n)
    OBVIOUS
  <2>3. c.m = None /\ c.pc = "scan_read" /\ c.todo = DOMAIN file /\ c.best = b
    BY <1>1, <2>1, <2>2 DEF Scan, NewCall, fingerprint
  <2>4. b.fp = n /\ b.max = None /\ b.min = None
    BY <2>2 DEF NoBounds
  <2>5. Visited(file, c) = {} /\ DOMAIN file \ c.todo = {}
    BY <2>3 DEF Visited
  <2>a. PICK D, E : D = Visited(file, c) /\ E = DOMAIN file \ c.todo /\ D = {} /\ E = {}
    BY <2>5
  <2>6. Newest(file, b, D) /\ Oldest(file, b, E)
    BY <2>4, <2>a DEF Newest, Oldest
  <2>b. Newest(file, c.best, Visited(file, c)) /\ Oldest(file, c.best, DOMAIN file \ c.todo)
    BY <2>3, <2>6, <2>a
  <2>c. c.best.fp <= Len(file)
    BY <1>1, <2>3, <2>4
  <2>7. Found(file, c)
    BY <2>3, <2>b, <2>c DEF Found
  <2>8. Undisturbed(file, c)
    BY <1>1, <2>3, <2>4 DEF Undisturbed
  <2>9. QED
    BY <2>1, <2>3, <2>7, <2>8 DEF Tracks
<1>4. ASSUME NEW k \in Call, NEW v \in Opt(Nat), Right(k, v) PROVE Tracks(file, Return(k, v))
  <2>1. PICK c : c = Return(k, v)
    OBVIOUS
  <2>2. c.op = k.op /\ c.m = None /\ c.pc = "done" /\ c.ret = v /\ c.clean = k.clean
    BY <2>1 DEF Return, NewCall
  <2>3. QED
    BY <1>4, <2>1, <2>2 DEF Tracks, Undisturbed, Scanning, Right
<1>5. QED
  BY <1>2, <1>3, <1>4

\* One reader goes on, perhaps with a new manifest.
LEMMA ReaderBounds ==
  ASSUME Inv, BoundsInv, NEW r \in Readers, UNCHANGED Keep, NEW k, (Quiet /\ k # None) => Tracks(file, k),
         rd' = [rd EXCEPT ![r] = k],
         manifest' = manifest \/ (Quiet => Valid(file, manifest'))
  PROVE  BoundsInv'
<1>1. UNCHANGED <<file, current, fails, imports, raced>>
  BY DEF Keep, writerVars, budgetVars
<1>2. rd \in [Readers -> Opt(Call)]
  BY DEF Inv, TypeOK
<1>3. \A q \in Readers : rd'[q] = (IF q = r THEN k ELSE rd[q])
  BY <1>2
<1> SUFFICES ASSUME Quiet PROVE /\ Full' /\ (manifest' # None => Valid(file', manifest'))
                                /\ \A q \in Readers : rd'[q] # None => Tracks(file', rd'[q])
  BY <1>1 DEF BoundsInv, Quiet
<1>4. /\ Full /\ (manifest # None => Valid(file, manifest))
      /\ \A q \in Readers : rd[q] # None => Tracks(file, rd[q])
  BY DEF BoundsInv
<1>5. Full'
  BY <1>1, <1>4 DEF Full
<1>6. manifest' # None => Valid(file', manifest')
  BY <1>1, <1>4
<1>7. \A q \in Readers : rd'[q] # None => Tracks(file', rd'[q])
  BY <1>1, <1>3, <1>4
<1>8. QED
  BY <1>5, <1>6, <1>7

\* A step that only moves a reader.
LEMMA UpdateBounds ==
  ASSUME Inv, BoundsInv, NEW r \in Readers, NEW k, (Quiet /\ k # None) => Tracks(file, k), Update(r, k)
  PROVE  BoundsInv'
  BY ReaderBounds DEF Update

\* Bounds of all the files.
LEMMA BoundsOfAll ==
  ASSUME Inv, NEW b \in Bounds, Valid(file, b), b.fp = Len(file)
  PROVE  /\ b.max = None => Highest(file, DOMAIN file, None)
         /\ (b.max # None /\ b.max = LastIn(file, b.maxFile)) => Highest(file, DOMAIN file, b.max)
         /\ b.max # None => b.maxFile \in DOMAIN file /\ Highest(file, DOMAIN file, LastIn(file, b.maxFile))
         /\ Lowest(file, DOMAIN file, b.min)
<1>1. Newest(file, b, DOMAIN file) /\ Oldest(file, b, DOMAIN file)
  BY DEF Valid
<1>2. b.max = None => Highest(file, DOMAIN file, None)
  BY <1>1 DEF Newest, Highest
<1>3. b.max # None => /\ b.maxFile \in DOMAIN file
                      /\ b.max = LastIn(file, b.maxFile) => Highest(file, DOMAIN file, b.max)
  BY <1>1 DEF Newest, Highest
<1>4. b.max # None => Highest(file, DOMAIN file, LastIn(file, b.maxFile))
  <2> SUFFICES ASSUME b.max # None PROVE Highest(file, DOMAIN file, LastIn(file, b.maxFile))
    OBVIOUS
  <2>1. PICK i \in DOMAIN file : i = b.maxFile /\ Has(file, i) /\ \A j \in DOMAIN file : j > i => ~Has(file, j)
    BY <1>1 DEF Newest
  <2>2. PICK v \in Opt(Nat) : v = LastIn(file, i)
    BY <2>1, InvSane, SeqsRead DEF LastIn
  <2>3. v # None
    <3>1. file[i] \in FileRow /\ Rising(file[i].lines)
      BY <2>1, InvSane DEF Inv, InOrder
    <3>2. LastIn(file, i) \in Nat
      BY <2>1, <3>1, Ends DEF Has, LastIn
    <3>3. QED
      BY <2>2, <3>2
  <2>4. Highest(file, DOMAIN file, v)
    BY <2>1, <2>2, <2>3 DEF Highest
  <2>5. QED
    BY <2>1, <2>2, <2>4
<1>5. Lowest(file, DOMAIN file, b.min)
  BY <1>1 DEF Oldest, Lowest
<1>6. QED
  BY <1>2, <1>3, <1>4, <1>5

\* A call begins, looks at the directory, or ends.
LEMMA EndsBounds ==
  ASSUME Inv, BoundsInv, NEW r \in Readers,
         \/ \E op \in {"max", "min"} : ReadManifest(r, op)
         \/ ListDir(r) \/ WriteManifest(r) \/ Answer(r)
  PROVE  BoundsInv'
<1>1. ASSUME NEW op \in {"max", "min"}, ReadManifest(r, op) PROVE BoundsInv'
  <2>1. manifest \in Opt(Bounds) /\ ((Quiet /\ manifest # None) => Valid(file, manifest))
    BY DEF Inv, TypeOK, BoundsInv
  <2>2. PICK k : k = NewCall(op, manifest)
    OBVIOUS
  <2>3. Quiet => Tracks(file, k)
    BY <2>1, <2>2, CallsTrack
  <2>4. Update(r, k)
    BY <1>1, <2>2 DEF ReadManifest
  <2>5. QED
    BY <2>3, <2>4, UpdateBounds
<1>2. CASE ListDir(r)
  <2>1. rd[r] # None
    BY <1>2 DEF ListDir
  <2>2. PICK c \in Call : c = rd[r] /\ (Quiet => Tracks(file, c))
    BY <2>1, Under DEF BoundsInv
  <2>3. PICK s : s = Scan(c) /\ Tracks(file, s)
    BY CallsTrack
  <2>4. PICK g : g = [c EXCEPT !.pc = "stat"]
    OBVIOUS
  <2>5. g.m = c.m /\ g.pc = "stat" /\ g.clean = c.clean
    BY <2>4 DEF Call
  <2>6. (Quiet /\ c.m # None /\ c.m.fp = fingerprint) => Tracks(file, g)
    BY <2>2, <2>5 DEF Tracks, Undisturbed, Scanning, fingerprint
  <2>7. PICK k : k = IF c.m # None /\ c.m.fp = fingerprint THEN g ELSE s
    OBVIOUS
  <2>8. Update(r, k)
    BY <1>2, <2>2, <2>3, <2>4, <2>7 DEF ListDir, Goto
  <2>9. Quiet => Tracks(file, k)
    BY <2>3, <2>6, <2>7
  <2>10. QED
    BY <2>8, <2>9, UpdateBounds
<1>3. CASE WriteManifest(r)
  <2>1. rd[r] # None /\ rd[r].pc = "write"
    BY <1>3 DEF WriteManifest
  <2>2. PICK c \in Call : c = rd[r] /\ (Quiet => Tracks(file, c)) /\ c.pc = "write"
    BY <2>1, Under DEF BoundsInv
  <2>3. c.ret \in Opt(Nat)
    BY DEF Call
  <2>4. PICK k : k = Return(c, c.ret)
    OBVIOUS
  <2>5. Quiet => Right(c, c.ret)
    BY <2>2 DEF Tracks, Undisturbed, Right
  <2>6. Quiet => Tracks(file, k)
    BY <2>3, <2>4, <2>5, CallsTrack
  <2>7. rd' = [rd EXCEPT ![r] = k] /\ UNCHANGED Keep /\ manifest' \in {c.best, manifest}
    BY <1>3, <2>2, <2>4 DEF WriteManifest
  <2>8. Quiet => Valid(file, c.best)
    BY <2>2 DEF Tracks
  <2>9. manifest' = manifest \/ (Quiet => Valid(file, manifest'))
    BY <2>7, <2>8
  <2>10. QED
    BY <2>6, <2>7, <2>9, ReaderBounds
<1>4. CASE Answer(r)
  <2>1. PICK k : k = None
    OBVIOUS
  <2>2. Update(r, k)
    BY <1>4, <2>1 DEF Answer
  <2>3. QED
    BY <2>1, <2>2, UpdateBounds
<1>5. QED
  BY <1>1, <1>2, <1>3, <1>4

\* A file that has no line to read has no last one, and none that is first.
LEMMA NoneRead ==
  ASSUME NEW F, Lined(F), NEW i \in DOMAIN F
  PROVE  (LastIn(F, i) = None <=> ~Has(F, i)) /\ (FirstIn(F, i) = None <=> ~Has(F, i))
<1>1. Has(F, i) => LastIn(F, i) \in Nat /\ FirstIn(F, i) \in Nat
  BY LinedEnds
<1>2. ~Has(F, i) => LastIn(F, i) = None /\ FirstIn(F, i) = None
  BY DEF Has, LastIn, FirstIn, read_last_seq, first_seq_in_file
<1>3. QED
  BY <1>1, <1>2

\* One more file is scanned for the upper bound ...
LEMMA ScannedMax ==
  ASSUME NEW F, Lined(F), NEW D \in SUBSET (DOMAIN F), NEW d \in Bounds, Newest(F, d, D),
         NEW i \in DOMAIN F, NEW v, v = LastIn(F, i)
  PROVE  /\ ~(v # None /\ (d.max = None \/ v > d.max)) => Newest(F, d, D \cup {i})
         /\ (v # None /\ (d.max = None \/ v > d.max)) => Has(F, i) /\ \A j \in D : j > i => ~Has(F, j)
<1>1. DOMAIN F \in SUBSET Nat /\ (d.max # None => d.max \in Nat)
  BY Indices DEF Bounds, Opt
<1>2. v = None <=> ~Has(F, i)
  BY NoneRead
<1>3. Has(F, i) => v \in Nat /\ FirstIn(F, i) \in Nat /\ FirstIn(F, i) <= v
  BY LinedEnds
<1>4. CASE d.max = None
  BY <1>2, <1>4 DEF Newest
<1>5. CASE d.max # None
  <2>1. PICK t \in D : /\ t = d.maxFile /\ Has(F, t) /\ \A j \in D : j > t => ~Has(F, j)
                       /\ FirstIn(F, t) <= d.max /\ d.max <= LastIn(F, t)
    BY <1>5 DEF Newest
  <2>2. /\ FirstIn(F, t) \in Nat /\ LastIn(F, t) \in Nat
        /\ (Has(F, i) /\ t < i) => LastIn(F, t) < FirstIn(F, i)
    BY <2>1, LinedEnds
  <2>3. (Has(F, i) /\ i < t) => v < FirstIn(F, t)
    BY <2>1, LinedEnds
  <2>4. i \in Nat /\ t \in Nat /\ d.max \in Nat
    BY <1>1, <1>5
  <2>5. ASSUME ~(v # None /\ v > d.max) PROVE Newest(F, d, D \cup {i})
    <3>1. i > t => ~Has(F, i)
      BY <1>2, <1>3, <2>1, <2>2, <2>4, <2>5
    <3>2. \A j \in D \cup {i} : j > t => ~Has(F, j)
      BY <2>1, <3>1
    <3>3. QED
      BY <1>5, <2>1, <3>2 DEF Newest
  <2>6. ASSUME v # None, v > d.max PROVE Has(F, i) /\ \A j \in D : j > i => ~Has(F, j)
    <3>1. Has(F, i)
      BY <1>2, <2>6
    <3>2. ~(i < t)
      BY <1>3, <2>1, <2>2, <2>3, <2>4, <2>6, <3>1
    <3>3. \A j \in D : j > i => j > t
      BY <1>1, <2>4, <3>2
    <3>4. QED
      BY <2>1, <3>1, <3>3
  <2>7. QED
    BY <1>5, <2>5, <2>6
<1>6. QED
  BY <1>4, <1>5

\* ... and for the lower.
LEMMA ScannedMin ==
  ASSUME NEW F, Lined(F), NEW D \in SUBSET (DOMAIN F), NEW d \in Bounds, Oldest(F, d, D),
         NEW i \in DOMAIN F, NEW v, v = FirstIn(F, i)
  PROVE  /\ ~(v # None /\ (d.min = None \/ v < d.min)) => Oldest(F, d, D \cup {i})
         /\ (v # None /\ (d.min = None \/ v < d.min)) => Has(F, i) /\ \A j \in D : j < i => ~Has(F, j)
<1>1. DOMAIN F \in SUBSET Nat /\ (d.min # None => d.min \in Nat)
  BY Indices DEF Bounds, Opt
<1>2. v = None <=> ~Has(F, i)
  BY NoneRead
<1>3. Has(F, i) => v \in Nat /\ LastIn(F, i) \in Nat /\ v <= LastIn(F, i)
  BY LinedEnds
<1>4. CASE d.min = None
  BY <1>2, <1>4 DEF Oldest
<1>5. CASE d.min # None
  <2>1. PICK t \in D : /\ t = d.minFile /\ Has(F, t) /\ \A j \in D : j < t => ~Has(F, j)
                       /\ d.min = FirstIn(F, t)
    BY <1>5 DEF Oldest
  <2>2. /\ FirstIn(F, t) \in Nat /\ LastIn(F, t) \in Nat /\ FirstIn(F, t) <= LastIn(F, t)
        /\ (Has(F, i) /\ t < i) => LastIn(F, t) < v
    BY <2>1, LinedEnds
  <2>3. (Has(F, i) /\ i < t) => LastIn(F, i) < FirstIn(F, t)
    BY <2>1, LinedEnds
  <2>4. i \in Nat /\ t \in Nat /\ d.min \in Nat
    BY <1>1, <1>5
  <2>5. ASSUME ~(v # None /\ v < d.min) PROVE Oldest(F, d, D \cup {i})
    <3>1. i < t => ~Has(F, i)
      BY <1>2, <1>3, <2>1, <2>2, <2>3, <2>4, <2>5
    <3>2. \A j \in D \cup {i} : j < t => ~Has(F, j)
      BY <2>1, <3>1
    <3>3. QED
      BY <1>5, <2>1, <3>2 DEF Oldest
  <2>6. ASSUME v # None, v < d.min PROVE Has(F, i) /\ \A j \in D : j < i => ~Has(F, j)
    <3>1. Has(F, i)
      BY <1>2, <2>6
    <3>2. ~(t < i)
      BY <1>3, <2>1, <2>2, <2>4, <2>6, <3>1
    <3>3. \A j \in D : j < i => j < t
      BY <1>1, <2>4, <3>2
    <3>4. QED
      BY <2>1, <3>1, <3>3
  <2>7. QED
    BY <1>5, <2>5, <2>6
<1>6. QED
  BY <1>4, <1>5

\* A call follows the manifest it read.
LEMMA FastPathBounds ==
  ASSUME Inv, BoundsInv, NEW r \in Readers, StatMax(r) \/ StatMin(r) \/ ReRead(r)
  PROVE  BoundsInv'
<1>1. rd[r] # None
  BY DEF StatMax, StatMin, ReRead
<1>2. PICK c \in Call : c = rd[r] /\ (Quiet => Tracks(file, c)) /\ Reading(c)
  BY <1>1, Under DEF BoundsInv
<1>3. c.pc \in {"stat", "reread"} /\ c.m # None /\ (c.pc = "reread" => c.m.max # None)
  BY <1>2 DEF StatMax, StatMin, ReRead, Reading
<1>4. PICK m \in Bounds : m = c.m /\ (Quiet => Valid(file, m)) /\ Sound(m)
  BY <1>2, <1>3 DEF Call, Opt, Reading, Tracks
<1>5. (Quiet /\ c.clean) => m.fp = Len(file)
  BY <1>2, <1>3, <1>4 DEF Tracks, Undisturbed
<1>6. m.max \in Opt(Nat) /\ m.min \in Opt(Nat) /\ c.op \in {"max", "min"} /\ c.size \in Nat
  BY DEF Bounds, Call
<1>7. PICK s : s = Scan(c) /\ Tracks(file, s)
  BY CallsTrack
<1>8. PICK e \in Opt(Nat) : e = None
  BY DEF Opt
<1>9. /\ (Quiet /\ c.clean /\ m.max = None) => Highest(file, DOMAIN file, e)
      /\ (Quiet /\ c.clean /\ m.max # None /\ m.max = LastIn(file, m.maxFile)) => Highest(file, DOMAIN file, m.max)
      /\ (Quiet /\ c.clean /\ m.max # None) => Highest(file, DOMAIN file, LastIn(file, m.maxFile))
      /\ (Quiet /\ c.clean) => Lowest(file, DOMAIN file, m.min)
  BY <1>4, <1>5, <1>8, BoundsOfAll
<1>10. CASE StatMax(r)
  <2>1. c.pc = "stat" /\ c.op = "max" /\ Update(r, CASE m.max = None -> Return(c, None)
                       [] m.max # None /\ file[m.maxFile].size = m.maxSize -> Return(c, m.max)
                       [] OTHER -> [c EXCEPT !.pc = "reread", !.size = file[m.maxFile].size])
    BY <1>2, <1>4, <1>10 DEF StatMax
  <2>2. CASE m.max = None
    <3>1. PICK k : k = Return(c, e)
      OBVIOUS
    <3>2. Quiet => Right(c, e)
      BY <1>9, <2>1, <2>2 DEF Right
    <3>3. Quiet => Tracks(file, k)
      BY <3>1, <3>2, CallsTrack
    <3>4. Update(r, k)
      BY <1>8, <2>1, <2>2, <3>1
    <3>5. QED
      BY <3>3, <3>4, UpdateBounds
  <2>3. CASE m.max # None /\ file[m.maxFile].size = m.maxSize
    <3>1. PICK v \in Opt(Nat) : v = m.max
      BY <1>6
    <3>2. PICK k : k = Return(c, v)
      OBVIOUS
    <3>3. (Quiet /\ c.clean) => m.max = LastIn(file, m.maxFile)
      BY <1>4, <1>5, <2>3 DEF Valid, Newest
    <3>4. Quiet => Right(c, v)
      BY <1>9, <2>1, <2>3, <3>1, <3>3 DEF Right
    <3>5. Quiet => Tracks(file, k)
      BY <3>2, <3>4, CallsTrack
    <3>6. Update(r, k)
      BY <2>1, <2>3, <3>1, <3>2
    <3>7. QED
      BY <3>5, <3>6, UpdateBounds
  <2>4. CASE m.max # None /\ ~(file[m.maxFile].size = m.maxSize)
    <3>1. file[m.maxFile] \in FileRow
      BY <1>4, <2>4, InvSane DEF Sound
    <3>2. PICK z \in Nat : z = file[m.maxFile].size
      BY <3>1 DEF FileRow
    <3>3. PICK k : k = [c EXCEPT !.pc = "reread", !.size = z]
      OBVIOUS
    <3>4. k.m = m /\ k.pc = "reread" /\ k.op = "max" /\ k.size = z /\ k.clean = c.clean
      BY <1>4, <2>1, <3>3 DEF Call
    <3>5. Quiet => Tracks(file, k)
      BY <1>4, <1>5, <3>2, <3>4 DEF Tracks, Undisturbed, Scanning
    <3>6. Update(r, k)
      BY <2>1, <2>4, <3>2, <3>3
    <3>7. QED
      BY <3>5, <3>6, UpdateBounds
  <2>5. QED
    BY <2>2, <2>3, <2>4
<1>11. CASE StatMin(r)
  <2>1. PICK v \in Opt(Nat) : v = m.min
    BY <1>6
  <2>2. c.op = "min" /\ Update(r, IF m.min = None \/ file[m.minFile].size >= m.minSize THEN Return(c, v) ELSE s)
    BY <1>2, <1>4, <1>7, <1>11, <2>1 DEF StatMin
  <2>3. Quiet => Right(c, v)
    BY <1>9, <2>1, <2>2 DEF Right
  <2>4. PICK k : k = IF m.min = None \/ file[m.minFile].size >= m.minSize THEN Return(c, v) ELSE s
    OBVIOUS
  <2>5. Quiet => Tracks(file, k)
    BY <1>7, <2>3, <2>4, CallsTrack
  <2>6. Update(r, k)
    BY <2>2, <2>4
  <2>7. QED
    BY <2>5, <2>6, UpdateBounds
<1>12. CASE ReRead(r)
  <2>1. c.pc = "reread" /\ m.max # None
    BY <1>2, <1>3, <1>4, <1>12 DEF ReRead
  <2>2. PICK i \in DOMAIN file : i = m.maxFile
    BY <1>4, <2>1 DEF Sound
  <2>3. PICK v : v = LastIn(file, i)
    OBVIOUS
  <2>4. PICK b : b = [m EXCEPT !.max = v, !.maxSize = c.size]
    OBVIOUS
  <2>5. /\ b.fp = m.fp /\ b.maxFile = i /\ b.max = v /\ b.maxSize = c.size
        /\ b.minFile = m.minFile /\ b.min = m.min /\ b.minSize = m.minSize
    BY <2>2, <2>4 DEF Bounds
  <2>6. Quiet => c.op = "max" /\ c.size <= file[i].size
    BY <1>2, <1>4, <2>1, <2>2 DEF Tracks
  <2>7. ASSUME Quiet PROVE Valid(file, b)
    <3>1. m.fp <= Len(file)
      BY <1>4, <2>7 DEF Valid
    <3>2. CASE m.fp = Len(file)
      <4>1. Newest(file, m, DOMAIN file) /\ Oldest(file, m, DOMAIN file)
        BY <1>4, <2>7, <3>2 DEF Valid
      <4>2. Has(file, i) /\ \A j \in DOMAIN file : j > i => ~Has(file, j)
        BY <2>1, <2>2, <4>1 DEF Newest
      <4>3. FirstIn(file, i) <= v /\ v \in Nat
        BY <2>3, <2>7, <4>2, InvLined, LinedEnds DEF Quiet
      <4>4. Newest(file, b, DOMAIN file)
        BY <2>2, <2>3, <2>5, <2>6, <2>7, <4>2, <4>3 DEF Newest
      <4>5. Oldest(file, b, DOMAIN file)
        BY <2>5, <4>1 DEF Oldest
      <4>6. QED
        BY <2>5, <3>1, <4>4, <4>5 DEF Valid
    <3>3. CASE m.fp # Len(file)
      BY <2>5, <3>1, <3>3 DEF Valid
    <3>4. QED
      BY <3>2, <3>3
  <2>8. PICK g : g = [c EXCEPT !.pc = "write", !.ret = v, !.best = b]
    OBVIOUS
  <2>9. g.m = m /\ g.pc = "write" /\ g.ret = v /\ g.best = b /\ g.op = c.op /\ g.clean = c.clean
    BY <1>4, <2>8 DEF Call
  <2>10. Quiet => Tracks(file, g)
    BY <1>4, <1>9, <2>1, <2>2, <2>3, <2>6, <2>7, <2>9 DEF Tracks, Undisturbed, Scanning
  <2>11. PICK k : k = IF v # None /\ v >= m.max THEN g ELSE s
    OBVIOUS
  <2>12. Quiet => Tracks(file, k)
    BY <1>7, <2>10, <2>11
  <2>13. Update(r, k)
    BY <1>2, <1>4, <1>7, <1>12, <2>2, <2>3, <2>4, <2>8, <2>11 DEF ReRead, LastIn
  <2>14. QED
    BY <2>12, <2>13, UpdateBounds
<1>13. QED
  BY <1>10, <1>11, <1>12

\* A call scans the files it listed.
LEMMA ScanBounds ==
  ASSUME Inv, BoundsInv, NEW r \in Readers, ScanRead(r) \/ ScanStat(r) \/ ScanFirst(r) \/ ScanDone(r)
  PROVE  BoundsInv'
<1>1. rd[r] # None
  BY DEF ScanRead, ScanStat, ScanFirst, ScanDone
<1>2. PICK c \in Call : c = rd[r] /\ (Quiet => Tracks(file, c)) /\ Reading(c)
  BY <1>1, Under DEF BoundsInv
<1>3. c.pc \in Scanning
  BY <1>2 DEF ScanRead, ScanStat, ScanFirst, ScanDone, Scanning
<1>4. PICK d \in Bounds : d = c.best
  BY DEF Call
<1>5. c.todo \subseteq DOMAIN file
  BY <1>2 DEF Reading
<1>6. Quiet => /\ Found(file, c) /\ Lined(file) /\ (c.m # None => Valid(file, c.m))
               /\ c.clean => d.fp = Len(file) /\ (d.max # None => d.max = LastIn(file, d.maxFile))
  BY <1>2, <1>3, <1>4, InvLined DEF Tracks, Undisturbed, Quiet
<1>7. PICK D \in SUBSET (DOMAIN file) : D = DOMAIN file \ c.todo
  OBVIOUS
<1>8. (Quiet /\ d.fp = Len(file)) => Oldest(file, d, D) /\ Newest(file, d, Visited(file, c))
  BY <1>4, <1>6, <1>7 DEF Found
<1>9. Quiet => d.fp <= Len(file)
  BY <1>4, <1>6 DEF Found
<1>10. CASE ScanRead(r)
  <2>1. c.pc = "scan_read" /\ \E i \in c.todo :
             LET seq == read_last_seq(file[i])
                 higher == seq # None /\ (c.best.max = None \/ seq > c.best.max)
             IN  Update(r, [c EXCEPT !.i = i, !.seq = seq,
                                     !.pc = IF higher THEN "scan_stat" ELSE "scan_first"])
    BY <1>2, <1>10 DEF ScanRead
  <2>2. PICK i \in c.todo :
             LET seq == read_last_seq(file[i])
                 higher == seq # None /\ (c.best.max = None \/ seq > c.best.max)
             IN  Update(r, [c EXCEPT !.i = i, !.seq = seq,
                                     !.pc = IF higher THEN "scan_stat" ELSE "scan_first"])
    BY <2>1
  <2>3. i \in DOMAIN file
    BY <1>5
  <2>4. PICK v : v = LastIn(file, i)
    OBVIOUS
  <2>5. PICK p : p = IF v # None /\ (d.max = None \/ v > d.max) THEN "scan_stat" ELSE "scan_first"
    OBVIOUS
  <2>6. PICK k : k = [c EXCEPT !.i = i, !.seq = v, !.pc = p]
    OBVIOUS
  <2>7. /\ k.m = c.m /\ k.best = d /\ k.todo = c.todo /\ k.i = i /\ k.seq = v /\ k.pc = p
        /\ k.clean = c.clean /\ k.op = c.op
    BY <1>4, <2>6 DEF Call
  <2>8. Update(r, k)
    BY <1>4, <2>2, <2>4, <2>5, <2>6 DEF LastIn
  <2>9. Visited(file, c) = D /\ Visited(file, k) = (IF p = "scan_first" THEN D \cup {i} ELSE D)
    BY <1>7, <2>1, <2>7 DEF Visited
  <2>10. (Quiet /\ d.fp = Len(file)) => Newest(file, d, Visited(file, k))
    <3> SUFFICES ASSUME Quiet, d.fp = Len(file) PROVE Newest(file, d, Visited(file, k))
      OBVIOUS
    <3>1. Newest(file, d, D)
      BY <1>8, <2>9
    <3>2. ~(v # None /\ (d.max = None \/ v > d.max)) => Newest(file, d, D \cup {i})
      BY <1>6, <2>3, <2>4, <3>1, ScannedMax
    <3>3. QED
      BY <2>5, <2>9, <3>1, <3>2
  <2>11. Quiet => Found(file, k)
    BY <1>7, <1>8, <1>9, <2>4, <2>5, <2>7, <2>10 DEF Found
  <2>12. Quiet => Tracks(file, k)
    BY <1>6, <2>5, <2>7, <2>11 DEF Tracks, Undisturbed
  <2>13. QED
    BY <2>8, <2>12, UpdateBounds
<1>11. CASE ScanStat(r)
  <2>1. c.pc = "scan_stat"
    BY <1>2, <1>11 DEF ScanStat
  <2>2. PICK i \in DOMAIN file : i = c.i
    BY <1>2, <2>1 DEF Reading
  <2>3. PICK z \in Nat : z = file[i].size
    <3>1. file[i] \in FileRow
      BY InvSane
    <3>2. QED
      BY <3>1 DEF FileRow
  <2>4. PICK b : b = [d EXCEPT !.max = c.seq, !.maxFile = i, !.maxSize = z]
    OBVIOUS
  <2>5. /\ b.fp = d.fp /\ b.max = c.seq /\ b.maxFile = i /\ b.maxSize = z
        /\ b.minFile = d.minFile /\ b.min = d.min /\ b.minSize = d.minSize
    BY <2>4 DEF Bounds
  <2>6. PICK k : k = [c EXCEPT !.pc = "scan_first", !.best.max = c.seq, !.best.maxFile = i, !.best.maxSize = z]
    OBVIOUS
  <2>7. /\ k.m = c.m /\ k.best = b /\ k.todo = c.todo /\ k.i = i /\ k.pc = "scan_first"
        /\ k.clean = c.clean /\ k.op = c.op
    BY <1>4, <2>2, <2>4, <2>6 DEF Call
  <2>8. Update(r, k)
    BY <1>2, <1>11, <2>2, <2>3, <2>6 DEF ScanStat
  <2>9. Visited(file, c) = D /\ Visited(file, k) = D \cup {i}
    BY <1>7, <2>1, <2>7 DEF Visited
  <2>10. Quiet => i \in c.todo
    BY <1>6, <2>1, <2>2 DEF Found
  <2>11. (Quiet /\ d.fp = Len(file)) => c.seq = LastIn(file, i) /\ (d.max = None \/ c.seq > d.max)
    BY <1>4, <1>6, <2>1, <2>2 DEF Found
  <2>12. c.seq # None
    BY <1>2, <2>1 DEF Reading
  <2>13. ASSUME Quiet, d.fp = Len(file) PROVE Newest(file, b, D \cup {i})
    <3>1. Newest(file, d, D)
      BY <1>8, <2>9, <2>13
    <3>2. Has(file, i) /\ \A j \in D : j > i => ~Has(file, j)
      BY <1>6, <2>11, <2>12, <2>13, <3>1, ScannedMax
    <3>3. FirstIn(file, i) <= LastIn(file, i) /\ LastIn(file, i) \in Nat
      BY <1>6, <2>13, <3>2, LinedEnds
    <3>4. i \in Nat
      BY <1>6, <2>13, Indices
    <3>5. \A j \in D \cup {i} : j > i => ~Has(file, j)
      BY <3>2, <3>4
    <3>6. QED
      BY <2>3, <2>5, <2>11, <2>12, <2>13, <3>2, <3>3, <3>5 DEF Newest
  <2>14. (Quiet /\ d.fp = Len(file)) => Oldest(file, b, D)
    BY <1>8, <2>5 DEF Oldest
  <2>15. Quiet => Found(file, k)
    BY <1>7, <1>9, <2>5, <2>7, <2>9, <2>10, <2>13, <2>14 DEF Found
  <2>16. Quiet => Tracks(file, k)
    BY <1>6, <2>5, <2>7, <2>11, <2>15 DEF Tracks, Undisturbed, Scanning
  <2>17. QED
    BY <2>8, <2>16, UpdateBounds
<1>12. CASE ScanFirst(r)
  <2>1. c.pc = "scan_first"
    BY <1>2, <1>12 DEF ScanFirst
  <2>2. PICK i \in DOMAIN file : i = c.i
    BY <1>2, <2>1 DEF Reading
  <2>3. PICK z \in Nat : z = file[i].size
    <3>1. file[i] \in FileRow
      BY InvSane
    <3>2. QED
      BY <3>1 DEF FileRow
  <2>4. PICK v : v = FirstIn(file, i)
    OBVIOUS
  <2>5. PICK g : g = [d EXCEPT !.min = v, !.minFile = i, !.minSize = z]
    OBVIOUS
  <2>6. /\ g.fp = d.fp /\ g.min = v /\ g.minFile = i /\ g.minSize = z
        /\ g.maxFile = d.maxFile /\ g.max = d.max /\ g.maxSize = d.maxSize
    BY <2>5 DEF Bounds
  <2>7. PICK b : b = IF v # None /\ (d.min = None \/ v < d.min) THEN g ELSE d
    OBVIOUS
  <2>8. PICK k : k = [c EXCEPT !.pc = "scan_read", !.todo = @ \ {i}, !.i = 0, !.seq = None, !.best = b]
    OBVIOUS
  <2>9. /\ k.m = c.m /\ k.best = b /\ k.todo = c.todo \ {i} /\ k.pc = "scan_read"
        /\ k.clean = c.clean /\ k.op = c.op
    BY <2>8 DEF Call
  <2>10. Update(r, k)
    BY <1>2, <1>4, <1>12, <2>2, <2>3, <2>4, <2>5, <2>7, <2>8 DEF ScanFirst, FirstIn
  <2>11. Visited(file, c) = D \cup {i} /\ Visited(file, k) = D \cup {i} /\ DOMAIN file \ k.todo = D \cup {i}
    BY <1>5, <1>7, <2>1, <2>2, <2>9 DEF Visited
  <2>12. b.fp = d.fp /\ b.max = d.max /\ b.maxFile = d.maxFile /\ b.maxSize = d.maxSize
    BY <2>6, <2>7
  <2>13. (Quiet /\ d.fp = Len(file)) => Newest(file, b, D \cup {i})
    BY <1>8, <2>11, <2>12 DEF Newest
  <2>14. ASSUME Quiet, d.fp = Len(file) PROVE Oldest(file, b, D \cup {i})
    <3>1. Oldest(file, d, D) /\ Lined(file)
      BY <1>6, <1>8, <2>14
    <3>2. CASE ~(v # None /\ (d.min = None \/ v < d.min))
      <4>1. Oldest(file, d, D \cup {i})
        BY <2>4, <3>1, <3>2, ScannedMin
      <4>2. QED
        BY <2>7, <3>2, <4>1
    <3>3. CASE v # None /\ (d.min = None \/ v < d.min)
      <4>1. Has(file, i) /\ \A j \in D : j < i => ~Has(file, j)
        BY <2>4, <3>1, <3>3, ScannedMin
      <4>2. i \in Nat
        BY <3>1, Indices
      <4>3. \A j \in D \cup {i} : j < i => ~Has(file, j)
        BY <4>1, <4>2
      <4>4. b = g
        BY <2>7, <3>3
      <4>5. QED
        BY <2>3, <2>4, <2>6, <3>3, <4>1, <4>3, <4>4 DEF Oldest
    <3>4. QED
      BY <3>2, <3>3
  <2>15. Quiet => Found(file, k)
    BY <1>9, <2>9, <2>11, <2>12, <2>13, <2>14 DEF Found
  <2>16. Quiet => Tracks(file, k)
    BY <1>6, <2>9, <2>12, <2>15 DEF Tracks, Undisturbed, Scanning
  <2>17. QED
    BY <2>10, <2>16, UpdateBounds
<1>13. CASE ScanDone(r)
  <2>1. c.pc = "scan_read" /\ c.todo = {}
    BY <1>2, <1>13 DEF ScanDone
  <2>2. PICK v : v = IF c.op = "max" THEN c.best.max ELSE c.best.min
    OBVIOUS
  <2>3. PICK k : k = [c EXCEPT !.pc = "write", !.ret = v]
    OBVIOUS
  <2>4. k.m = c.m /\ k.best = d /\ k.pc = "write" /\ k.ret = v /\ k.clean = c.clean /\ k.op = c.op
    BY <1>4, <2>3 DEF Call
  <2>5. Update(r, k)
    BY <1>2, <1>13, <2>2, <2>3 DEF ScanDone
  <2>6. D = DOMAIN file /\ Visited(file, c) = DOMAIN file
    BY <1>7, <2>1 DEF Visited
  <2>7. Quiet => Valid(file, d)
    BY <1>8, <1>9, <2>6 DEF Valid
  <2>8. ASSUME Quiet, c.clean
        PROVE  IF c.op = "max" THEN Highest(file, DOMAIN file, v) ELSE Lowest(file, DOMAIN file, v)
    <3>1. d.fp = Len(file) /\ (d.max # None => d.max = LastIn(file, d.maxFile))
      BY <1>6, <2>8
    <3>2. /\ d.max = None => Highest(file, DOMAIN file, None)
          /\ d.max # None => Highest(file, DOMAIN file, d.max)
          /\ Lowest(file, DOMAIN file, d.min)
      BY <2>7, <2>8, <3>1, BoundsOfAll
    <3>3. Highest(file, DOMAIN file, d.max)
      BY <3>2
    <3>4. QED
      BY <1>4, <2>2, <3>2, <3>3
  <2>9. Quiet => Tracks(file, k)
    BY <1>6, <2>4, <2>7, <2>8 DEF Tracks, Undisturbed, Scanning
  <2>10. QED
    BY <2>5, <2>9, UpdateBounds
<1>14. QED
  BY <1>10, <1>11, <1>12, <1>13

-----------------------------------------------------------------------------
(* What the readers are told.                                              *)

\* What is cached and found stays right: every reachable state satisfies the invariant.
THEOREM Described == Spec => []BoundsInv
<1>1. Init => BoundsInv
  BY DEF Init, BoundsInv, Full
<1>2. Inv /\ Inv' /\ BoundsInv /\ [Next]_vars => BoundsInv'
  <2> SUFFICES ASSUME Inv, Inv', BoundsInv, [Next]_vars PROVE BoundsInv'
    OBVIOUS
  <2>1. ASSUME NEW n \in ChunkSizes, with_chunk(n) PROVE BoundsInv'
    BY <2>1, AppendBounds
  <2>2. ASSUME NEW n \in ChunkSizes, Crash(n) PROVE BoundsInv'
    BY <2>2, CrashBounds
  <2>3. CASE (\E n \in ChunkSizes : with_chunk_err(n)) \/ rotate \/ WalWriter_new \/ ImportAndResync \/ UNCHANGED vars
    BY <2>3, OtherBounds
  <2>4. ASSUME NEW r \in Readers,
               \/ \E op \in {"max", "min"} : ReadManifest(r, op)
               \/ ListDir(r) \/ StatMax(r) \/ StatMin(r) \/ ReRead(r)
               \/ ScanRead(r) \/ ScanStat(r) \/ ScanFirst(r) \/ ScanDone(r)
               \/ WriteManifest(r) \/ Answer(r)
        PROVE  BoundsInv'
    BY <2>4, EndsBounds, FastPathBounds, ScanBounds
  <2>5. QED
    BY <2>1, <2>2, <2>3, <2>4 DEF Next
<1>3. QED
  BY <1>1, <1>2, Invariant, PTL DEF Spec

\* A call of wal_max_seq or wal_min_seq that no append overlapped answers with the true
\* bound, through every rotation, growth of the open file, crash, and call that overwrites
\* the manifest with older bounds (wal_max_seq_fast_path and its kin in wal.rs), as long as
\* no append failed, nothing was delivered and no append fell between a read and its stat.
THEOREM BoundsRead == Spec => []ReadExact
<1>1. Inv /\ BoundsInv => ReadExact
  <2> SUFFICES ASSUME Inv, BoundsInv, Quiet, NEW r \in Readers,
                      rd[r] # None, rd[r].pc = "done", rd[r].clean
               PROVE  rd[r].ret = IF rd[r].op = "max" THEN TrueMax ELSE TrueMin
    BY DEF ReadExact, BoundsExact, Exact, Quiet
  <2>1. PICK c \in Call : c = rd[r] /\ Tracks(file, c)
    BY Under DEF BoundsInv
  <2>2. IF c.op = "max" THEN Highest(file, DOMAIN file, c.ret) ELSE Lowest(file, DOMAIN file, c.ret)
    BY <2>1 DEF Tracks, Undisturbed
  <2>3. c.ret \in Opt(Nat) /\ imports = 0
    BY DEF Call, Quiet
  <2>4. QED
    BY <2>1, <2>2, <2>3, TrueBounds
<1>2. QED
  BY <1>1, Invariant, Described, PTL

=============================================================================
