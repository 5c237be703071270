---------------------------- MODULE IngestProofs ----------------------------
(***************************************************************************)
(* For every number of episodes, every ontology file and whatever a model  *)
(* extracts: no entity is added while the group's identity change stands   *)
(* refused, an episode records and clears the drift of no ontology but the *)
(* one that is cached, and an edge row is left without its ends only by a  *)
(* purge or clear_all that came between the lookup and the commit.         *)
(*                                                                         *)
(* The argument for the first: from the second identity check to the end   *)
(* of the commit an episode holds the write lock. A cached resolution is   *)
(* dropped or restored by a holder of that lock only, so the verdict that  *)
(* let the episode through is the one that is cached when it commits. That *)
(* the second check never goes by a check of its own, whose answer nobody  *)
(* would keep, is because a database is loaded whenever an episode has the *)
(* lock: clear_all, which unloads it, has the lock until it is back. The   *)
(* second rests on the same: the lock is kept over the comparison of the   *)
(* hashes, the sidecar and the clear. For the third, every uuid that an    *)
(* episode carries from phase B is stored, or was purged since.            *)
(***************************************************************************)
EXTENDS Ingest, TLAPS

Fields == {"pc", "then", "onto", "drift", "verdict"}

\* From its start to its extraction.
Early(t) ==
    /\ Fields \subseteq DOMAIN t /\ "held" \notin DOMAIN t
    /\ t.pc \in {"resolve", "compute", "install", "first_check", "extract"}
    /\ t.then \in {"first_check", "extract"}

\* Between extraction and the lock.
Apart(t) == "pc" \in DOMAIN t /\ t.pc \in {"phase_b", "judge", "lock"}

\* The identity check under the lock, held standing for what is to be committed.
Again(t) ==
    /\ Fields \subseteq DOMAIN t /\ "held" \in DOMAIN t /\ "pc" \in DOMAIN t.held
    /\ t.pc \in {"resolve", "compute", "install", "second_check"}
    /\ t.then = "second_check"
    /\ t.pc = "install" => t.verdict # "unchecked"

\* From the commit on.
Commits(t) == "pc" \in DOMAIN t /\ t.pc \in {"commit", "record", "write", "clear"}

Reloads(t) ==
    /\ Fields \subseteq DOMAIN t
    /\ t.pc \in {"mark", "compute", "install", "reloaded"}
    /\ t.then = "reloaded"
    /\ t.pc \in {"install", "reloaded"} => t.verdict # "unchecked"

Reopens(t) == "pc" \in DOMAIN t /\ t.pc \in {"invalidate", "reopen"}

EpisodeOK(t) == t = Idle \/ Early(t) \/ Apart(t) \/ Again(t) \/ Commits(t)
AdminOK(t) == t = Idle \/ Reloads(t) \/ Reopens(t)
RebuilderOK(t) == t = Idle \/ ("pc" \in DOMAIN t /\ t.pc = "clear")

TasksOK ==
    /\ DOMAIN task = Actors
    /\ \A e \in Episodes : EpisodeOK(task[e])
    /\ AdminOK(task[Admin]) /\ RebuilderOK(task[Rebuilder])

CacheOK ==
    /\ "state" \in DOMAIN cache
    /\ IsResolved => {"onto", "drift", "refused"} \subseteq DOMAIN cache

\* Who is past the lock of its handler holds it.
Exclusion ==
    /\ \A e \in Episodes : (Again(task[e]) \/ Commits(task[e])) => lock = e
    /\ task[Admin] # Idle => lock = Admin
    /\ ~up => Reopens(task[Admin])
    /\ lock \in Episodes \cup {Admin, None}

\* The places from the second check to the end of an episode.
Checked == {"second_check", "commit", "record", "write", "clear"}

\* What the second check found stands until the commit, and what the
\* comparison of the hashes found until the drift is cleared.
VerdictStands ==
    \A e \in Episodes :
        /\ task[e].pc \in Checked => IsResolved
        /\ task[e].pc = "commit" => ~cache.refused
        /\ task[e].pc \in {"write", "clear"} => content_hash(cache.onto) = content_hash(task[e].onto)

Inv == TasksOK /\ CacheOK /\ Exclusion /\ VerdictStands

-----------------------------------------------------------------------------
(* What a step does to one task, to the lock and to the cache, and what    *)
(* that means for the invariant.                                           *)

\* A resolution that is cached stays, with its verdict.
CacheKept ==
    /\ CacheOK'
    /\ IsResolved => IsResolved' /\ cache'.refused = cache.refused /\ cache'.onto = cache.onto

\* Where a task is tells which of the shapes it has.
LEMMA EpisodePlace ==
  ASSUME NEW t, EpisodeOK(t)
  PROVE  /\ "pc" \in DOMAIN t /\ t.pc # "mark" /\ t.pc # "reloaded"
         /\ t.pc \in {"resolve", "compute", "install"} => Early(t) \/ Again(t)
         /\ t.pc \in {"first_check", "extract"} => Early(t)
         /\ t.pc = "second_check" => Again(t)
         /\ t.pc \in {"commit", "record", "write", "clear"} => Commits(t)
  BY DEF EpisodeOK, Early, Apart, Again, Commits, Idle, Fields

\* A reload resolves, a purge or clear_all reopens.
LEMMA AdminPlace ==
  ASSUME NEW t, AdminOK(t)
  PROVE  /\ "pc" \in DOMAIN t
         /\ t.pc \in {"mark", "compute", "install", "reloaded"} => Reloads(t)
         /\ t.pc \in {"invalidate", "reopen"} => Reopens(t)
         /\ t.pc \notin {"resolve", "clear"} /\ (t # Idle => t.pc # "idle")
  BY DEF AdminOK, Reloads, Reopens, Idle, Fields

\* The tasks after one of them moved.
LEMMA Put ==
  ASSUME TasksOK, NEW a \in Actors, NEW c, task' = [task EXCEPT ![a] = c]
  PROVE  DOMAIN task' = Actors /\ task'[a] = c /\ \A b \in Actors : b # a => task'[b] = task[b]
  BY DEF TasksOK

\* A step of an episode that takes, keeps or gives back the lock.
LEMMA EpisodeMoves ==
  ASSUME TasksOK, Exclusion, NEW e \in Episodes, NEW c, task' = [task EXCEPT ![e] = c],
         EpisodeOK(c), lock' = lock \/ {lock, lock'} \subseteq {e, None},
         (Again(c) \/ Commits(c)) => lock' = e, up' = up
  PROVE  TasksOK' /\ Exclusion'
<1>1. e \in Actors /\ Admin \in Actors /\ Rebuilder \in Actors
      /\ e # Admin /\ e # Rebuilder /\ e # None /\ Episodes \subseteq Actors
      /\ \A f \in Episodes : f # None /\ f # Admin
  BY ActorsAssumption DEF Actors
<1>2. DOMAIN task' = Actors /\ task'[e] = c /\ \A b \in Actors : b # e => task'[b] = task[b]
  BY <1>1, Put
<1>3. TasksOK'
  BY <1>1, <1>2 DEF TasksOK
<1>4. ASSUME NEW f \in Episodes, Again(task'[f]) \/ Commits(task'[f])
      PROVE  lock' = f
  <2>1. CASE f = e
    BY <2>1, <1>2, <1>4
  <2>2. CASE f # e
    <3>1. lock = f
      BY <2>2, <1>1, <1>2, <1>4 DEF Exclusion
    <3> QED BY <3>1, <2>2, <1>1
  <2> QED BY <2>1, <2>2
<1>5. task'[Admin] # Idle => lock' = Admin
  <2>1. task'[Admin] = task[Admin]
    BY <1>1, <1>2
  <2>2. task[Admin] # Idle => lock = Admin
    BY DEF Exclusion
  <2> QED BY <1>1, <2>1, <2>2, ActorsAssumption DEF Actors
<1>6. ~up' => Reopens(task'[Admin])
  BY <1>1, <1>2 DEF Exclusion
<1> QED BY <1>3, <1>4, <1>5, <1>6 DEF Exclusion

\* A step of the administrator.
LEMMA AdminMoves ==
  ASSUME TasksOK, Exclusion, NEW c, task' = [task EXCEPT ![Admin] = c],
         AdminOK(c), lock' = lock \/ {lock, lock'} \subseteq {Admin, None},
         c # Idle => lock' = Admin, ~up' => Reopens(c)
  PROVE  TasksOK' /\ Exclusion'
<1>1. Admin \in Actors /\ Rebuilder \in Actors /\ Admin # Rebuilder /\ Episodes \subseteq Actors
      /\ \A f \in Episodes : f # None /\ f # Admin
  BY ActorsAssumption DEF Actors
<1>2. DOMAIN task' = Actors /\ task'[Admin] = c /\ \A b \in Actors : b # Admin => task'[b] = task[b]
  BY <1>1, Put
<1>3. TasksOK'
  BY <1>1, <1>2 DEF TasksOK
<1>4. ASSUME NEW f \in Episodes, Again(task'[f]) \/ Commits(task'[f])
      PROVE  lock' = f
  <2>1. lock = f
    BY <1>1, <1>2, <1>4 DEF Exclusion
  <2> QED BY <2>1, <1>1
<1> QED BY <1>2, <1>3, <1>4 DEF Exclusion

\* The rebuilder holds no lock.
LEMMA RebuilderMoves ==
  ASSUME TasksOK, Exclusion, NEW c, task' = [task EXCEPT ![Rebuilder] = c],
         RebuilderOK(c), lock' = lock, up' = up
  PROVE  TasksOK' /\ Exclusion'
<1>1. Admin \in Actors /\ Rebuilder \in Actors /\ Admin # Rebuilder /\ Episodes \subseteq Actors
      /\ \A f \in Episodes : f # Rebuilder
  BY ActorsAssumption DEF Actors
<1>2. DOMAIN task' = Actors /\ task'[Rebuilder] = c
      /\ \A b \in Actors : b # Rebuilder => task'[b] = task[b]
  BY <1>1, Put
<1>3. TasksOK'
  BY <1>1, <1>2 DEF TasksOK
<1>4. \A f \in Episodes \cup {Admin} : task'[f] = task[f]
  BY <1>1, <1>2
<1> QED BY <1>3, <1>4 DEF Exclusion

\* An episode whose new place asks no more of the cache than it finds there.
LEMMA EpisodeStands ==
  ASSUME TasksOK, VerdictStands, NEW e \in Episodes, NEW c, task' = [task EXCEPT ![e] = c], CacheKept,
         c.pc \in Checked => IsResolved',
         c.pc = "commit" => ~cache'.refused,
         c.pc \in {"write", "clear"} => content_hash(cache'.onto) = content_hash(c.onto)
  PROVE  VerdictStands'
<1>1. e \in Actors /\ Episodes \subseteq Actors
  BY DEF Actors
<1>2. task'[e] = c /\ \A b \in Actors : b # e => task'[b] = task[b]
  BY <1>1, Put
<1> SUFFICES ASSUME NEW f \in Episodes
             PROVE  /\ task'[f].pc \in Checked => IsResolved'
                    /\ task'[f].pc = "commit" => ~cache'.refused
                    /\ task'[f].pc \in {"write", "clear"} =>
                           content_hash(cache'.onto) = content_hash(task'[f].onto)
  BY DEF VerdictStands, Checked
<1>3. CASE f = e
  BY <1>2, <1>3
<1>4. CASE f # e
  BY <1>1, <1>2, <1>4 DEF VerdictStands, CacheKept, Checked
<1> QED BY <1>3, <1>4

\* Somebody else moved and left a cached resolution alone.
LEMMA OtherStands ==
  ASSUME TasksOK, VerdictStands, NEW a \in Actors \ Episodes, NEW c, task' = [task EXCEPT ![a] = c], CacheKept
  PROVE  VerdictStands'
<1>1. Episodes \subseteq Actors
  BY DEF Actors
<1>2. \A b \in Actors : b # a => task'[b] = task[b]
  BY <1>1, Put
<1> QED BY <1>1, <1>2 DEF VerdictStands, CacheKept, Checked

\* With the administrator's lock held, or nobody's, no verdict is waiting to be used.
LEMMA NobodyWaits ==
  ASSUME TasksOK, Exclusion, lock \in {Admin, None}, NEW c, task' = [task EXCEPT ![Admin] = c]
  PROVE  VerdictStands'
<1>1. Admin \in Actors /\ Episodes \subseteq Actors
      /\ \A f \in Episodes : f # None /\ f # Admin
  BY ActorsAssumption DEF Actors
<1>2. \A b \in Actors : b # Admin => task'[b] = task[b]
  BY <1>1, Put
<1> SUFFICES ASSUME NEW f \in Episodes
             PROVE  task'[f].pc \notin Checked
  BY DEF VerdictStands, Checked
<1>3. task'[f] = task[f] /\ EpisodeOK(task[f]) /\ lock # f
  BY <1>1, <1>2 DEF TasksOK
<1>4. ~Again(task[f]) /\ ~Commits(task[f])
  BY <1>3 DEF Exclusion
<1> QED BY <1>3, <1>4, EpisodePlace DEF Checked

\* Nothing happened to the cache.
LEMMA SameCache ==
  ASSUME CacheOK, cache' = cache
  PROVE  CacheKept
  BY DEF CacheKept, CacheOK, IsResolved

\* insert_group_ontology_entry_if_not_resolved and clear_group_drift write whole entries.
LEMMA EntryOK ==
  ASSUME NEW onto, NEW drift, NEW refused
  PROVE  /\ DOMAIN Resolved(onto, drift, refused) = {"state", "onto", "drift", "refused"}
         /\ Resolved(onto, drift, refused).state = "resolved"
  BY DEF Resolved

\* An entry that is written over something unresolved.
LEMMA NewEntry ==
  ASSUME NEW onto, NEW drift, NEW refused, ~IsResolved, cache' = Resolved(onto, drift, refused)
  PROVE  CacheKept /\ IsResolved'
<1>1. DOMAIN cache' = {"state", "onto", "drift", "refused"} /\ cache'.state = "resolved"
  BY EntryOK
<1> QED BY <1>1 DEF CacheKept, CacheOK, IsResolved

\* mark_group_resolving and an invalidation leave nothing resolved.
LEMMA NoEntry ==
  ASSUME cache' \in {Uncached, Resolving}
  PROVE  CacheOK'
  BY DEF CacheOK, IsResolved, Uncached, Resolving

-----------------------------------------------------------------------------
(* resolve_ontology, for the episodes and for a reload.                    *)

\* The task of an actor that goes on.
LEMMA WentOn ==
  ASSUME NEW t, Fields \subseteq DOMAIN t, NEW pc, NEW u,
         DOMAIN u = DOMAIN t, u.pc = pc, u.then = t.then,
         "held" \in DOMAIN t => u.held = t.held
  PROVE  /\ Early(t) /\ pc \in {"resolve", "compute", "install", "first_check", "extract"} => Early(u)
         /\ Again(t) /\ pc \in {"resolve", "compute", "install", "second_check"}
              /\ (pc = "install" => u.verdict # "unchecked") => Again(u)
         /\ Reloads(t) /\ pc \in {"mark", "compute", "install", "reloaded"}
              /\ (pc \in {"install", "reloaded"} => u.verdict # "unchecked") => Reloads(u)
  BY DEF Early, Again, Reloads, Fields

\* What happens to a task in a step of the resolution.
ResolutionTask(t, u) ==
    /\ Fields \subseteq DOMAIN t /\ DOMAIN u = DOMAIN t
    /\ u.then = t.then /\ ("held" \in DOMAIN t => u.held = t.held)
    /\ \/ t.pc = "resolve" /\ IsResolved /\ u.pc = t.then /\ u.verdict = t.verdict /\ IsResolved'
       \/ t.pc \in {"resolve", "mark"} /\ u.pc = "compute"
       \/ t.pc = "compute" /\ u.pc = "install" /\ (up => u.verdict # "unchecked")
       \/ t.pc = "install" /\ u.pc = t.then /\ u.verdict = t.verdict
          /\ (t.verdict # "unchecked" => IsResolved')

\* A step of the resolution moves its task on and keeps what is cached.
LEMMA ResolutionEffect ==
  ASSUME NEW a \in Actors, Fields \subseteq DOMAIN task[a], CacheOK, Resolution(a)
  PROVE  /\ CacheKept /\ lock' = lock /\ up' = up /\ ents' = ents /\ edges' = edges
         /\ \E u : task' = [task EXCEPT ![a] = u] /\ ResolutionTask(task[a], u)
<1>0. lock' = lock /\ up' = up /\ ents' = ents /\ edges' = edges
  BY DEF Resolution, Resolve, compute_group_ontology_entry,
         insert_group_ontology_entry_if_not_resolved, graph
<1>1. ASSUME task[a].pc = "resolve", IsResolved, cache' = cache,
             task' = [task EXCEPT ![a].pc = task[a].then, ![a].onto = cache.onto]
      PROVE  CacheKept /\ \E u : task' = [task EXCEPT ![a] = u] /\ ResolutionTask(task[a], u)
  <2> DEFINE u == [task[a] EXCEPT !.pc = task[a].then, !.onto = cache.onto]
  <2>1. task' = [task EXCEPT ![a] = u]
    BY <1>1
  <2>2. IsResolved'
    BY <1>1 DEF IsResolved
  <2>3. ResolutionTask(task[a], u)
    BY <1>1, <2>2 DEF ResolutionTask, Fields
  <2> QED BY <1>1, <2>1, <2>3, SameCache
<1>2. ASSUME task[a].pc \in {"mark", "resolve"}, mark_group_resolving(a)
      PROVE  CacheKept /\ \E u : task' = [task EXCEPT ![a] = u] /\ ResolutionTask(task[a], u)
  <2> DEFINE u == [task[a] EXCEPT !.pc = "compute", !.onto = load_resolved_ontology]
  <2>1. task' = [task EXCEPT ![a] = u]
    BY <1>2 DEF mark_group_resolving
  <2>2. ResolutionTask(task[a], u)
    BY <1>2 DEF ResolutionTask, Fields
  <2>3. CASE cache.state = "absent"
    <3>1. cache' = Resolving /\ ~IsResolved
      BY <1>2, <2>3 DEF mark_group_resolving, IsResolved
    <3> QED BY <2>1, <2>2, <3>1, NoEntry DEF CacheKept
  <2>4. CASE cache.state # "absent"
    BY <1>2, <2>1, <2>2, <2>4, SameCache DEF mark_group_resolving
  <2> QED BY <2>3, <2>4
<1>3. ASSUME compute_group_ontology_entry(a)
      PROVE  CacheKept /\ \E u : task' = [task EXCEPT ![a] = u] /\ ResolutionTask(task[a], u)
  <2> DEFINE d == compute_group_drift(task[a].onto)
             v == check_identity_set(task[a].onto)
             u == [task[a] EXCEPT !.pc = "install", !.drift = d, !.verdict = v]
  <2>1. task' = [task EXCEPT ![a] = u] /\ task[a].pc = "compute" /\ cache' = cache
    BY <1>3 DEF compute_group_ontology_entry
  <2>2. up => v # "unchecked"
    BY DEF check_identity_set
  <2> HIDE DEF d, v
  <2>3. ResolutionTask(task[a], u)
    BY <2>1, <2>2 DEF ResolutionTask, Fields
  <2> QED BY <2>1, <2>3, SameCache
<1>4. ASSUME insert_group_ontology_entry_if_not_resolved(a)
      PROVE  CacheKept /\ \E u : task' = [task EXCEPT ![a] = u] /\ ResolutionTask(task[a], u)
  <2> DEFINE u == [task[a] EXCEPT !.pc = task[a].then]
             r == task[a].verdict = "refused"
  <2>1. task' = [task EXCEPT ![a] = u] /\ task[a].pc = "install"
    BY <1>4 DEF insert_group_ontology_entry_if_not_resolved, Go
  <2>2. cache' = IF IsResolved \/ task[a].verdict = "unchecked" THEN cache
                 ELSE Resolved(task[a].onto, task[a].drift, r)
    BY <1>4 DEF insert_group_ontology_entry_if_not_resolved
  <2> HIDE DEF r
  <2>3. CacheKept /\ (task[a].verdict # "unchecked" => IsResolved')
    <3>1. CASE IsResolved \/ task[a].verdict = "unchecked"
      BY <2>2, <3>1, SameCache DEF CacheKept
    <3>2. CASE ~(IsResolved \/ task[a].verdict = "unchecked")
      BY <2>2, <3>2, NewEntry
    <3> QED BY <3>1, <3>2
  <2>4. ResolutionTask(task[a], u)
    BY <2>1, <2>3 DEF ResolutionTask, Fields
  <2> QED BY <2>1, <2>3, <2>4
<1> QED
  BY <1>0, <1>1, <1>2, <1>3, <1>4 DEF Resolution, Resolve

\* Every step of a resolution has its task at one of four places.
LEMMA ResolutionPlace ==
  ASSUME NEW a, Resolution(a)
  PROVE  task[a].pc \in {"resolve", "mark", "compute", "install"}
  BY DEF Resolution, Resolve, compute_group_ontology_entry, insert_group_ontology_entry_if_not_resolved

\* While an episode has the lock a database is loaded.
LEMMA LockedUp ==
  ASSUME Exclusion, NEW e \in Episodes, lock = e
  PROVE  up
<1>1. e # Admin
  BY ActorsAssumption
<1>2. task[Admin] = Idle
  BY <1>1 DEF Exclusion
<1> QED BY <1>2 DEF Exclusion, Reopens, Idle

\* The resolution of an episode, before its extraction or under the lock.
LEMMA EpisodeResolves ==
  ASSUME Inv, NEW e \in Episodes, Resolution(e)
  PROVE  Inv'
<1>1. e \in Actors /\ EpisodeOK(task[e])
  BY DEF Actors, Inv, TasksOK
<1>2. task[e].pc \in {"resolve", "compute", "install"} /\ (Early(task[e]) \/ Again(task[e]))
  BY <1>1, ResolutionPlace, EpisodePlace
<1>3. Fields \subseteq DOMAIN task[e]
  BY <1>2 DEF Early, Again
<1>4. CacheKept /\ lock' = lock /\ up' = up
  BY <1>1, <1>3, ResolutionEffect DEF Inv
<1>5. PICK u : task' = [task EXCEPT ![e] = u] /\ ResolutionTask(task[e], u)
  BY <1>1, <1>3, ResolutionEffect DEF Inv
<1>6. CASE Early(task[e])
  <2>1. u.pc \in {"compute", "install", "first_check", "extract"}
    BY <1>2, <1>5, <1>6 DEF ResolutionTask, Early
  <2>2. Early(u)
    BY <1>3, <1>5, <1>6, <2>1, WentOn DEF ResolutionTask
  <2>3. EpisodeOK(u) /\ ~Again(u) /\ ~Commits(u)
    BY <2>1, <2>2 DEF EpisodeOK, Again, Commits, Early
  <2>4. TasksOK' /\ Exclusion'
    BY <1>4, <1>5, <2>3, EpisodeMoves DEF Inv
  <2>5. VerdictStands'
    BY <1>4, <1>5, <2>1, EpisodeStands DEF Inv, Checked
  <2> QED BY <1>4, <2>4, <2>5 DEF Inv, CacheKept
<1>7. CASE Again(task[e])
  <2>1. lock = e
    BY <1>7 DEF Inv, Exclusion
  <2>2. up
    BY <2>1, LockedUp DEF Inv
  <2>3. /\ u.pc \in {"compute", "install", "second_check"}
        /\ u.pc = "install" => u.verdict # "unchecked"
        /\ u.pc = "second_check" => IsResolved'
    BY <1>2, <1>5, <1>7, <2>2 DEF ResolutionTask, Again
  <2>4. Again(u)
    BY <1>3, <1>5, <1>7, <2>3, WentOn DEF ResolutionTask
  <2>5. TasksOK' /\ Exclusion'
    BY <1>4, <1>5, <2>1, <2>4, EpisodeMoves DEF Inv, EpisodeOK
  <2>6. VerdictStands'
    BY <1>4, <1>5, <2>3, EpisodeStands DEF Inv, Checked
  <2> QED BY <1>4, <2>5, <2>6 DEF Inv, CacheKept
<1> QED BY <1>2, <1>6, <1>7

\* The resolution of a reload.
LEMMA ReloadResolves ==
  ASSUME Inv, Resolution(Admin)
  PROVE  Inv'
<1>1. Admin \in Actors /\ Admin \notin Episodes /\ AdminOK(task[Admin])
  BY ActorsAssumption DEF Actors, Inv, TasksOK
<1>2. task[Admin].pc \in {"mark", "compute", "install"} /\ Reloads(task[Admin])
  BY <1>1, ResolutionPlace, AdminPlace
<1>3. Fields \subseteq DOMAIN task[Admin] /\ task[Admin] # Idle /\ ~Reopens(task[Admin])
  BY <1>2 DEF Reloads, Reopens, Idle
<1>4. CacheKept /\ lock' = lock /\ up' = up
  BY <1>1, <1>3, ResolutionEffect DEF Inv
<1>5. PICK u : task' = [task EXCEPT ![Admin] = u] /\ ResolutionTask(task[Admin], u)
  BY <1>1, <1>3, ResolutionEffect DEF Inv
<1>6. lock = Admin /\ up
  BY <1>3 DEF Inv, Exclusion
<1>7. /\ u.pc \in {"compute", "install", "reloaded"}
      /\ u.pc \in {"install", "reloaded"} => u.verdict # "unchecked"
  BY <1>2, <1>5, <1>6 DEF ResolutionTask, Reloads
<1>8. Reloads(u)
  BY <1>2, <1>3, <1>5, <1>7, WentOn DEF ResolutionTask
<1>9. TasksOK' /\ Exclusion'
  BY <1>4, <1>5, <1>6, <1>8, AdminMoves DEF Inv, AdminOK
<1>10. VerdictStands'
  BY <1>1, <1>4, <1>5, OtherStands DEF Inv
<1> QED BY <1>4, <1>9, <1>10 DEF Inv, CacheKept

-----------------------------------------------------------------------------
(* The other steps of an episode.                                          *)

\* An episode that ends, giving back the lock if it had it.
LEMMA EpisodeEnds ==
  ASSUME Inv, NEW e \in Episodes, Finish(e), lock' = lock \/ Unlocked(e), up' = up, CacheKept
  PROVE  Inv'
<1>1. task' = [task EXCEPT ![e] = Idle]
  BY DEF Finish
<1>2. EpisodeOK(Idle) /\ ~Again(Idle) /\ ~Commits(Idle) /\ Idle.pc \notin Checked
  BY DEF EpisodeOK, Again, Commits, Idle, Checked
<1>3. lock' = lock \/ {lock, lock'} \subseteq {e, None}
  BY DEF Unlocked
<1>4. TasksOK' /\ Exclusion'
  BY <1>1, <1>2, <1>3, EpisodeMoves DEF Inv
<1>5. VerdictStands'
  BY <1>1, <1>2, EpisodeStands DEF Inv, Checked
<1> QED BY <1>4, <1>5 DEF Inv, CacheKept

\* An episode that goes on without the lock.
LEMMA EpisodeGoesOn ==
  ASSUME Inv, NEW e \in Episodes, NEW c, task' = [task EXCEPT ![e] = c], Early(c) \/ Apart(c),
         lock' = lock, up' = up, cache' = cache
  PROVE  Inv'
<1>1. EpisodeOK(c) /\ ~Again(c) /\ ~Commits(c) /\ c.pc \notin Checked
  BY DEF EpisodeOK, Early, Apart, Again, Commits, Checked
<1>2. TasksOK' /\ Exclusion'
  BY <1>1, EpisodeMoves DEF Inv
<1>3. CacheKept
  BY SameCache DEF Inv
<1>4. VerdictStands'
  BY <1>1, <1>3, EpisodeStands DEF Inv, Checked
<1> QED BY <1>2, <1>3, <1>4 DEF Inv, CacheKept

\* Start and the steps up to the lock.
LEMMA BeforeLock ==
  ASSUME Inv, NEW e \in Episodes,
         Start(e) \/ FirstCheck(e) \/ Extract(e) \/ resolve_phase_b(e) \/ Judge(e)
  PROVE  Inv'
<1>0. EpisodeOK(task[e])
  BY DEF Inv, TasksOK
<1>a. DOMAIN task = Actors /\ e \in Actors
  BY DEF Inv, TasksOK, Actors
<1>1. CASE Start(e)
  <2> DEFINE c == [pc |-> "resolve", then |-> "first_check", onto |-> None, drift |-> FALSE, verdict |-> "same"]
  <2>1. Early(c)
    BY DEF Early, Fields
  <2>2. task' = [task EXCEPT ![e] = c] /\ lock' = lock /\ up' = up /\ cache' = cache
    BY <1>1 DEF Start, graph
  <2> QED BY <2>1, <2>2, EpisodeGoesOn
<1>2. CASE FirstCheck(e)
  <2> DEFINE c == [task[e] EXCEPT !.pc = "resolve", !.then = "extract"]
  <2>1. Early(task[e])
    BY <1>0, <1>2, EpisodePlace DEF FirstCheck
  <2>2. Early(c)
    BY <2>1 DEF Early, Fields
  <2>3. up' = up /\ cache' = cache
    BY <1>2 DEF FirstCheck, graph
  <2>4. \/ Finish(e) /\ Unlocked(e)
        \/ task' = [task EXCEPT ![e] = c] /\ lock' = lock
    BY <1>2 DEF FirstCheck, check_identity
  <2>5. CacheKept
    BY <2>3, SameCache DEF Inv
  <2>6. CASE Finish(e) /\ Unlocked(e)
    BY <2>3, <2>5, <2>6, EpisodeEnds
  <2>7. CASE task' = [task EXCEPT ![e] = c] /\ lock' = lock
    BY <2>2, <2>3, <2>7, EpisodeGoesOn
  <2> QED BY <2>4, <2>6, <2>7
<1>3. CASE Extract(e)
  <2>1. task' = [task EXCEPT ![e] = task'[e]] /\ Apart(task'[e])
    BY <1>3, <1>a DEF Extract, Apart
  <2>2. lock' = lock /\ up' = up /\ cache' = cache
    BY <1>3 DEF Extract, graph
  <2> QED BY <2>1, <2>2, EpisodeGoesOn
<1>4. CASE resolve_phase_b(e)
  <2>1. task' = [task EXCEPT ![e] = task'[e]] /\ Apart(task'[e])
    <3> DEFINE t == task[e]
               exact(i) == {s \in Visible(t) : s.name = t.ents[i].name /\ s.kind = t.ents[i].kind}
               k == {i \in DOMAIN t.ents : exact(i) # {}}
    <3>1. PICK found : task' = [task EXCEPT ![e] =
              [pc |-> "judge", onto |-> t.onto, ents |-> t.ents, edges |-> t.edges,
               found |-> found, sure |-> k]]
      BY <1>4, Zenon DEF resolve_phase_b
    <3> HIDE DEF t, k
    <3> QED BY <1>a, <3>1 DEF Apart
  <2>2. lock' = lock /\ up' = up /\ cache' = cache
    BY <1>4 DEF resolve_phase_b, graph
  <2> QED BY <2>1, <2>2, EpisodeGoesOn
<1>5. CASE Judge(e)
  <2>1. task' = [task EXCEPT ![e] = task'[e]] /\ Apart(task'[e])
    BY <1>5, <1>a DEF Judge, Apart
  <2>2. lock' = lock /\ up' = up /\ cache' = cache
    BY <1>5 DEF Judge, graph
  <2> QED BY <2>1, <2>2, EpisodeGoesOn
<1> QED BY <1>1, <1>2, <1>3, <1>4, <1>5

\* The lock is taken for the commit, and with it the second check begins.
LEMMA TakesLock ==
  ASSUME Inv, NEW e \in Episodes, LockForCommit(e)
  PROVE  Inv'
<1> DEFINE h == task[e]
           c == [pc |-> "resolve", then |-> "second_check", onto |-> None, drift |-> FALSE,
                 verdict |-> "same", held |-> h]
<1>1. "pc" \in DOMAIN h
  BY EpisodePlace DEF Inv, TasksOK
<1>2. task' = [task EXCEPT ![e] = c] /\ lock = None /\ lock' = e /\ up' = up /\ cache' = cache
  BY DEF LockForCommit, graph
<1> HIDE DEF h
<1>3. Again(c) /\ c.pc = "resolve"
  BY <1>1 DEF Again, Fields
<1> HIDE DEF c
<1>4. TasksOK' /\ Exclusion'
  BY <1>2, <1>3, EpisodeMoves DEF Inv, EpisodeOK
<1>5. CacheKept
  BY <1>2, SameCache DEF Inv
<1>6. VerdictStands'
  BY <1>2, <1>3, <1>5, EpisodeStands DEF Inv, Checked
<1> QED BY <1>4, <1>5, <1>6 DEF Inv, CacheKept

\* What is true of a task past the lock.
LEMMA HoldsLock ==
  ASSUME Inv, NEW e \in Episodes, task[e].pc \in Checked
  PROVE  /\ lock = e
         /\ task[e].pc = "second_check" => Again(task[e])
         /\ task[e].pc # "second_check" => Commits(task[e])
  BY EpisodePlace DEF Inv, TasksOK, Exclusion, Checked

\* A step past the lock that keeps it.
LEMMA KeepsLock ==
  ASSUME Inv, NEW e \in Episodes, lock = e, NEW c, task' = [task EXCEPT ![e] = c], Commits(c),
         lock' = lock, up' = up, cache' = cache, IsResolved,
         c.pc = "commit" => ~cache.refused,
         c.pc \in {"write", "clear"} => content_hash(cache.onto) = content_hash(c.onto)
  PROVE  Inv'
<1>1. c.pc # "second_check"
  BY DEF Commits
<1>2. TasksOK' /\ Exclusion'
  BY EpisodeMoves DEF Inv, EpisodeOK
<1>3. CacheKept
  BY SameCache DEF Inv
<1>4. /\ IsResolved'
      /\ c.pc = "commit" => ~cache'.refused
      /\ c.pc \in {"write", "clear"} => content_hash(cache'.onto) = content_hash(c.onto)
  BY Zenon DEF IsResolved
<1>5. VerdictStands'
  BY <1>1, <1>3, <1>4, EpisodeStands DEF Inv
<1> QED BY <1>2, <1>3, <1>5 DEF Inv, CacheKept

\* The second check lets through only what the cached verdict allows.
LEMMA SecondChecks ==
  ASSUME Inv, NEW e \in Episodes, SecondCheck(e)
  PROVE  Inv'
<1>1. task[e].pc = "second_check" /\ cache' = cache /\ up' = up
  BY DEF SecondCheck, graph
<1>2. lock = e /\ Again(task[e]) /\ IsResolved
  BY <1>1, HoldsLock DEF Inv, VerdictStands, Checked
<1> DEFINE c == [task[e].held EXCEPT !.pc = "commit"]
<1>3. \/ Finish(e) /\ Unlocked(e)
      \/ ~cache.refused /\ task' = [task EXCEPT ![e] = c] /\ lock' = lock
  <2> DEFINE v == check_identity_set(load_resolved_ontology) \in {"refused", "unchecked"}
             refused == IF IsResolved THEN cache.refused ELSE v
  <2>1. IF refused THEN Finish(e) /\ Unlocked(e)
        ELSE task' = [task EXCEPT ![e] = c] /\ lock' = lock
    BY DEF SecondCheck, check_identity
  <2>2. refused = cache.refused
    BY <1>2
  <2> QED BY <2>1, <2>2, Zenon
<1>4. CASE Finish(e) /\ Unlocked(e)
  <2>1. CacheKept
    BY <1>1, SameCache DEF Inv
  <2> QED BY <1>1, <1>4, <2>1, EpisodeEnds
<1>5. CASE ~cache.refused /\ task' = [task EXCEPT ![e] = c] /\ lock' = lock
  <2>1. Commits(c) /\ c.pc = "commit"
    BY <1>2 DEF Again, Commits
  <2> HIDE DEF c
  <2> QED BY <1>1, <1>2, <1>5, <2>1, KeepsLock
<1> QED BY <1>3, <1>4, <1>5

\* The commit, the comparison of the hashes and the sidecar.
LEMMA CommitsAndRecords ==
  ASSUME Inv, NEW e \in Episodes,
         Commit(e) \/ CommitFails(e) \/ CompareHash(e) \/ write_group_sidecar(e)
  PROVE  Inv'
<1>1. task[e].pc \in {"commit", "record", "write"} /\ cache' = cache /\ up' = up
  BY DEF Commit, CommitFails, CompareHash, write_group_sidecar, graph
<1>2. lock = e /\ Commits(task[e]) /\ IsResolved
  BY <1>1, HoldsLock DEF Inv, VerdictStands, Checked
<1>3. CacheKept
  BY <1>1, SameCache DEF Inv
<1>4. ASSUME NEW pc \in {"record", "write", "clear"}, Go(e, pc), lock' = lock,
             pc # "record" => content_hash(cache.onto) = content_hash(task[e].onto)
      PROVE  Inv'
  <2> DEFINE c == [task[e] EXCEPT !.pc = pc]
  <2>1. task' = [task EXCEPT ![e] = c]
    BY <1>4 DEF Go
  <2>2. Commits(c) /\ c.pc = pc /\ c.onto = task[e].onto
    BY <1>2 DEF Commits
  <2> HIDE DEF c
  <2> QED BY <1>1, <1>2, <1>4, <2>1, <2>2, KeepsLock
<1>5. \/ Go(e, "record") /\ lock' = lock
      \/ Go(e, "write") /\ lock' = lock /\ content_hash(cache.onto) = content_hash(task[e].onto)
      \/ Go(e, "clear") /\ lock' = lock /\ task[e].pc = "write"
      \/ Finish(e) /\ Unlocked(e)
  BY <1>2 DEF Commit, CommitFails, CompareHash, write_group_sidecar, reloaded_since_extraction
<1>6. CASE Finish(e) /\ Unlocked(e)
  BY <1>1, <1>3, <1>6, EpisodeEnds
<1>7. task[e].pc = "write" => content_hash(cache.onto) = content_hash(task[e].onto)
  BY DEF Inv, VerdictStands
<1> QED BY <1>4, <1>5, <1>6, <1>7

\* clear_group_drift leaves the verdict of a cached entry alone.
LEMMA Cleared ==
  ASSUME CacheOK, NEW onto, cache' = ClearedEntry(onto)
  PROVE  CacheKept
<1>1. CASE IsResolved
  <2>1. cache' = [cache EXCEPT !.drift = FALSE]
    <3>1. cache # Resolving
      BY <1>1 DEF IsResolved, Resolving
    <3> QED BY <1>1, <3>1, Zenon DEF ClearedEntry
  <2> QED BY <1>1, <2>1 DEF CacheOK, CacheKept, IsResolved
<1>2. CASE ~IsResolved /\ cache = Resolving /\ check_identity_set(onto) # "unchecked"
  <2> DEFINE r == check_identity_set(onto) = "refused"
  <2>1. cache' = Resolved(onto, FALSE, r)
    <3>1. ClearedEntry(onto) = Resolved(onto, FALSE, r)
      BY <1>2, Zenon DEF ClearedEntry
    <3> QED BY <3>1, Zenon
  <2> HIDE DEF r
  <2> QED BY <1>2, <2>1, NewEntry
<1>3. CASE ~IsResolved /\ ~(cache = Resolving /\ check_identity_set(onto) # "unchecked")
  <2>1. cache' = cache
    BY <1>3 DEF ClearedEntry
  <2> QED BY <2>1, SameCache
<1> QED BY <1>1, <1>2, <1>3

\* The drift is cleared, by an episode or at the end of a rebuild.
LEMMA Clears ==
  ASSUME Inv, NEW a \in Episodes \cup {Rebuilder}, clear_group_drift(a)
  PROVE  Inv'
<1>1. CacheKept /\ Finish(a) /\ Unlocked(a) /\ up' = up
  BY Cleared DEF clear_group_drift, Inv, graph
<1>2. CASE a \in Episodes
  BY <1>1, <1>2, EpisodeEnds
<1>3. CASE a = Rebuilder
  <2>1. Rebuilder \in Actors \ Episodes /\ Rebuilder # Admin /\ Rebuilder # None
    BY ActorsAssumption DEF Actors
  <2>2. RebuilderOK(Idle) /\ task' = [task EXCEPT ![Rebuilder] = Idle]
    BY <1>1, <1>3 DEF RebuilderOK, Finish
  <2>3. lock # Rebuilder
    BY <2>1 DEF Inv, Exclusion
  <2>4. lock' = lock
    BY <1>1, <1>3, <2>3 DEF Unlocked
  <2>5. TasksOK' /\ Exclusion'
    BY <1>1, <2>2, <2>4, RebuilderMoves DEF Inv
  <2>6. VerdictStands'
    BY <1>1, <2>1, <2>2, OtherStands DEF Inv
  <2> QED BY <1>1, <2>5, <2>6 DEF Inv, CacheKept
<1> QED BY <1>2, <1>3

-----------------------------------------------------------------------------
(* The administrator, the rebuild and the rest.                            *)

\* A reload whose check never failed keeps what it resolved.
LEMMA ReloadEnds ==
  ASSUME Inv, EndReload
  PROVE  Inv'
<1>1. Reloads(task[Admin]) /\ task[Admin].pc = "reloaded"
  BY AdminPlace DEF EndReload, Inv, TasksOK
<1>2. task[Admin].verdict # "unchecked" /\ task[Admin] # Idle /\ ~Reopens(task[Admin])
  BY <1>1 DEF Reloads, Reopens, Idle
<1>3. lock = Admin /\ up
  BY <1>2 DEF Inv, Exclusion
<1>4. cache' = cache /\ task' = [task EXCEPT ![Admin] = Idle] /\ lock' = None /\ up' = up
  BY <1>2, <1>3 DEF EndReload, Finish, Unlocked, graph
<1>5. TasksOK' /\ Exclusion'
  BY <1>3, <1>4, AdminMoves DEF Inv, AdminOK
<1>6. CacheKept
  BY <1>4, SameCache DEF Inv
<1>7. Admin \in Actors \ Episodes
  BY ActorsAssumption DEF Actors
<1>8. VerdictStands'
  BY <1>4, <1>6, <1>7, OtherStands DEF Inv
<1> QED BY <1>5, <1>6, <1>8 DEF Inv, CacheKept

\* What the administrator begins with.
Begun(c) ==
    \/ Reloads(c) /\ up' /\ cache' = Uncached
    \/ Reopens(c) /\ cache' = cache

\* A reload, a purge or a clear_all begins with the lock.
LEMMA AdminBegins ==
  ASSUME Inv, BeginReload \/ delete_by_group \/ BeginClearAll
  PROVE  Inv'
<1>1. lock = None /\ lock' = Admin
  BY DEF BeginReload, delete_by_group, BeginClearAll, AdminLocks
<1>2. \E c : task' = [task EXCEPT ![Admin] = c] /\ Begun(c)
  <2>1. CASE BeginReload
    <3> DEFINE s == cache
               c == [pc |-> "mark", then |-> "reloaded", onto |-> None,
                     drift |-> FALSE, verdict |-> "same", snapshot |-> s]
    <3>1. task' = [task EXCEPT ![Admin] = c] /\ up' /\ cache' = Uncached
      BY <2>1 DEF BeginReload, graph
    <3> HIDE DEF s
    <3>2. Reloads(c)
      BY DEF Reloads, Fields
    <3> QED BY <3>1, <3>2 DEF Begun
  <2>2. CASE delete_by_group
    <3>1. task' = [task EXCEPT ![Admin] = [pc |-> "invalidate"]] /\ cache' = cache
      BY <2>2 DEF delete_by_group
    <3>2. Reopens([pc |-> "invalidate"])
      BY DEF Reopens
    <3> QED BY <3>1, <3>2 DEF Begun
  <2>3. CASE BeginClearAll
    <3>1. PICK pc \in {"reopen", "invalidate"} : task' = [task EXCEPT ![Admin] = [pc |-> pc]]
      BY <2>3 DEF BeginClearAll
    <3>2. Reopens([pc |-> pc]) /\ cache' = cache
      BY <2>3 DEF Reopens, BeginClearAll
    <3> QED BY <3>1, <3>2 DEF Begun
  <2> QED BY <2>1, <2>2, <2>3
<1>3. PICK c : task' = [task EXCEPT ![Admin] = c] /\ Begun(c)
  BY <1>2
<1>4. TasksOK' /\ Exclusion'
  BY <1>1, <1>3, AdminMoves DEF Inv, AdminOK, Begun
<1>5. CacheOK'
  <2>1. CASE cache' = Uncached
    BY <2>1, NoEntry
  <2>2. CASE cache' = cache
    BY <2>2, SameCache DEF Inv, CacheKept
  <2> QED BY <1>3, <2>1, <2>2 DEF Begun
<1>6. VerdictStands'
  BY <1>1, <1>3, NobodyWaits DEF Inv
<1> QED BY <1>4, <1>5, <1>6 DEF Inv

\* The end of a purge or a clear_all: the entry goes, the database comes back.
LEMMA AdminReopens ==
  ASSUME Inv, invalidate_group_ontology \/ Reopen
  PROVE  Inv'
<1>1. task[Admin].pc \in {"invalidate", "reopen"} /\ cache' \in {cache, Uncached}
  BY DEF invalidate_group_ontology, Reopen
<1>2. Reopens(task[Admin]) /\ task[Admin] # Idle
  BY <1>1, AdminPlace DEF Inv, TasksOK, Reopens, Idle
<1>3. lock = Admin
  BY <1>2 DEF Inv, Exclusion
<1>4. TasksOK' /\ Exclusion' /\ VerdictStands'
  <2>1. CASE invalidate_group_ontology
    <3> DEFINE c == [task[Admin] EXCEPT !.pc = "reopen"]
    <3>1. task' = [task EXCEPT ![Admin] = c] /\ lock' = lock
      BY <2>1 DEF invalidate_group_ontology, Go
    <3>2. Reopens(c)
      BY <1>2 DEF Reopens
    <3> HIDE DEF c
    <3> QED BY <1>3, <3>1, <3>2, AdminMoves, NobodyWaits DEF Inv, AdminOK
  <2>2. CASE Reopen
    <3>1. task' = [task EXCEPT ![Admin] = Idle] /\ lock' = None /\ up'
      BY <1>3, <2>2 DEF Reopen, Finish, Unlocked
    <3> QED BY <1>3, <3>1, AdminMoves, NobodyWaits DEF Inv, AdminOK
  <2> QED BY <2>1, <2>2
<1>5. CacheOK'
  <2>1. CASE cache' = Uncached
    BY <2>1, NoEntry
  <2>2. CASE cache' = cache
    BY <2>2, SameCache DEF Inv, CacheKept
  <2> QED BY <1>1, <2>1, <2>2
<1> QED BY <1>4, <1>5 DEF Inv

\* A rebuild records what it used.
LEMMA RebuildEnds ==
  ASSUME Inv, RebuildRecords
  PROVE  Inv'
<1>1. Rebuilder \in Actors \ Episodes
  BY ActorsAssumption DEF Actors
<1> DEFINE o == IF IsResolved THEN cache.onto ELSE load_resolved_ontology
           c == [pc |-> "clear", onto |-> o]
<1>2. task' = [task EXCEPT ![Rebuilder] = c] /\ lock' = lock /\ up' = up /\ cache' = cache
  BY DEF RebuildRecords, graph
<1> HIDE DEF o
<1>3. RebuilderOK(c)
  BY DEF RebuilderOK
<1> HIDE DEF c
<1>4. TasksOK' /\ Exclusion'
  BY <1>2, <1>3, RebuilderMoves DEF Inv
<1>5. CacheKept
  BY <1>2, SameCache DEF Inv
<1>6. VerdictStands'
  BY <1>1, <1>2, <1>5, OtherStands DEF Inv
<1> QED BY <1>4, <1>5, <1>6 DEF Inv, CacheKept

\* At a start of the process nothing is under way.
LEMMA Fresh ==
  ASSUME cache = Uncached, lock = None, up, task = [a \in Actors |-> Idle]
  PROVE  Inv
<1>1. \A e \in Episodes \cup {Admin, Rebuilder} : task[e] = Idle
  BY DEF Actors
<1>2. TasksOK
  BY <1>1 DEF TasksOK, EpisodeOK, AdminOK, RebuilderOK
<1>3. ~Again(Idle) /\ ~Commits(Idle) /\ Idle.pc \notin Checked
  BY DEF Again, Commits, Idle, Checked
<1>4. Exclusion /\ VerdictStands
  BY <1>1, <1>3 DEF Exclusion, VerdictStands, Checked
<1>5. CacheOK
  BY DEF CacheOK, IsResolved, Uncached
<1> QED BY <1>2, <1>4, <1>5 DEF Inv

\* The initial states satisfy the invariant.
LEMMA InitInv == Init => Inv
  BY Fresh DEF Init

\* Every step preserves it.
LEMMA NextInv == Inv /\ [Next]_vars => Inv'
<1> SUFFICES ASSUME Inv, [Next]_vars PROVE Inv'
  OBVIOUS
<1>1. ASSUME UNCHANGED <<cache, up, lock, task>> PROVE Inv'
  BY <1>1 DEF Inv, TasksOK, CacheOK, Exclusion, VerdictStands, IsResolved, Checked
<1>2. CASE Edit \/ Shutdown \/ UNCHANGED vars
  BY <1>1, <1>2 DEF Edit, Shutdown, vars, graph
<1>3. CASE Restart
  <2>1. cache' = Uncached /\ lock' = None /\ up' /\ task' = [a \in Actors |-> Idle]
    BY <1>3 DEF Restart
  <2>2. \A e \in Episodes \cup {Admin, Rebuilder} : task'[e] = Idle
    BY <2>1 DEF Actors
  <2>3. TasksOK'
    BY <2>1, <2>2 DEF TasksOK, EpisodeOK, AdminOK, RebuilderOK
  <2>4. ~Again(Idle) /\ ~Commits(Idle) /\ Idle.pc \notin Checked
    BY DEF Again, Commits, Idle, Checked
  <2>5. Exclusion' /\ VerdictStands'
    BY <2>1, <2>2, <2>4 DEF Exclusion, VerdictStands, Checked
  <2>6. CacheOK'
    BY <2>1, NoEntry
  <2> QED BY <2>3, <2>5, <2>6 DEF Inv
<1>4. ASSUME NEW e \in Episodes, Fails(e) \/ Cancelled(e) PROVE Inv'
  <2>1. Finish(e) /\ lock' = lock /\ up' = up /\ cache' = cache
    BY <1>4 DEF Fails, Cancelled, graph
  <2>2. CacheKept
    BY <2>1, SameCache DEF Inv
  <2> QED BY <2>1, <2>2, EpisodeEnds
<1>5. ASSUME NEW e \in Episodes, Prompt(e) PROVE Inv'
  BY <1>5, EpisodeResolves, BeforeLock, SecondChecks, CommitsAndRecords, Clears DEF Prompt
<1>6. CASE AdminStep
  BY <1>6, ReloadResolves, ReloadEnds, AdminReopens, Clears DEF AdminStep
<1> QED
  BY <1>2, <1>3, <1>4, <1>5, <1>6, BeforeLock, TakesLock, AdminBegins, RebuildEnds DEF Next

\* While an episode is past the lock of its commit, or a reload, a purge
\* or a clear_all is under way, it holds write_lock, and the verdict of the
\* second check is the one that is cached when the episode commits.
THEOREM Invariant == Spec => []Inv
  BY InitInv, NextInv, PTL DEF Spec

-----------------------------------------------------------------------------
(* What the invariant gives.                                               *)

\* From its decision to record the ontology it was extracted under until it
\* cleared the drift, an episode's ontology is the one that is cached, for
\* every number of episodes, reloads, purges and rebuilds.
THEOREM DriftSurvives == Spec => []DriftKept
<1>1. Inv => DriftKept
  BY DEF Inv, VerdictStands, DriftKept, Checked
<1> QED BY <1>1, Invariant, PTL

\* Nothing changes what is stored.
Kept == ents' = ents /\ edges' = edges /\ purged' = purged

\* Entities and edges change in a commit, or all go.
LEMMA Grows ==
  ASSUME Inv, [Next]_vars
  PROVE  \/ Kept
         \/ Emptied
         \/ \E e \in Episodes : Commit(e) \/ CommitFails(e)
<1>1. CASE UNCHANGED vars
  BY <1>1 DEF Kept, vars
<1>2. ASSUME NEW e \in Episodes, Resolution(e) PROVE Kept
  BY <1>2 DEF Kept, Resolution, Resolve, compute_group_ontology_entry,
              insert_group_ontology_entry_if_not_resolved, graph
<1>3. ASSUME Resolution(Admin) PROVE Kept
  BY <1>3 DEF Kept, Resolution, Resolve, compute_group_ontology_entry,
              insert_group_ontology_entry_if_not_resolved, graph
<1>4. ASSUME NEW e \in Episodes,
             \/ Start(e) \/ FirstCheck(e) \/ Extract(e) \/ resolve_phase_b(e) \/ Judge(e)
             \/ LockForCommit(e) \/ SecondCheck(e) \/ CompareHash(e) \/ write_group_sidecar(e)
             \/ Fails(e) \/ Cancelled(e)
      PROVE  Kept
  BY <1>4 DEF Kept, Start, FirstCheck, Extract, resolve_phase_b, Judge, LockForCommit, SecondCheck,
              CompareHash, write_group_sidecar, Fails, Cancelled, graph
<1>5. ASSUME NEW a, clear_group_drift(a) PROVE Kept
  BY <1>5 DEF Kept, clear_group_drift, graph
<1>6. ASSUME \/ Edit \/ BeginReload \/ EndReload \/ invalidate_group_ontology \/ Reopen
             \/ RebuildRecords \/ Shutdown \/ Restart
      PROVE  Kept
  BY <1>6 DEF Kept, Edit, BeginReload, EndReload, invalidate_group_ontology, Reopen, RebuildRecords,
              Shutdown, Restart, graph
<1>7. ASSUME delete_by_group \/ BeginClearAll PROVE Emptied
  BY <1>7 DEF delete_by_group, BeginClearAll
<1> QED
  BY <1>1, <1>2, <1>3, <1>4, <1>5, <1>6, <1>7 DEF Next, Prompt, AdminStep

\* While the group's identity change stands refused no entity is added,
\* whatever check an episode passed before its extraction, for every number
\* of episodes, reloads, purges and rebuilds.
THEOREM RefusalStands == Spec => RefusalHolds
<1>1. ASSUME Inv, [Next]_vars, IsResolved, cache.refused
      PROVE  ents' \subseteq ents
  <2>1. ASSUME NEW e \in Episodes, Commit(e) \/ CommitFails(e) PROVE FALSE
    <3>1. task[e].pc = "commit"
      BY <2>1 DEF Commit, CommitFails
    <3> QED BY <1>1, <3>1 DEF Inv, VerdictStands
  <2> QED BY <1>1, <2>1, Grows DEF Kept, Emptied
<1>2. Inv /\ [Next]_vars =>
        [(IsResolved /\ cache.refused /\ cache' = cache) => ents' \subseteq ents]_vars
  BY <1>1
<1> QED BY <1>2, Invariant, PTL DEF Spec, RefusalHolds

-----------------------------------------------------------------------------
(* What an episode found before it had the lock.                           *)

\* Every uuid that an episode may have read: stored, or purged since.
Known == IdsOf(ents) \cup purged

\* The uuids that a lookup gave for the entities of an extraction.
Names(es, found, K) == \A i \in DOMAIN es : found[i] = None \/ found[i] \in K

\* What a task carries from phase B, before the judge, before the lock, and
\* beside the second check.
FoundIn(t, K) ==
    /\ t.pc = "judge" => Names(t.ents, t.found, K)
    /\ t.pc \in {"lock", "commit"} => Names(t.ents, t.into, K)
    /\ t.pc \in {"resolve", "compute", "install", "second_check"} /\ "held" \in DOMAIN t =>
           Names(t.held.ents, t.held.into, K)

\* Every uuid that an episode carries is stored or was purged.
FoundKnown == \A e \in Episodes : FoundIn(task[e], Known)

\* What is known stays known.
LEMMA FoundMonotone ==
  ASSUME NEW t, NEW K, NEW L, FoundIn(t, K), K \subseteq L
  PROVE  FoundIn(t, L)
  BY DEF FoundIn, Names

\* A commit, failing or not, only adds entities.
LEMMA CommitAdds ==
  ASSUME NEW e \in Episodes, Commit(e) \/ CommitFails(e)
  PROVE  ents \subseteq ents' /\ purged' = purged
<1>1. CASE Commit(e)
  BY <1>1 DEF Commit
<1>2. CASE CommitFails(e)
  <2> DEFINE ins(is) == Inserted(task[e], is)
  <2>1. purged' = purged
    BY <1>2 DEF CommitFails
  <2>2. ents' = ents \/ \E is : ents' = ents \cup ins(is)
    BY <1>2 DEF CommitFails
  <2> HIDE DEF ins
  <2> QED BY <2>1, <2>2
<1> QED BY <1>1, <1>2

\* An entity that is removed counts as purged.
LEMMA KnownGrows ==
  ASSUME Inv, [Next]_vars
  PROVE  Known \subseteq Known'
<1>1. CASE Kept
  BY <1>1 DEF Kept, Known, IdsOf
<1>2. CASE Emptied
  BY <1>2 DEF Emptied, Known, IdsOf
<1>3. ASSUME NEW e \in Episodes, Commit(e) \/ CommitFails(e) PROVE Known \subseteq Known'
  BY <1>3, CommitAdds DEF Known, IdsOf
<1> QED BY <1>1, <1>2, <1>3, Grows

\* One task moved, to a place where it carries nothing unknown.
LEMMA FoundMoves ==
  ASSUME DOMAIN task = Actors, FoundKnown, Known \subseteq Known', NEW a \in Actors, NEW c,
         task' = [task EXCEPT ![a] = c], a \in Episodes => FoundIn(c, Known')
  PROVE  FoundKnown'
<1> SUFFICES ASSUME NEW e \in Episodes PROVE FoundIn(task'[e], Known')
  BY DEF FoundKnown
<1>1. e \in Actors
  BY DEF Actors
<1>2. CASE e = a
  BY <1>1, <1>2
<1>3. CASE e # a
  <2>1. task'[e] = task[e] /\ FoundIn(task[e], Known)
    BY <1>1, <1>3 DEF FoundKnown
  <2> QED BY <2>1, FoundMonotone
<1> QED BY <1>2, <1>3

\* The places at which a task carries nothing.
Light == {"idle", "first_check", "extract", "phase_b", "record", "write", "clear"}

\* A task at one of them.
LEMMA LightFound ==
  ASSUME NEW t, t.pc \in Light, NEW K
  PROVE  FoundIn(t, K)
  BY DEF FoundIn, Light

\* A resolution leaves beside it what is to be committed.
LEMMA ResolutionFound ==
  ASSUME NEW t, NEW u, EpisodeOK(t), t.pc \in {"resolve", "compute", "install"},
         ResolutionTask(t, u), NEW K, FoundIn(t, K)
  PROVE  FoundIn(u, K)
<1>1. CASE Early(t)
  <2>1. u.pc \in {"compute", "install", "first_check", "extract"}
    BY <1>1 DEF ResolutionTask, Early
  <2> QED BY <2>1 DEF FoundIn, ResolutionTask
<1>2. CASE Again(t)
  <2>1. u.pc \in {"compute", "install", "second_check"} /\ "held" \in DOMAIN t /\ u.held = t.held
    BY <1>2 DEF ResolutionTask, Again
  <2> QED BY <2>1 DEF FoundIn
<1> QED BY <1>1, <1>2, EpisodePlace

\* Phase B finds stored entities only.
LEMMA PhaseBFinds ==
  ASSUME NEW e \in Episodes, DOMAIN task = Actors, resolve_phase_b(e)
  PROVE  \E c : task' = [task EXCEPT ![e] = c] /\ FoundIn(c, Known)
<1> DEFINE t == task[e]
           exact(i) == {s \in Visible(t) : s.name = t.ents[i].name /\ s.kind = t.ents[i].kind}
           similar(i) == {s \in Visible(t) : s.kind = t.ents[i].kind}
           k == {i \in DOMAIN t.ents : exact(i) # {}}
           c(found) == [pc |-> "judge", onto |-> t.onto, ents |-> t.ents, edges |-> t.edges,
                        found |-> found, sure |-> k]
<1>1. PICK found \in [DOMAIN t.ents -> {None} \cup {s.id : s \in Visible(t)}] :
          task' = [task EXCEPT ![e] = c(found)]
  BY Zenon DEF resolve_phase_b
<1>2. \A i \in DOMAIN t.ents : found[i] = None \/ found[i] \in Known
  <2>1. Visible(t) \subseteq ents
    BY DEF Visible
  <2> HIDE DEF t
  <2> QED BY <2>1 DEF Known, IdsOf
<1>3. FoundIn(c(found), Known)
  <2> HIDE DEF t, k
  <2> QED BY <1>2 DEF FoundIn, Names
<1> HIDE DEF c
<1> QED BY <1>1, <1>3

\* The judge adds none.
LEMMA JudgeKeeps ==
  ASSUME NEW e \in Episodes, Judge(e), FoundIn(task[e], Known)
  PROVE  \E c : task' = [task EXCEPT ![e] = c] /\ FoundIn(c, Known)
<1> DEFINE t == task[e]
           into(distinct) == [i \in DOMAIN t.ents |-> IF i \in distinct THEN None ELSE t.found[i]]
           c(distinct) == [pc |-> "lock", onto |-> t.onto, ents |-> t.ents, edges |-> t.edges,
                           db |-> inst, into |-> into(distinct)]
<1>1. PICK distinct : task' = [task EXCEPT ![e] = c(distinct)]
  BY Zenon DEF Judge
<1>2. t.pc = "judge"
  BY Zenon DEF Judge
<1>3. Names(t.ents, t.found, Known)
  BY <1>2 DEF FoundIn
<1> HIDE DEF t
<1>4. Names(t.ents, into(distinct), Known)
  BY <1>3 DEF Names
<1> HIDE DEF into
<1>5. FoundIn(c(distinct), Known)
  BY <1>4 DEF FoundIn
<1> HIDE DEF c
<1> QED BY <1>1, <1>5

\* The lock is taken with what is to be committed kept beside the check.
LEMMA LockKeeps ==
  ASSUME NEW e \in Episodes, LockForCommit(e), FoundIn(task[e], Known)
  PROVE  \E c : task' = [task EXCEPT ![e] = c] /\ FoundIn(c, Known)
<1> DEFINE h == task[e]
           c == [pc |-> "resolve", then |-> "second_check", onto |-> None, drift |-> FALSE,
                 verdict |-> "same", held |-> h]
<1>1. task' = [task EXCEPT ![e] = c] /\ h.pc = "lock"
  BY DEF LockForCommit
<1>2. Names(h.ents, h.into, Known)
  BY <1>1 DEF FoundIn
<1> HIDE DEF h
<1>3. FoundIn(c, Known)
  BY <1>2 DEF FoundIn
<1> HIDE DEF c
<1> QED BY <1>1, <1>3

\* What passes the second check is what was kept.
LEMMA CheckKeeps ==
  ASSUME NEW e \in Episodes, SecondCheck(e), EpisodeOK(task[e]), FoundIn(task[e], Known)
  PROVE  \E c : task' = [task EXCEPT ![e] = c] /\ FoundIn(c, Known)
<1> DEFINE h == task[e].held
           c == [h EXCEPT !.pc = "commit"]
<1>1. Again(task[e]) /\ task[e].pc = "second_check"
  BY EpisodePlace DEF SecondCheck
<1>2. "pc" \in DOMAIN h /\ Names(h.ents, h.into, Known)
  BY <1>1 DEF Again, FoundIn
<1>3. Finish(e) \/ task' = [task EXCEPT ![e] = c]
  BY DEF SecondCheck, check_identity
<1> HIDE DEF h
<1>4. c.pc = "commit" /\ c.ents = h.ents /\ c.into = h.into
  BY <1>2
<1> HIDE DEF c
<1>5. FoundIn(c, Known)
  BY <1>2, <1>4 DEF FoundIn
<1>6. FoundIn(Idle, Known)
  BY DEF FoundIn, Idle
<1> QED BY <1>3, <1>5, <1>6 DEF Finish

\* A step that leaves its task with nothing.
LEMMA Lightens ==
  ASSUME NEW e \in Episodes, TasksOK,
         \/ Start(e) \/ FirstCheck(e) \/ Extract(e) \/ Commit(e) \/ CommitFails(e)
         \/ CompareHash(e) \/ write_group_sidecar(e) \/ clear_group_drift(e) \/ Fails(e) \/ Cancelled(e)
  PROVE  \E c : task' = [task EXCEPT ![e] = c] /\ FoundIn(c, Known)
<1>1. EpisodeOK(task[e]) /\ "pc" \in DOMAIN task[e]
  BY EpisodePlace DEF TasksOK
<1>2. ASSUME NEW c, task' = [task EXCEPT ![e] = c], c.pc \in Light
      PROVE  \E d : task' = [task EXCEPT ![e] = d] /\ FoundIn(d, Known)
  BY <1>2, LightFound
<1>3. CASE Finish(e)
  BY <1>2, <1>3 DEF Finish, Idle, Light
<1>4. ASSUME NEW pc \in Light, Go(e, pc)
      PROVE  \E d : task' = [task EXCEPT ![e] = d] /\ FoundIn(d, Known)
  <2> DEFINE c == [task[e] EXCEPT !.pc = pc]
  <2>1. task' = [task EXCEPT ![e] = c] /\ c.pc = pc
    BY <1>1, <1>4 DEF Go
  <2> HIDE DEF c
  <2> QED BY <1>2, <1>4, <2>1
<1>5. CASE Start(e)
  <2> DEFINE c == [pc |-> "resolve", then |-> "first_check", onto |-> None, drift |-> FALSE, verdict |-> "same"]
  <2>1. task' = [task EXCEPT ![e] = c]
    BY <1>5 DEF Start
  <2>2. FoundIn(c, Known)
    BY DEF FoundIn
  <2> HIDE DEF c
  <2> QED BY <2>1, <2>2
<1>6. CASE FirstCheck(e)
  <2> DEFINE c == [task[e] EXCEPT !.pc = "resolve", !.then = "extract"]
  <2>1. Finish(e) \/ task' = [task EXCEPT ![e] = c]
    BY <1>6 DEF FirstCheck, check_identity
  <2>2. Early(task[e])
    BY <1>1, <1>6, EpisodePlace DEF FirstCheck
  <2>3. FoundIn(c, Known)
    BY <2>2 DEF Early, Fields, FoundIn
  <2> HIDE DEF c
  <2> QED BY <1>3, <2>1, <2>3
<1>7. CASE Extract(e)
  <2>1. DOMAIN task = Actors /\ e \in Actors
    BY DEF TasksOK, Actors
  <2>2. task' = [task EXCEPT ![e] = task'[e]] /\ task'[e].pc = "phase_b"
    BY <1>7, <2>1 DEF Extract
  <2> QED BY <1>2, <2>2 DEF Light
<1>8. ASSUME \/ Commit(e) \/ CommitFails(e) \/ CompareHash(e) \/ write_group_sidecar(e)
             \/ clear_group_drift(e) \/ Fails(e) \/ Cancelled(e)
      PROVE  Finish(e) \/ \E pc \in Light : Go(e, pc)
  BY <1>8 DEF Commit, CommitFails, CompareHash, write_group_sidecar, clear_group_drift, Fails,
              Cancelled, Light
<1> QED BY <1>3, <1>4, <1>5, <1>6, <1>7, <1>8

\* A step of somebody who carries no uuid.
LEMMA OthersFound ==
  ASSUME Inv, FoundKnown, Known \subseteq Known',
         \/ Resolution(Admin) \/ clear_group_drift(Rebuilder) \/ Edit \/ BeginReload \/ EndReload
         \/ invalidate_group_ontology \/ Reopen \/ RebuildRecords \/ Shutdown
         \/ delete_by_group \/ BeginClearAll
  PROVE  FoundKnown'
<1>1. DOMAIN task = Actors /\ {Admin, Rebuilder} \subseteq Actors \ Episodes
  BY ActorsAssumption DEF Inv, TasksOK, Actors
<1>2. CASE task' = task
  BY <1>2, FoundMonotone DEF FoundKnown
<1>3. ASSUME NEW a \in {Admin, Rebuilder}, \E c : task' = [task EXCEPT ![a] = c] PROVE FoundKnown'
  BY <1>1, <1>3, FoundMoves
<1>4. ASSUME Resolution(Admin) PROVE \E c : task' = [task EXCEPT ![Admin] = c]
  BY <1>4 DEF Resolution, Resolve, mark_group_resolving, compute_group_ontology_entry,
              insert_group_ontology_entry_if_not_resolved, Go
<1>5. ASSUME clear_group_drift(Rebuilder) \/ RebuildRecords
      PROVE  \E c : task' = [task EXCEPT ![Rebuilder] = c]
  BY <1>5 DEF clear_group_drift, RebuildRecords, Finish
<1>6. ASSUME \/ BeginReload \/ EndReload \/ invalidate_group_ontology \/ Reopen
             \/ delete_by_group \/ BeginClearAll
      PROVE  \E c : task' = [task EXCEPT ![Admin] = c]
  BY <1>6 DEF BeginReload, EndReload, invalidate_group_ontology, Reopen, delete_by_group,
              BeginClearAll, Finish, Go
<1>7. ASSUME Edit \/ Shutdown PROVE task' = task
  BY <1>7 DEF Edit, Shutdown
<1> QED BY <1>2, <1>3, <1>4, <1>5, <1>6, <1>7

\* Every step keeps what the episodes carry known.
LEMMA NextFound == Inv /\ FoundKnown /\ [Next]_vars => FoundKnown'
<1> SUFFICES ASSUME Inv, FoundKnown, [Next]_vars PROVE FoundKnown'
  OBVIOUS
<1>1. Known \subseteq Known' /\ DOMAIN task = Actors /\ Episodes \subseteq Actors /\ TasksOK
  BY KnownGrows DEF Inv, TasksOK, Actors
<1>2. CASE UNCHANGED vars
  BY <1>1, <1>2, FoundMonotone DEF FoundKnown, vars
<1>3. CASE Restart
  <2>1. \A e \in Episodes : task'[e] = Idle
    BY <1>1, <1>3 DEF Restart
  <2>2. FoundIn(Idle, Known')
    BY DEF FoundIn, Idle
  <2> QED BY <2>1, <2>2 DEF FoundKnown
<1>4. ASSUME NEW e \in Episodes, \E c : task' = [task EXCEPT ![e] = c] /\ FoundIn(c, Known)
      PROVE  FoundKnown'
  <2>1. PICK c : task' = [task EXCEPT ![e] = c] /\ FoundIn(c, Known)
    BY <1>4
  <2>2. FoundIn(c, Known')
    BY <1>1, <2>1, FoundMonotone
  <2> QED BY <1>1, <2>1, <2>2, FoundMoves
<1>5. ASSUME NEW e \in Episodes, Resolution(e) PROVE FoundKnown'
  <2>1. EpisodeOK(task[e]) /\ FoundIn(task[e], Known)
    BY <1>1 DEF TasksOK, FoundKnown
  <2>2. task[e].pc \in {"resolve", "compute", "install"} /\ (Early(task[e]) \/ Again(task[e]))
    BY <1>5, <2>1, ResolutionPlace, EpisodePlace
  <2>3. Fields \subseteq DOMAIN task[e] /\ e \in Actors
    BY <1>1, <2>2 DEF Early, Again
  <2>4. PICK u : task' = [task EXCEPT ![e] = u] /\ ResolutionTask(task[e], u)
    BY <1>5, <2>3, ResolutionEffect DEF Inv
  <2>5. FoundIn(u, Known)
    BY <2>1, <2>2, <2>4, ResolutionFound
  <2> QED BY <1>4, <2>4, <2>5
<1>6. ASSUME NEW e \in Episodes,
             \/ Start(e) \/ FirstCheck(e) \/ Extract(e) \/ resolve_phase_b(e) \/ Judge(e)
             \/ LockForCommit(e) \/ SecondCheck(e) \/ Commit(e) \/ CommitFails(e) \/ CompareHash(e)
             \/ write_group_sidecar(e) \/ clear_group_drift(e) \/ Fails(e) \/ Cancelled(e)
      PROVE  FoundKnown'
  <2>1. EpisodeOK(task[e]) /\ FoundIn(task[e], Known)
    BY <1>1 DEF TasksOK, FoundKnown
  <2> QED BY <1>1, <1>4, <1>6, <2>1, Lightens, PhaseBFinds, JudgeKeeps, LockKeeps, CheckKeeps
<1> QED
  BY <1>1, <1>2, <1>3, <1>5, <1>6, OthersFound DEF Next, Prompt, AdminStep

\* An endpoint of an edge is stored after the commit, or was purged.
LEMMA EndpointKnown ==
  ASSUME NEW t, NEW all, all = ents \cup Inserted(t, DOMAIN t.ents),
         Names(t.ents, t.into, Known), NEW name, NEW id \in Endpoint(t, all, name)
  PROVE  id \in IdsOf(all) \cup purged
<1>1. ASSUME NEW i \in DOMAIN t.ents PROVE Ids(t)[i] \in IdsOf(all) \cup purged
  <2>1. CASE t.into[i] # None
    <3>1. Ids(t)[i] = t.into[i]
      BY <2>1 DEF Ids
    <3> QED BY <2>1, <3>1 DEF Names, Known, IdsOf
  <2>2. CASE t.into[i] = None
    <3> DEFINE n == [id |-> made + i, name |-> t.ents[i].name, kind |-> t.ents[i].kind,
                     labels |-> t.ents[i].labels]
    <3>1. Ids(t)[i] = made + i
      BY <2>2 DEF Ids
    <3>2. n \in Inserted(t, DOMAIN t.ents)
      BY <2>2 DEF Inserted
    <3>3. n.id = made + i
      OBVIOUS
    <3> HIDE DEF n
    <3> QED BY <3>1, <3>2, <3>3 DEF IdsOf
  <2> QED BY <2>1, <2>2
<1>2. \/ \E i \in DOMAIN t.ents : id = Ids(t)[i]
      \/ \E s \in all : id = s.id
  BY DEF Endpoint
<1> QED BY <1>1, <1>2 DEF IdsOf

\* A row of a commit that joins nothing has a purged end.
LEMMA CommittedOrphans ==
  ASSUME NEW t, NEW all, all = ents \cup Inserted(t, DOMAIN t.ents),
         Names(t.ents, t.into, Known), NEW r \in CommittedEdges(t, all), r.ends = "missing"
  PROVE  {r.src, r.dst} \cap purged # {}
<1> DEFINE pairs(x) == {q \in Endpoint(t, all, x[1]) \X Endpoint(t, all, x[2]) : q[1] # q[2]}
           row(x, q) == [src |-> q[1], dst |-> q[2], type |-> x[3], ends |-> Matched(q, all)]
           rows(x) == {row(x, q) : q \in pairs(x)}
<1>a. CommittedEdges(t, all) = UNION {rows(x) : x \in t.edges}
  BY Zenon DEF CommittedEdges
<1> HIDE DEF rows
<1>1. PICK x \in t.edges : r \in rows(x)
  BY <1>a
<1> HIDE DEF row, pairs
<1>b. PICK p \in pairs(x) : r = row(x, p)
  BY <1>1 DEF rows
<1>2. PICK q \in Endpoint(t, all, x[1]) \X Endpoint(t, all, x[2]) :
        r = [src |-> q[1], dst |-> q[2], type |-> x[3], ends |-> Matched(q, all)]
  BY <1>b DEF pairs, row
<1>3. r.src = q[1] /\ r.dst = q[2] /\ Matched(q, all) = "missing"
  <2> DEFINE m == Matched(q, all)
  <2>1. r = [src |-> q[1], dst |-> q[2], type |-> x[3], ends |-> m]
    BY <1>2
  <2> HIDE DEF m
  <2>2. r.ends = m
    BY <2>1
  <2> QED BY <2>1, <2>2 DEF m
<1>4. ~({q[1], q[2]} \subseteq IdsOf(all))
  BY <1>3 DEF Matched
<1>5. q[1] \in Endpoint(t, all, x[1]) /\ q[2] \in Endpoint(t, all, x[2])
  OBVIOUS
<1>6. q[1] \in IdsOf(all) \cup purged /\ q[2] \in IdsOf(all) \cup purged
  BY <1>5, EndpointKnown
<1> QED BY <1>3, <1>4, <1>6

\* The rows after a commit: old ones, rows of the commit, and a torn one.
LEMMA CommitRows ==
  ASSUME NEW e \in Episodes, Commit(e) \/ CommitFails(e), NEW r \in edges', r \notin edges,
         r.ends = "missing"
  PROVE  /\ task[e].pc = "commit"
         /\ r \in CommittedEdges(task[e], ents \cup Inserted(task[e], DOMAIN task[e].ents))
<1> DEFINE t == task[e]
           all == ents \cup Inserted(t, DOMAIN t.ents)
           rows == CommittedEdges(t, all)
<1>1. t.pc = "commit"
  BY Zenon DEF Commit, CommitFails
<1>2. \/ edges' = edges \/ edges' = edges \cup rows
      \/ \E some \in SUBSET rows : edges' \in {edges \cup some}
            \cup {edges \cup some \cup {[k EXCEPT !.ends = "torn"]} : k \in rows \ some}
  <2>1. CASE Commit(e)
    BY <2>1 DEF Commit
  <2>2. CASE CommitFails(e)
    BY <2>2 DEF CommitFails
  <2> QED BY <2>1, <2>2
<1>3. ASSUME NEW k \in rows PROVE [k EXCEPT !.ends = "torn"].ends = "torn"
  <2>1. "ends" \in DOMAIN k
    BY <1>3 DEF CommittedEdges
  <2> QED BY <2>1
<1> HIDE DEF all, rows
<1>4. r \in rows
  BY <1>2, <1>3
<1> QED BY <1>1, <1>4 DEF rows, all

\* An edge row whose ends were not there to be matched names an entity that
\* a purge or clear_all removed after phase B found it, for whatever models
\* extract and in every order of merges, inserts, reloads and failures.
THEOREM OrphansExplained == Spec => []OrphansPurged
<1>1. Init => FoundKnown /\ OrphansPurged
  <2>1. FoundIn(Idle, Known)
    BY DEF FoundIn, Idle
  <2>2. Init => \A e \in Episodes : task[e] = Idle
    BY DEF Init, Actors
  <2> QED BY <2>1, <2>2 DEF Init, FoundKnown, OrphansPurged
<1>2. ASSUME Inv, FoundKnown, OrphansPurged, [Next]_vars PROVE OrphansPurged'
  <2>1. CASE Kept
    BY <1>2, <2>1 DEF Kept, OrphansPurged
  <2>2. CASE Emptied
    BY <2>2 DEF Emptied, OrphansPurged
  <2>3. ASSUME NEW e \in Episodes, Commit(e) \/ CommitFails(e) PROVE OrphansPurged'
    <3> SUFFICES ASSUME NEW r \in edges', r.ends = "missing" PROVE {r.src, r.dst} \cap purged' # {}
      BY DEF OrphansPurged
    <3>1. purged' = purged
      BY <2>3, CommitAdds
    <3>2. CASE r \in edges
      BY <1>2, <3>1, <3>2 DEF OrphansPurged
    <3>3. CASE r \notin edges
      <4>1. task[e].pc = "commit"
            /\ r \in CommittedEdges(task[e], ents \cup Inserted(task[e], DOMAIN task[e].ents))
        BY <2>3, <3>3, CommitRows
      <4>2. Names(task[e].ents, task[e].into, Known)
        BY <1>2, <4>1 DEF FoundKnown, FoundIn
      <4> QED BY <3>1, <4>1, <4>2, CommittedOrphans
    <3> QED BY <3>2, <3>3
  <2> QED BY <1>2, <2>1, <2>2, <2>3, Grows
<1> QED BY <1>1, <1>2, NextFound, Invariant, PTL DEF Spec

=============================================================================
