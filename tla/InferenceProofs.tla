-------------------------- MODULE InferenceProofs --------------------------
(***************************************************************************)
(* For every number of callers, pool slots, connections, retries and token *)
(* budgets: a caller reads the answer to its own request, and a call sends *)
(* a bounded number of requests and announces one failover.                *)
(*                                                                         *)
(* An answer belongs to its request because a connection is used by one    *)
(* caller at a time and is clean when it is handed on: Pool says that a    *)
(* connection in a slot nobody has locked carries no unread answer, that   *)
(* the one a caller waits on carries exactly the answer it waits for, and  *)
(* that no two slots share one. The bound on the requests needs to know    *)
(* why each request was sent, which is what Budgeted counts.               *)
(***************************************************************************)
EXTENDS Inference, TLAPS

USE InferenceAssumption

Holding == {"dial", "send", "read"}
Models == {"local", "primary", "fallback"}

Call == [job : JobKinds, model : Models, stage : {None, "entities", "edges", "call"},
         pc : {"new", "slot", "http"} \cup Holding, slot : Slots \cup {None},
         redialled : BOOLEAN, tokens : Nat, retried : BOOLEAN, busy : Nat, sent : Nat,
         kept : BOOLEAN, req : Tags \cup {None}, got : Tags \cup {None}, outcome : {None}]
Rest == [pc : {"idle"}, outcome : {None, "done", "error", "cancelled", "unknown"}]

\* A call goes to the local model exactly when it goes over the pool.
Routed(c, p) == (c.model = "local") <=> (c.job = "embed" \/ p = "sidecar")

\* Only an extraction has stages of its own.
Staged(c) == IF c.job = "extract" THEN c.stage \in {"entities", "edges"} ELSE c.stage = "call"

\* The requests that were sent with the first budget, once there is a second.
Spent(c) == IF c.retried THEN PerBudget(c) ELSE 0

\* What a call may have sent since: before it asks, and while it waits or asks again.
Before(c) == Spent(c) + (IF c.model = "local" THEN 0 ELSE c.busy)
Now(c) == IF c.model # "local" THEN Before(c)
          ELSE Spent(c) + (IF c.redialled THEN 1 ELSE 0) + (IF c.pc = "read" THEN 1 ELSE 0)

\* A call that is about to send a request, and one that is under way.
Sane(c, p) ==
    c \in Call /\ Routed(c, p) /\ Staged(c) /\ c.tokens <= Ceiling /\ c.busy <= MaxBusy
Ready(c, p) == Sane(c, p) /\ c.sent <= Before(c)
Budgeted(c, p) ==
    /\ Sane(c, p) /\ c.sent <= Now(c)
    /\ c.pc # "new" /\ (c.pc = "http" <=> c.model # "local")
    /\ c.pc # "http" => c.slot \in Slots

\* What a task may be doing.
Doing(c, p) == c \in Rest \/ Budgeted(c, p)

-----------------------------------------------------------------------------
(* One call.                                                               *)

\* A call that may send is well formed once it has chosen its way.
LEMMA Asks ==
  ASSUME NEW c, Ready(c, provider), cursor \in Nat
  PROVE  Budgeted(Requesting(c), provider) /\ Requesting(c).pc \notin Holding
<1>1. cursor % PoolSize \in Slots
  BY SMT DEF Slots
<1>2. c \in Call /\ (Pooled(c.job) <=> c.model = "local")
  BY DEF Ready, Sane, Routed, Pooled
<1>3. CASE c.model = "local"
  <2> DEFINE d == [c EXCEPT !.pc = "slot", !.slot = cursor % PoolSize, !.redialled = FALSE]
  <2>1. Requesting(c) = d
    BY <1>2, <1>3 DEF Requesting
  <2>2. d \in Call
    BY <1>1, <1>2 DEF Call
  <2>3. /\ d.job = c.job /\ d.model = c.model /\ d.stage = c.stage /\ d.tokens = c.tokens
        /\ d.retried = c.retried /\ d.busy = c.busy /\ d.sent = c.sent
        /\ d.pc = "slot" /\ d.slot = cursor % PoolSize /\ d.redialled = FALSE
    BY <1>2 DEF Call
  <2> HIDE DEF d
  <2>4. QED
    BY <2>1, <2>2, <2>3, <1>1, <1>3
       DEF Ready, Sane, Budgeted, Routed, Staged, Before, Now, Spent, PerBudget, Holding
<1>4. CASE c.model # "local"
  <2> DEFINE d == [c EXCEPT !.pc = "http"]
  <2>1. Requesting(c) = d
    BY <1>2, <1>4 DEF Requesting
  <2>2. d \in Call
    BY <1>2 DEF Call
  <2>3. /\ d.job = c.job /\ d.model = c.model /\ d.stage = c.stage /\ d.tokens = c.tokens
        /\ d.retried = c.retried /\ d.busy = c.busy /\ d.sent = c.sent /\ d.pc = "http"
    BY <1>2 DEF Call
  <2> HIDE DEF d
  <2>4. QED
    BY <2>1, <2>2, <2>3, <1>4
       DEF Ready, Sane, Budgeted, Routed, Staged, Before, Now, Spent, PerBudget, Holding
<1>5. QED
  BY <1>3, <1>4

\* A stage starts with a budget of its own and nothing sent.
LEMMA Starts ==
  ASSUME NEW c \in Call, NEW stage, NEW budget \in Budgets, cursor \in Nat,
         Routed(c, provider),
         IF c.job = "extract" THEN stage \in {"entities", "edges"} ELSE stage = "call"
  PROVE  Budgeted(Stage(c, stage, budget), provider) /\ Stage(c, stage, budget).pc \notin Holding
<1> DEFINE d == [c EXCEPT !.stage = stage, !.tokens = budget, !.retried = FALSE,
                          !.busy = 0, !.sent = 0]
<1>1. stage \in {"entities", "edges", "call"} /\ budget \in Nat /\ budget <= Ceiling
  OBVIOUS
<1>2. d \in Call
  BY <1>1 DEF Call
<1>3. /\ d.job = c.job /\ d.model = c.model /\ d.stage = stage /\ d.tokens = budget
      /\ d.retried = FALSE /\ d.busy = 0 /\ d.sent = 0
  BY DEF Call
<1>4. Ready(d, provider)
  BY <1>1, <1>2, <1>3 DEF Ready, Sane, Routed, Staged, Before, Spent
<1>5. Stage(c, stage, budget) = Requesting(d)
  BY DEF Stage
<1> HIDE DEF d
<1>6. QED
  BY <1>4, <1>5, Asks

\* A call that ends leaves its task idle.
LEMMA Ends ==
  ASSUME NEW c, NEW o \in {"done", "error", "cancelled", "unknown"}
  PROVE  Ended(c, o) \in Rest /\ Ended(c, o).pc = "idle"
  BY DEF Ended, Idle, Rest

\* The call a task submits.
LEMMA Submitted ==
  ASSUME NEW job \in JobKinds, NEW budget \in Budgets, cursor \in Nat, provider \in Providers
  PROVE  Budgeted(NewCall(job, budget), provider) /\ NewCall(job, budget).pc \notin Holding
<1> DEFINE c == [job |-> job, model |-> FirstModel(job), stage |-> None, pc |-> "new",
                 slot |-> None, redialled |-> FALSE, tokens |-> 0, retried |-> FALSE, busy |-> 0,
                 sent |-> 0, kept |-> FALSE, req |-> None, got |-> None, outcome |-> None]
<1>1. FirstModel(job) \in Models /\ ((FirstModel(job) = "local") <=> (job = "embed" \/ provider = "sidecar"))
  BY DEF FirstModel, Models
<1>2. c \in Call
  BY <1>1 DEF Call
<1>3. c.job = job /\ c.model = FirstModel(job)
  OBVIOUS
<1>4. Routed(c, provider)
  BY <1>1, <1>3 DEF Routed
<1>5. IF c.job = "extract" THEN FirstStage(job) \in {"entities", "edges"} ELSE FirstStage(job) = "call"
  BY <1>3 DEF FirstStage
<1>6. NewCall(job, budget) = Stage(c, FirstStage(job), budget)
  BY DEF NewCall
<1> HIDE DEF c
<1>7. QED
  BY <1>2, <1>4, <1>5, <1>6, Starts

\* A call that fails ends or goes to the fallback.
LEMMA Fails ==
  ASSUME NEW c, Sane(c, provider), NEW budget \in Budgets, cursor \in Nat
  PROVE  Doing(Failed(c, budget), provider) /\ Failed(c, budget).pc \notin Holding
<1>1. CASE c.model = "primary" /\ Fallback
  <2> DEFINE d == [c EXCEPT !.model = "fallback", !.req = None, !.got = None]
  <2>1. d \in Call /\ d.job = c.job /\ d.model = "fallback"
    BY DEF Sane, Call, Models
  <2>2. Routed(d, provider)
    BY <1>1, <2>1 DEF Sane, Routed
  <2>3. IF d.job = "extract" THEN FirstStage(c.job) \in {"entities", "edges"} ELSE FirstStage(c.job) = "call"
    BY <2>1 DEF FirstStage
  <2>4. Failed(c, budget) = Stage(d, FirstStage(c.job), budget)
    BY <1>1 DEF Failed
  <2> HIDE DEF d
  <2>5. QED
    BY <2>1, <2>2, <2>3, <2>4, Starts DEF Doing
<1>2. CASE ~(c.model = "primary" /\ Fallback)
  <2>1. Failed(c, budget) = Ended(c, IF c.kept THEN "done" ELSE "error")
    BY <1>2 DEF Failed
  <2>2. (IF c.kept THEN "done" ELSE "error") \in {"done", "error", "cancelled", "unknown"}
    OBVIOUS
  <2>3. QED
    BY <2>1, <2>2, Ends DEF Doing, Holding
<1>3. QED
  BY <1>1, <1>2

\* What a call makes of an answer, and when.
LEMMA Outcomes ==
  ASSUME NEW c, Sane(c, provider), NEW a \in Answers
  PROVE  /\ Outcome(c, a) \in {"again", "grow", "edges", "rest", "done", "error"}
         /\ Outcome(c, a) = "again" => c.model # "local" /\ c.busy < MaxBusy
         /\ Outcome(c, a) = "grow" => MayGrow(c)
         /\ Outcome(c, a) = "edges" => c.job = "extract"
         /\ Outcome(c, a) = "rest" => c.model = "primary" /\ c.job = "judge"
<1>1. c.job \in JobKinds
  BY DEF Sane, Call
<1>2. CASE a = "busy" /\ c.model # "local" /\ c.busy < MaxBusy
  BY <1>2 DEF Outcome
<1>3. CASE ~(a = "busy" /\ c.model # "local" /\ c.busy < MaxBusy) /\ c.job = "extract"
  <2>1. c.stage \in {"entities", "edges"}
    BY <1>3 DEF Sane, Staged
  <2>2. Outcome(c, a) \in {AnthropicEntities(c, a), OaiEntities(c, a), AnthropicEdges(c, a), OaiEdges(c, a)}
    BY <1>3, <2>1 DEF Outcome
  <2>3. /\ AnthropicEntities(c, a) \in {"grow", "edges", "done", "error"}
        /\ AnthropicEntities(c, a) = "grow" => MayGrow(c)
    BY DEF AnthropicEntities
  <2>4. /\ OaiEntities(c, a) \in {"grow", "edges", "done", "error"}
        /\ OaiEntities(c, a) = "grow" => MayGrow(c)
    BY DEF OaiEntities
  <2>5. /\ AnthropicEdges(c, a) \in {"grow", "done", "error"}
        /\ AnthropicEdges(c, a) = "grow" => MayGrow(c)
    BY DEF AnthropicEdges
  <2>6. /\ OaiEdges(c, a) \in {"grow", "done", "error"}
        /\ OaiEdges(c, a) = "grow" => MayGrow(c)
    BY DEF OaiEdges
  <2>7. QED
    BY <1>3, <2>2, <2>3, <2>4, <2>5, <2>6
<1>4. CASE ~(a = "busy" /\ c.model # "local" /\ c.busy < MaxBusy) /\ c.job # "extract"
  <2>1. c.stage = "call"
    BY <1>4 DEF Sane, Staged
  <2>2. CASE c.job \in {"classify", "relations", "consolidate", "embed"}
    BY <1>4, <2>1, <2>2 DEF Outcome, Classified, RelationsClassified, Consolidated, Embedded
  <2>3. CASE c.job = "judge"
    BY <1>4, <2>1, <2>3 DEF Outcome, Judged
  <2>4. QED
    BY <1>1, <1>4, <2>2, <2>3 DEF JobKinds
<1>5. QED
  BY <1>2, <1>3, <1>4

\* Whatever is answered, the call goes on within its budget or ends.
LEMMA Goes ==
  ASSUME NEW c, Sane(c, provider), NEW a \in Answers, NEW budget \in Budgets, cursor \in Nat,
         c.sent <= Spent(c) + (IF c.model = "local" THEN 2 ELSE c.busy + 1)
  PROVE  Doing(Replied(c, a, budget), provider) /\ Replied(c, a, budget).pc \notin Holding
<1> DEFINE o == Outcome(c, a)
<1>0. c \in Call /\ Routed(c, provider) /\ Staged(c) /\ c.tokens <= Ceiling /\ c.busy <= MaxBusy
  BY DEF Sane
<1>t. c.tokens \in Nat /\ c.busy \in Nat /\ c.sent \in Nat /\ c.retried \in BOOLEAN
  BY <1>0 DEF Call
<1>1. CASE o = "again"
  <2> DEFINE d == [c EXCEPT !.busy = @ + 1]
  <2>1. d \in Call
    BY <1>0, <1>t DEF Call
  <2>2. /\ d.job = c.job /\ d.model = c.model /\ d.stage = c.stage /\ d.tokens = c.tokens
        /\ d.retried = c.retried /\ d.busy = c.busy + 1 /\ d.sent = c.sent
    BY <1>0 DEF Call
  <2>3. c.model # "local" /\ c.busy < MaxBusy
    BY <1>1, Outcomes
  <2>4. Replied(c, a, budget) = Requesting(d)
    BY <1>1 DEF Replied
  <2> HIDE DEF d
  <2>5. Ready(d, provider)
    BY <1>0, <1>t, <2>1, <2>2, <2>3 DEF Ready, Sane, Routed, Staged, Before, Spent, PerBudget
  <2>6. QED
    BY <2>4, <2>5, Asks DEF Doing
<1>2. CASE o = "grow"
  <2> DEFINE d == [c EXCEPT !.tokens = Smaller(2 * c.tokens, Ceiling), !.retried = TRUE, !.busy = 0]
  <2>1. Smaller(2 * c.tokens, Ceiling) \in Nat /\ Smaller(2 * c.tokens, Ceiling) <= Ceiling
    BY <1>t DEF Smaller
  <2>2. d \in Call
    BY <1>0, <2>1 DEF Call
  <2>3. /\ d.job = c.job /\ d.model = c.model /\ d.stage = c.stage
        /\ d.tokens = Smaller(2 * c.tokens, Ceiling)
        /\ d.retried = TRUE /\ d.busy = 0 /\ d.sent = c.sent
    BY <1>0 DEF Call
  <2>4. ~c.retried
    BY <1>2, Outcomes DEF MayGrow
  <2>5. Replied(c, a, budget) = Requesting(d)
    BY <1>2 DEF Replied, Grown
  <2> HIDE DEF d
  <2>6. Ready(d, provider)
    BY <1>0, <1>t, <2>1, <2>2, <2>3, <2>4 DEF Ready, Sane, Routed, Staged, Before, Spent, PerBudget
  <2>7. QED
    BY <2>5, <2>6, Asks DEF Doing
<1>3. CASE o = "edges"
  <2> DEFINE d == [c EXCEPT !.req = None, !.got = None]
  <2>1. d \in Call /\ d.job = c.job /\ d.model = c.model
    BY <1>0 DEF Call
  <2>2. Routed(d, provider) /\ d.job = "extract"
    BY <1>0, <1>3, <2>1, Outcomes DEF Routed
  <2>3. Replied(c, a, budget) = Stage(d, "edges", budget)
    BY <1>3 DEF Replied
  <2> HIDE DEF d
  <2>4. QED
    BY <2>1, <2>2, <2>3, Starts DEF Doing
<1>4. CASE o = "rest"
  <2> DEFINE d == [c EXCEPT !.model = "fallback", !.kept = TRUE]
  <2>1. d \in Call /\ d.job = c.job /\ d.model = "fallback"
    BY <1>0 DEF Call, Models
  <2>2. Routed(d, provider) /\ d.job = "judge"
    BY <1>0, <1>4, <2>1, Outcomes DEF Routed
  <2>3. Replied(c, a, budget) = Stage(d, "call", budget)
    BY <1>4 DEF Replied
  <2> HIDE DEF d
  <2>4. QED
    BY <2>1, <2>2, <2>3, Starts DEF Doing
<1>5. CASE o = "done"
  <2>1. Replied(c, a, budget) = Ended(c, "done")
    BY <1>5 DEF Replied
  <2>2. QED
    BY <2>1, Ends DEF Doing, Holding
<1>6. CASE o = "error"
  <2>1. Replied(c, a, budget) = Failed(c, budget)
    BY <1>6 DEF Replied
  <2>2. QED
    BY <2>1, Fails
<1>7. QED
  BY <1>1, <1>2, <1>3, <1>4, <1>5, <1>6, Outcomes

-----------------------------------------------------------------------------
(* The pool.                                                               *)

Typed ==
    /\ provider \in Providers /\ primary_failed \in BOOLEAN /\ announced \in Nat
    /\ slots \in [Slots -> Conns \cup {None}] /\ holder \in [Slots -> Tasks \cup {None}]
    /\ cursor \in Nat /\ wire \in [Conns -> Wires \cup {None}] /\ calls \in Nat
    /\ DOMAIN task = Tasks

\* What a caller that has locked its slot knows of it.
TaskPool(t) ==
    task[t].pc \in Holding =>
        /\ holder[task[t].slot] = t
        /\ task[t].pc = "dial" <=> slots[task[t].slot] = None
        /\ (task[t].pc = "send" /\ wire[slots[task[t].slot]].up)
             => wire[slots[task[t].slot]].unread = <<>>
        /\ (task[t].pc = "read" /\ wire[slots[task[t].slot]].up)
             => wire[slots[task[t].slot]].unread = <<task[t].req>>

\* A held connection exists, and one that nobody uses has no unread answer.
SlotPool(s) ==
    slots[s] # None =>
        /\ wire[slots[s]] # None
        /\ (holder[s] = None /\ wire[slots[s]].up) => wire[slots[s]].unread = <<>>

\* No connection is in two slots.
SlotsApart == \A r, s \in Slots : (slots[r] = slots[s] /\ slots[r] # None) => r = s

Pool == (\A t \in Tasks : TaskPool(t)) /\ (\A s \in Slots : SlotPool(s)) /\ SlotsApart

Inv == Typed /\ (\A t \in Tasks : Doing(task[t], provider)) /\ Pool /\ FallbackOnce

\* A step of t that leads to c and touches the slot s, which t has locked or finds
\* free, and the connection x, the slot's or a new one.
PoolStep(t, s, x, c) ==
    /\ task' = [task EXCEPT ![t] = c] /\ holder[s] \in {None, t}
    /\ \A r \in Slots \ {s} : holder'[r] = holder[r] /\ slots'[r] = slots[r]
    /\ x = slots[s] \/ (x \in Conns /\ wire[x] = None)
    /\ \A k \in Conns \ {x} : wire'[k] = wire[k]
    /\ slots'[s] \in {None, slots[s], x}

\* Such a step disturbs nobody else.
LEMMA OneSlot ==
  ASSUME Inv, Typed', NEW t \in Tasks, NEW s \in Slots, NEW x, NEW c, PoolStep(t, s, x, c),
         TaskPool(t)', SlotPool(s)'
  PROVE  Pool'
<1> USE DEF PoolStep
<1>1. \A r \in Slots \ {s} : slots[r] # None => slots[r] # x /\ slots[r] # slots'[s]
  <2> SUFFICES ASSUME NEW r \in Slots \ {s}, slots[r] # None
               PROVE  slots[r] # x /\ slots[r] # slots'[s]
    OBVIOUS
  <2>1. slots[r] # slots[s] /\ wire[slots[r]] # None
    BY DEF Inv, Pool, SlotsApart, SlotPool
  <2>2. QED
    BY <2>1
<1>2. ASSUME NEW u \in Tasks PROVE TaskPool(u)'
  <2>1. CASE u = t
    BY <2>1
  <2>2. CASE u # t
    <3>1. task'[u] = task[u]
      BY <2>2 DEF Inv, Typed
    <3>2. CASE task[u].pc \in Holding
      <4>1. Budgeted(task[u], provider)
        BY <3>2 DEF Inv, Doing, Rest, Holding
      <4>2. task[u].slot \in Slots
        BY <3>2, <4>1 DEF Budgeted, Holding
      <4>3. TaskPool(u)
        BY DEF Inv, Pool
      <4>4. task[u].slot # s
        BY <2>2, <3>2, <4>3 DEF TaskPool, Inv, Typed
      <4>5. holder'[task[u].slot] = holder[task[u].slot] /\ slots'[task[u].slot] = slots[task[u].slot]
        BY <4>2, <4>4
      <4>6. slots[task[u].slot] # None => wire'[slots[task[u].slot]] = wire[slots[task[u].slot]]
        BY <1>1, <4>2, <4>4 DEF Inv, Typed
      <4>7. QED
        BY <3>1, <3>2, <4>3, <4>5, <4>6 DEF TaskPool, Holding
    <3>3. CASE task[u].pc \notin Holding
      BY <3>1, <3>3 DEF TaskPool
    <3>4. QED
      BY <3>2, <3>3
  <2>3. QED
    BY <2>1, <2>2
<1>3. ASSUME NEW r \in Slots PROVE SlotPool(r)'
  <2>1. CASE r = s
    BY <2>1
  <2>2. CASE r # s
    <3>1. SlotPool(r)
      BY DEF Inv, Pool
    <3>2. holder'[r] = holder[r] /\ slots'[r] = slots[r]
      BY <2>2
    <3>3. slots[r] # None => wire'[slots[r]] = wire[slots[r]]
      BY <1>1, <2>2 DEF Inv, Typed
    <3>4. QED
      BY <3>1, <3>2, <3>3 DEF SlotPool
  <2>3. QED
    BY <2>1, <2>2
<1>4. SlotsApart'
  <2> SUFFICES ASSUME NEW q \in Slots, NEW r \in Slots, slots'[q] = slots'[r], slots'[q] # None, q # r
               PROVE  FALSE
    BY DEF SlotsApart
  <2>1. CASE q = s
    BY <1>1, <2>1
  <2>2. CASE r = s
    BY <1>1, <2>2
  <2>3. CASE q # s /\ r # s
    BY <2>3 DEF Inv, Pool, SlotsApart
  <2>4. QED
    BY <2>1, <2>2, <2>3
<1>5. QED
  BY <1>2, <1>3, <1>4 DEF Pool

\* A step that leaves the pool alone, of a caller that holds no slot before or after.
LEMMA NoSlot ==
  ASSUME Inv, NEW t \in Tasks, NEW c, task' = [task EXCEPT ![t] = c],
         c.pc \notin Holding, UNCHANGED <<slots, holder, wire>>
  PROVE  Pool'
<1>1. \A u \in Tasks : u # t => task'[u] = task[u]
  BY DEF Inv, Typed
<1>2. task'[t] = c
  BY DEF Inv, Typed
<1>a. slots' = slots /\ holder' = holder /\ wire' = wire
  OBVIOUS
<1>3. ASSUME NEW u \in Tasks PROVE TaskPool(u)'
  <2>1. TaskPool(u)
    BY DEF Inv, Pool
  <2>2. CASE u = t
    <3>1. task'[u].pc \notin Holding
      BY <1>2, <2>2
    <3>2. QED
      BY <3>1 DEF TaskPool
  <2>3. CASE u # t
    <3>1. task'[u] = task[u]
      BY <1>1, <2>3
    <3>2. QED
      BY <1>a, <2>1, <3>1, Zenon DEF TaskPool
  <2>4. QED
    BY <2>2, <2>3
<1>4. (\A r \in Slots : SlotPool(r)') /\ SlotsApart'
  BY <1>a DEF Inv, Pool, SlotPool, SlotsApart
<1>5. QED
  BY <1>3, <1>4 DEF Pool

\* What a step of one caller does to what the callers are doing.
LEMMA OneTask ==
  ASSUME Inv, NEW t \in Tasks, NEW c, task' = [task EXCEPT ![t] = c],
         Doing(c, provider), provider' = provider
  PROVE  DOMAIN task' = Tasks /\ \A u \in Tasks : Doing(task[u], provider)'
<1>1. \A u \in Tasks : task'[u] = IF u = t THEN c ELSE task[u]
  BY DEF Inv, Typed
<1>2. QED
  BY <1>1 DEF Inv, Typed

\* A failure that is noted leaves one announcement at most.
LEMMA NotedOnce ==
  ASSUME Inv, NEW c, FailureNoted(c)
  PROVE  FallbackOnce' /\ primary_failed' \in BOOLEAN /\ announced' \in Nat
<1>1. CASE announced' = announced + 1 /\ primary_failed' = TRUE /\ ~primary_failed
  <2>1. announced = 0
    BY <1>1 DEF Inv, Typed, FallbackOnce
  <2>2. QED
    BY <1>1, <2>1 DEF FallbackOnce
<1>2. CASE UNCHANGED <<announced, primary_failed>>
  BY <1>2 DEF Inv, Typed, FallbackOnce
<1>3. QED
  BY <1>1, <1>2 DEF FailureNoted, Announce

\* At most one failure of a call is announced, whichever answer notes it.
LEMMA NotedAnswer ==
  ASSUME Inv, NEW c, NEW a, Noted(c, a)
  PROVE  FallbackOnce' /\ primary_failed' \in BOOLEAN /\ announced' \in Nat
<1>1. CASE FailureNoted(c)
  BY <1>1, NotedOnce
<1>2. CASE UNCHANGED <<announced, primary_failed>>
  BY <1>2 DEF Inv, Typed, FallbackOnce
<1>3. QED
  BY <1>1, <1>2 DEF Noted

\* Submit.
LEMMA SubmitInv ==
  ASSUME Inv, NEW t \in Tasks, NEW j \in Jobs[t], NEW b \in Budgets, Submit(t, j, b)
  PROVE  Inv'
<1> DEFINE c == NewCall(j, b)
<1>1. j \in JobKinds
  OBVIOUS
<1>2. Budgeted(c, provider) /\ c.pc \notin Holding
  BY <1>1, Submitted DEF Inv, Typed
<1>3. task' = [task EXCEPT ![t] = c] /\ cursor' \in Nat /\ calls' \in Nat
      /\ UNCHANGED <<provider, primary_failed, announced, slots, holder, wire>>
  BY DEF Submit, Put, Bump, Inv, Typed
<1> HIDE DEF c
<1>4. Typed' /\ \A u \in Tasks : Doing(task[u], provider)'
  BY <1>2, <1>3, OneTask DEF Doing, Inv, Typed
<1>5. Pool'
  BY <1>2, <1>3, NoSlot
<1>6. QED
  BY <1>3, <1>4, <1>5 DEF Inv, FallbackOnce

\* The call of a task that is not idle, and the fields its steps read.
LEMMA Under ==
  ASSUME Inv, NEW t \in Tasks, task[t].pc \in {"slot", "http"} \cup Holding
  PROVE  /\ Budgeted(task[t], provider) /\ Sane(task[t], provider) /\ task[t] \in Call
         /\ task[t].pc # "http" => task[t].model = "local" /\ task[t].slot \in Slots
         /\ task[t].pc = "http" => task[t].model # "local"
  BY DEF Inv, Doing, Rest, Budgeted, Holding, Sane

\* An answer over HTTP.
LEMMA HttpInv ==
  ASSUME Inv, NEW t \in Tasks, NEW a \in Answers, NEW b \in Budgets,
         HttpAnswer(t, a, b) \/ HttpTransport(t, b)
  PROVE  Inv'
<1>1. task[t].pc = "http"
  BY DEF HttpAnswer, HttpTransport
<1>2. Budgeted(task[t], provider) /\ Sane(task[t], provider) /\ task[t] \in Call /\ task[t].model # "local"
  BY <1>1, Under
<1>3. UNCHANGED <<provider, slots, holder, cursor, wire, calls>>
  BY DEF HttpAnswer, HttpTransport
<1>4. PICK c : /\ task' = [task EXCEPT ![t] = c] /\ Doing(c, provider) /\ c.pc \notin Holding
               /\ FallbackOnce' /\ primary_failed' \in BOOLEAN /\ announced' \in Nat
  <2>1. CASE HttpAnswer(t, a, b)
    <3> DEFINE d == [task[t] EXCEPT !.sent = @ + 1]
    <3>1. Noted(d, a) /\ task' = [task EXCEPT ![t] = Replied(d, a, b)]
      BY <2>1 DEF HttpAnswer, Put
    <3>2. d \in Call
      BY <1>2 DEF Call
    <3>3. /\ d.job = task[t].job /\ d.model = task[t].model /\ d.stage = task[t].stage
          /\ d.tokens = task[t].tokens /\ d.retried = task[t].retried /\ d.busy = task[t].busy
          /\ d.sent = task[t].sent + 1
      BY <1>2 DEF Call
    <3> HIDE DEF d
    <3>4. Sane(d, provider)
      BY <1>2, <3>2, <3>3 DEF Sane, Routed, Staged
    <3>5. d.sent <= Spent(d) + (IF d.model = "local" THEN 2 ELSE d.busy + 1)
      <4>1. task[t].sent <= Spent(task[t]) + task[t].busy /\ task[t].sent \in Nat /\ task[t].busy \in Nat
        BY <1>2 DEF Budgeted, Now, Before, Call
      <4>2. Spent(d) = Spent(task[t]) /\ Spent(d) \in Nat
        BY <3>3 DEF Spent, PerBudget
      <4>3. QED
        BY <1>2, <3>3, <4>1, <4>2
    <3>6. cursor \in Nat
      BY DEF Inv, Typed
    <3>7. Doing(Replied(d, a, b), provider) /\ Replied(d, a, b).pc \notin Holding
      BY <3>4, <3>5, <3>6, Goes
    <3>8. QED
      BY <3>1, <3>7, NotedAnswer
  <2>2. CASE HttpTransport(t, b)
    <3>1. FailureNoted(task[t]) /\ task' = [task EXCEPT ![t] = Failed(task[t], b)]
      BY <2>2 DEF HttpTransport, Put
    <3>2. cursor \in Nat
      BY DEF Inv, Typed
    <3>3. Doing(Failed(task[t], b), provider) /\ Failed(task[t], b).pc \notin Holding
      BY <1>2, <3>2, Fails
    <3>4. QED
      BY <3>1, <3>3, NotedOnce
  <2>3. QED
    BY <2>1, <2>2
<1>5. DOMAIN task' = Tasks /\ \A u \in Tasks : Doing(task[u], provider)'
  BY <1>3, <1>4, OneTask
<1>6. Typed'
  BY <1>3, <1>4, <1>5 DEF Inv, Typed
<1>7. Pool'
  BY <1>3, <1>4, NoSlot
<1>8. QED
  BY <1>4, <1>5, <1>6, <1>7 DEF Inv

\* A pooled call that goes from one place of the exchange to the next.
LEMMA Along ==
  ASSUME NEW c, NEW p, NEW d \in Call, Budgeted(c, p), c.model = "local",
         d.job = c.job, d.model = c.model, d.stage = c.stage, d.tokens = c.tokens,
         d.retried = c.retried, d.busy = c.busy, d.slot = c.slot, d.pc \in Holding,
         d.sent <= Spent(c) + (IF d.redialled THEN 1 ELSE 0) + (IF d.pc = "read" THEN 1 ELSE 0)
  PROVE  Budgeted(d, p)
<1>1. Sane(d, p)
  BY DEF Budgeted, Sane, Routed, Staged
<1>2. d.sent <= Now(d)
  BY DEF Now, Spent, PerBudget
<1>3. QED
  BY <1>1, <1>2 DEF Budgeted, Holding

\* The same call when only its place changes.
LEMMA Onward ==
  ASSUME NEW c, NEW p, Budgeted(c, p), c.model = "local", c.pc # "read", NEW pc \in {"dial", "send"},
         NEW d, d = [c EXCEPT !.pc = pc]
  PROVE  Budgeted(d, p) /\ d.pc = pc /\ d.slot = c.slot
<1>1. c \in Call /\ c.slot \in Slots
  BY DEF Budgeted, Sane
<1>2. d \in Call
  BY <1>1 DEF Call, Holding
<1>3. /\ d.job = c.job /\ d.model = c.model /\ d.stage = c.stage /\ d.tokens = c.tokens
      /\ d.retried = c.retried /\ d.busy = c.busy /\ d.slot = c.slot
      /\ d.pc = pc /\ d.redialled = c.redialled /\ d.sent = c.sent
  BY <1>1 DEF Call
<1>4. d.pc \in Holding
      /\ d.sent <= Spent(c) + (IF d.redialled THEN 1 ELSE 0) + (IF d.pc = "read" THEN 1 ELSE 0)
  BY <1>3 DEF Budgeted, Now, Holding
<1>5. QED
  BY <1>2, <1>3, <1>4, Along

\* Acquire and Dial.
LEMMA AcquireInv ==
  ASSUME Inv, NEW t \in Tasks, Acquire(t)
  PROVE  Inv'
<1>s. PICK s \in Slots : s = task[t].slot
  BY Under DEF Acquire
<1> DEFINE pc == IF slots[s] = None THEN "dial" ELSE "send"
           c == [task[t] EXCEPT !.pc = pc]
<1>1. Budgeted(task[t], provider) /\ task[t].model = "local" /\ task[t].pc = "slot"
  BY Under DEF Acquire
<1>2. /\ holder[s] = None /\ holder' = [holder EXCEPT ![s] = t] /\ task' = [task EXCEPT ![t] = c]
      /\ UNCHANGED <<provider, primary_failed, announced, slots, cursor, wire, calls>>
  BY <1>s DEF Acquire, Put
<1>3. pc \in {"dial", "send"} /\ (pc = "dial" <=> slots[s] = None)
  OBVIOUS
<1> HIDE DEF pc
<1>4. Budgeted(c, provider) /\ c.pc = pc /\ c.slot = s
  BY <1>s, <1>1, <1>3, Onward
<1> HIDE DEF c
<1>5. DOMAIN task' = Tasks /\ (\A u \in Tasks : Doing(task[u], provider)') /\ task'[t] = c
  BY <1>2, <1>4, OneTask DEF Doing, Inv, Typed
<1>6. Typed'
  BY <1>1, <1>2, <1>5 DEF Inv, Typed
<1>7. /\ holder'[s] = t /\ \A r \in Slots \ {s} : holder'[r] = holder[r]
  BY <1>1, <1>2 DEF Inv, Typed
<1>8. SlotPool(s)
  BY <1>1 DEF Inv, Pool
<1>9. SlotPool(s)'
  BY <1>2, <1>7, <1>8 DEF SlotPool
<1>t. TaskPool(t)'
  <2>1. task'[t].slot = s /\ task'[t].pc = pc
    BY <1>4, <1>5
  <2>2. (pc = "send" /\ wire[slots[s]].up) => wire[slots[s]].unread = <<>>
    BY <1>2, <1>3, <1>8 DEF SlotPool
  <2>3. QED
    BY <1>2, <1>3, <1>7, <2>1, <2>2 DEF TaskPool
<1>10. Pool'
  <2>1. PoolStep(t, s, slots[s], c)
    BY <1>1, <1>2, <1>7 DEF PoolStep
  <2>2. QED
    BY <1>6, <1>9, <1>t, <2>1, OneSlot
<1>11. QED
  BY <1>2, <1>5, <1>6, <1>10 DEF Inv, FallbackOnce

\* Connecting: the slot gets a connection nobody has dialled, with nothing
\* unread on it.
LEMMA DialInv ==
  ASSUME Inv, NEW t \in Tasks, Dial(t)
  PROVE  Inv'
<1>s. PICK s \in Slots : s = task[t].slot
  BY Under DEF Dial, Holding
<1> DEFINE c == [task[t] EXCEPT !.pc = "send"]
           w == [up |-> TRUE, unread |-> <<>>]
<1>1. Budgeted(task[t], provider) /\ task[t].model = "local" /\ task[t].pc = "dial"
  BY Under DEF Dial, Holding
<1>2. PICK x \in Conns \ Dialled : wire' = [wire EXCEPT ![x] = w] /\ slots' = [slots EXCEPT ![s] = x]
  BY <1>s DEF Dial
<1>3. x \in Conns /\ wire[x] = None
  BY DEF Dialled
<1>4. task' = [task EXCEPT ![t] = c] /\ UNCHANGED <<provider, primary_failed, announced, holder, cursor, calls>>
  BY DEF Dial, Put
<1>5. Budgeted(c, provider) /\ c.pc = "send" /\ c.slot = s
  BY <1>s, <1>1, Onward
<1>6. w \in Wires /\ w.unread = <<>>
  BY DEF Wires
<1>n. w # None
  BY <1>6
<1> HIDE DEF c, w
<1>7. DOMAIN task' = Tasks /\ (\A u \in Tasks : Doing(task[u], provider)') /\ task'[t] = c
  BY <1>4, <1>5, OneTask DEF Doing, Inv, Typed
<1>8. Typed'
  BY <1>1, <1>2, <1>3, <1>4, <1>6, <1>7 DEF Inv, Typed
<1>9. /\ slots'[s] = x /\ wire'[x] = w /\ holder[s] = t
      /\ \A r \in Slots \ {s} : slots'[r] = slots[r]
      /\ \A k \in Conns \ {x} : wire'[k] = wire[k]
  BY <1>s, <1>1, <1>2, <1>3 DEF Inv, Typed, Pool, TaskPool, Holding
<1>10. x # None
  BY <1>3 DEF Conns
<1>11. SlotPool(s)'
  BY <1>6, <1>n, <1>9 DEF SlotPool
<1>t. TaskPool(t)'
  <2>1. task'[t].slot = s /\ task'[t].pc = "send" /\ holder'[s] = t
    BY <1>4, <1>5, <1>7, <1>9
  <2>2. QED
    BY <1>6, <1>9, <1>10, <2>1 DEF TaskPool
<1>12. Pool'
  <2>1. PoolStep(t, s, x, c)
    BY <1>3, <1>4, <1>9 DEF PoolStep
  <2>2. QED
    BY <1>8, <1>11, <1>t, <2>1, OneSlot
<1>13. QED
  BY <1>4, <1>7, <1>8, <1>12 DEF Inv, FallbackOnce

\* A caller gives its slot back and goes on to c; it leaves a connection without
\* unread answers, or none.
GivesBack(t, s, c) ==
    /\ task[t].pc \in Holding /\ s = task[t].slot
    /\ Doing(c, provider) /\ c.pc \notin Holding /\ task' = [task EXCEPT ![t] = c]
    /\ holder' = [holder EXCEPT ![s] = None]
    /\ slots' \in {slots, [slots EXCEPT ![s] = None]}
    /\ wire' \in [Conns -> Wires \cup {None}]
    /\ \A k \in Conns \ {slots[s]} : wire'[k] = wire[k]
    /\ slots'[s] # None => /\ wire'[slots[s]] # None
                           /\ wire'[slots[s]].up => wire'[slots[s]].unread = <<>>
    /\ cursor' \in Nat /\ UNCHANGED <<provider, primary_failed, announced, calls>>

\* It leaves the pool sound.
LEMMA Released ==
  ASSUME Inv, NEW t \in Tasks, NEW s \in Slots, NEW c, GivesBack(t, s, c)
  PROVE  Inv'
<1> USE DEF GivesBack
<1>1. DOMAIN task' = Tasks /\ (\A u \in Tasks : Doing(task[u], provider)') /\ task'[t] = c
  BY OneTask DEF Inv, Typed
<1>2. slots' \in [Slots -> Conns \cup {None}] /\ slots'[s] \in {slots[s], None}
      /\ \A r \in Slots \ {s} : slots'[r] = slots[r]
  BY DEF Inv, Typed
<1>3. holder' \in [Slots -> Tasks \cup {None}] /\ holder'[s] = None
      /\ \A r \in Slots \ {s} : holder'[r] = holder[r]
  BY DEF Inv, Typed
<1>4. Typed'
  BY <1>1, <1>2, <1>3 DEF Inv, Typed
<1>5. holder[s] = t
  BY DEF Inv, Pool, TaskPool
<1>6. TaskPool(t)'
  BY <1>1 DEF TaskPool
<1>7. SlotPool(s)'
  BY <1>2 DEF SlotPool
<1>8. Pool'
  <2>1. PICK x : x = slots[s]
    OBVIOUS
  <2>2. \A k \in Conns \ {x} : wire'[k] = wire[k]
    BY <2>1
  <2>3. \A r \in Slots \ {s} : holder'[r] = holder[r] /\ slots'[r] = slots[r]
    BY <1>2, <1>3
  <2>4. slots'[s] \in {None, slots[s], x} /\ holder[s] \in {None, t}
    BY <1>2, <1>5
  <2>5. PoolStep(t, s, x, c)
    BY <2>1, <2>2, <2>3, <2>4 DEF PoolStep
  <2>6. QED
    BY <1>4, <1>6, <1>7, <2>5, OneSlot
<1>9. QED
  BY <1>1, <1>4, <1>8 DEF Inv, FallbackOnce

\* A caller whose connection broke has given it up, and dials again or ends.
LEMMA BrokenInv ==
  ASSUME Inv, NEW t \in Tasks, task[t].pc \in {"send", "read"}, Broken(t),
         UNCHANGED <<provider, primary_failed, announced, cursor, wire, calls>>
  PROVE  Inv'
<1>1. Budgeted(task[t], provider) /\ task[t].model = "local" /\ task[t] \in Call /\ TaskPool(t)
      /\ task[t].pc \in Holding
  BY Under DEF Inv, Pool, Holding
<1>2. PICK s \in Slots : s = task[t].slot
  BY Under DEF Holding
<1>3. slots' = [slots EXCEPT ![s] = None] /\ slots'[s] = None
  BY <1>2 DEF Broken, Inv, Typed
<1>4. CASE task[t].redialled
  <2>1. holder' = [holder EXCEPT ![s] = None] /\ task' = [task EXCEPT ![t] = Ended(task[t], "error")]
    BY <1>2, <1>4 DEF Broken, Release, Put
  <2>2. Doing(Ended(task[t], "error"), provider) /\ Ended(task[t], "error").pc \notin Holding
    BY Ends DEF Doing, Holding
  <2>3. wire' \in [Conns -> Wires \cup {None}] /\ cursor' \in Nat
    BY DEF Inv, Typed
  <2>4. GivesBack(t, s, Ended(task[t], "error"))
    BY <1>1, <1>2, <1>3, <2>1, <2>2, <2>3 DEF GivesBack
  <2>5. QED
    BY <2>4, Released
<1>5. CASE ~task[t].redialled
  <2> DEFINE c == [task[t] EXCEPT !.pc = "dial", !.redialled = TRUE]
  <2>1. UNCHANGED holder /\ task' = [task EXCEPT ![t] = c]
    BY <1>5 DEF Broken, Put
  <2>2. Budgeted(c, provider) /\ c.pc = "dial" /\ c.slot = s
    <3>1. c \in Call
      BY <1>1 DEF Call, Holding
    <3>2. /\ c.job = task[t].job /\ c.model = task[t].model /\ c.stage = task[t].stage
          /\ c.tokens = task[t].tokens /\ c.retried = task[t].retried /\ c.busy = task[t].busy
          /\ c.slot = task[t].slot /\ c.pc = "dial" /\ c.redialled = TRUE /\ c.sent = task[t].sent
      BY <1>1 DEF Call
    <3>3. c.pc \in Holding
          /\ c.sent <= Spent(task[t]) + (IF c.redialled THEN 1 ELSE 0) + (IF c.pc = "read" THEN 1 ELSE 0)
      BY <1>1, <1>5, <3>2 DEF Budgeted, Now, Spent, PerBudget, Holding, Call
    <3> HIDE DEF c
    <3>4. QED
      BY <1>1, <1>2, <3>1, <3>2, <3>3, Along
  <2> HIDE DEF c
  <2>3. DOMAIN task' = Tasks /\ (\A u \in Tasks : Doing(task[u], provider)') /\ task'[t] = c
    BY <2>1, <2>2, OneTask DEF Doing, Inv, Typed
  <2>4. Typed'
    BY <1>3, <2>1, <2>3 DEF Inv, Typed
  <2>5. holder[s] = t
    BY <1>1, <1>2 DEF TaskPool, Holding
  <2>6. TaskPool(t)'
    BY <1>3, <2>1, <2>2, <2>3, <2>5 DEF TaskPool
  <2>7. SlotPool(s)'
    BY <1>3 DEF SlotPool
  <2>8. \A r \in Slots \ {s} : slots'[r] = slots[r]
    BY <1>3 DEF Inv, Typed
  <2>9. Pool'
    <3>1. PoolStep(t, s, slots[s], c)
      BY <1>3, <2>1, <2>5, <2>8 DEF PoolStep
    <3>2. QED
      BY <2>4, <2>6, <2>7, <3>1, OneSlot
  <2>10. QED
    BY <2>3, <2>4, <2>9 DEF Inv, FallbackOnce
<1>6. QED
  BY <1>4, <1>5

\* Nothing, and one request, as what is left to read of a connection.
LEMMA One ==
  ASSUME NEW S, NEW q \in S
  PROVE  <<q>> \in Seq(S)
  OBVIOUS

\* The empty sequence is a sequence over anything.
LEMMA Nothing == \A S : <<>> \in Seq(S)
  OBVIOUS

\* A call that has sent its request is still a call.
LEMMA SentCall ==
  ASSUME NEW c \in Call, NEW q \in Tags, NEW n \in Nat
  PROVE  [c EXCEPT !.pc = "read", !.req = q, !.sent = n] \in Call
  BY DEF Call, Holding

\* Send.
LEMMA SendInv ==
  ASSUME Inv, NEW t \in Tasks, Send(t)
  PROVE  Inv'
<1>1. Budgeted(task[t], provider) /\ task[t].model = "local" /\ task[t] \in Call /\ TaskPool(t)
      /\ task[t].pc = "send"
  BY Under DEF Inv, Pool, Holding, Send
<1>2. PICK s \in Slots : s = task[t].slot
  BY Under DEF Holding, Send
<1>3. PICK x \in Conns : x = slots[s]
  BY <1>1, <1>2 DEF TaskPool, Holding, Inv, Typed
<1>4. UNCHANGED <<provider, primary_failed, announced, cursor, calls>>
  BY DEF Send
<1>5. CASE ~wire[x].up /\ Broken(t) /\ UNCHANGED wire
  BY <1>1, <1>4, <1>5, BrokenInv
<1>6. CASE /\ wire[x].up
           /\ wire' = [wire EXCEPT ![x].unread = Append(@, <<t, calls, task[t].sent>>)]
           /\ task' = [task EXCEPT ![t] = [task[t] EXCEPT !.pc = "read",
                         !.req = <<t, calls, task[t].sent>>, !.sent = @ + 1]]
           /\ UNCHANGED <<slots, holder>>
  <2>1. task[t].sent \in Nat /\ task[t].redialled \in BOOLEAN
    BY <1>1 DEF Call
  <2>2. PICK q \in Tags : q = <<t, calls, task[t].sent>>
    BY <2>1 DEF Tags, Inv, Typed
  <2>n. PICK n \in Nat : n = task[t].sent + 1
    BY <2>1
  <2> DEFINE c == [task[t] EXCEPT !.pc = "read", !.req = q, !.sent = n]
  <2>3. task' = [task EXCEPT ![t] = c]
    BY <1>6, <2>2, <2>n
  <2>4. wire[x] \in Wires
    <3>1. SlotPool(s)
      BY DEF Inv, Pool
    <3>2. QED
      BY <1>3, <3>1 DEF SlotPool, Inv, Typed, Conns
  <2>5. wire[x].unread = <<>>
    BY <1>1, <1>2, <1>3, <1>6 DEF TaskPool, Holding
  <2>6. wire'[x] = [wire[x] EXCEPT !.unread = Append(@, q)]
    BY <1>3, <1>6, <2>2 DEF Inv, Typed
  <2>7. wire'[x].unread = <<q>>
    BY <2>4, <2>5, <2>6 DEF Wires
  <2>8. wire'[x] \in Wires
    <3>1. PICK v \in Seq(Tags) : v = <<q>>
      BY One
    <3>2. wire'[x] = [wire[x] EXCEPT !.unread = v]
      BY <2>5, <2>6, <3>1
    <3>3. QED
      BY <2>4, <3>2 DEF Wires
  <2>9. Budgeted(c, provider) /\ c.pc = "read" /\ c.slot = s /\ c.req = q
    <3>1. c \in Call
      BY <1>1, SentCall
    <3>2. /\ c.job = task[t].job /\ c.model = task[t].model /\ c.stage = task[t].stage
          /\ c.tokens = task[t].tokens /\ c.retried = task[t].retried /\ c.busy = task[t].busy
          /\ c.slot = task[t].slot /\ c.pc = "read" /\ c.redialled = task[t].redialled
          /\ c.sent = n /\ c.req = q
      BY <1>1 DEF Call
    <3>3. task[t].sent <= Spent(task[t]) + (IF task[t].redialled THEN 1 ELSE 0)
      BY <1>1, <2>1 DEF Budgeted, Now, Spent, PerBudget
    <3>4. Spent(task[t]) \in Nat
      BY DEF Spent, PerBudget
    <3>5. c.pc \in Holding
          /\ c.sent <= Spent(task[t]) + (IF c.redialled THEN 1 ELSE 0) + (IF c.pc = "read" THEN 1 ELSE 0)
      BY <2>1, <2>n, <3>2, <3>3, <3>4 DEF Holding
    <3> HIDE DEF c
    <3>6. QED
      BY <1>1, <1>2, <3>1, <3>2, <3>5, Along
  <2> HIDE DEF c
  <2>10. DOMAIN task' = Tasks /\ (\A u \in Tasks : Doing(task[u], provider)') /\ task'[t] = c
    BY <1>4, <2>3, <2>9, OneTask DEF Doing, Inv, Typed
  <2>11. wire' \in [Conns -> Wires \cup {None}] /\ \A k \in Conns \ {x} : wire'[k] = wire[k]
    <3>1. DOMAIN wire' = Conns /\ \A k \in Conns \ {x} : wire'[k] = wire[k]
      BY <1>6 DEF Inv, Typed
    <3>2. wire' = [k \in Conns |-> wire'[k]]
      BY <1>6 DEF Inv, Typed
    <3>3. QED
      BY <2>8, <3>1, <3>2 DEF Inv, Typed
  <2>12. Typed'
    BY <1>4, <1>6, <2>10, <2>11 DEF Inv, Typed
  <2>13. holder[s] = t
    BY <1>1, <1>2 DEF TaskPool, Holding
  <2>14. slots'[s] = x /\ x # None /\ holder'[s] = t
    BY <1>3, <1>6, <2>13 DEF Conns
  <2>15. SlotPool(s)'
    BY <2>8, <2>13, <2>14 DEF SlotPool
  <2>16. TaskPool(t)'
    <3>1. task'[t].slot = s /\ task'[t].pc = "read" /\ task'[t].req = q
      BY <2>9, <2>10
    <3>2. QED
      BY <2>7, <2>14, <3>1 DEF TaskPool
  <2>17. Pool'
    <3>1. PoolStep(t, s, x, c)
      BY <1>3, <1>6, <2>3, <2>11, <2>13, <2>14 DEF PoolStep
    <3>2. QED
      BY <2>12, <2>15, <2>16, <3>1, OneSlot
  <2>18. QED
    BY <1>4, <2>10, <2>12, <2>17 DEF Inv, FallbackOnce
<1>7. QED
  BY <1>2, <1>3, <1>5, <1>6 DEF Send, Put

\* Read: what is read is the answer to what was sent.
LEMMA ReadInv ==
  ASSUME Inv, NEW t \in Tasks, NEW a \in Answers, NEW b \in Budgets, Read(t, a, b)
  PROVE  Inv'
<1>1. Budgeted(task[t], provider) /\ Sane(task[t], provider) /\ task[t].model = "local"
      /\ task[t] \in Call /\ TaskPool(t) /\ task[t].pc = "read"
  BY Under DEF Inv, Pool, Holding, Read
<1>2. PICK s \in Slots : s = task[t].slot
  BY Under DEF Holding, Read
<1>3. PICK x \in Conns : x = slots[s]
  BY <1>1, <1>2 DEF TaskPool, Holding, Inv, Typed
<1>4. wire[x] \in Wires
  <2>1. SlotPool(s)
    BY DEF Inv, Pool
  <2>2. QED
    BY <1>3, <2>1 DEF SlotPool, Inv, Typed, Conns
<1>5. wire[x].unread = <<task[t].req>>
  BY <1>1, <1>2, <1>3 DEF TaskPool, Holding, Read
<1>6. task[t].req \in Tags
  <2>1. wire[x].unread \in Seq(Tags)
    BY <1>4 DEF Wires
  <2>2. Len(wire[x].unread) = 1 /\ wire[x].unread[1] = task[t].req
    BY <1>5
  <2>3. QED
    BY <2>1, <2>2
<1> DEFINE c == [task[t] EXCEPT !.got = Head(wire[x].unread)]
           next == Replied(c, a, b)
<1>7. Head(wire[x].unread) = task[t].req
  BY <1>5
<1>8. c \in Call
  BY <1>1, <1>6, <1>7 DEF Call
<1>9. /\ c.job = task[t].job /\ c.model = task[t].model /\ c.stage = task[t].stage
      /\ c.tokens = task[t].tokens /\ c.retried = task[t].retried /\ c.busy = task[t].busy
      /\ c.sent = task[t].sent /\ c.req = task[t].req /\ c.got = task[t].req
  BY <1>1, <1>7 DEF Call
<1>10. /\ wire' = [wire EXCEPT ![x].unread = Tail(@)]
       /\ task' = [task EXCEPT ![t] = IF c.got = c.req THEN next ELSE [c EXCEPT !.pc = "mixed"]]
       /\ cursor' = IF next.pc = "slot" THEN cursor + 1 ELSE cursor
       /\ holder' = [holder EXCEPT ![s] = None]
       /\ UNCHANGED <<provider, primary_failed, announced, slots, calls>>
  BY <1>2, <1>3 DEF Read, Put, Bump, Release
<1> HIDE DEF c
<1>11. Sane(c, provider)
  BY <1>1, <1>8, <1>9 DEF Sane, Routed, Staged
<1>12. c.sent <= Spent(c) + (IF c.model = "local" THEN 2 ELSE c.busy + 1)
  <2>1. task[t].sent <= Spent(task[t]) + (IF task[t].redialled THEN 1 ELSE 0) + 1 /\ task[t].sent \in Nat
    BY <1>1 DEF Budgeted, Now, Call
  <2>2. Spent(c) = Spent(task[t]) /\ Spent(c) \in Nat
    BY <1>9 DEF Spent, PerBudget
  <2>3. QED
    BY <1>1, <1>9, <2>1, <2>2
<1>13. cursor \in Nat
  BY DEF Inv, Typed
<1>14. Doing(next, provider) /\ next.pc \notin Holding
  BY <1>11, <1>12, <1>13, Goes
<1> HIDE DEF next
<1>15. task' = [task EXCEPT ![t] = next]
  BY <1>9, <1>10
<1>16. wire'[x] = [wire[x] EXCEPT !.unread = <<>>]
  <2>1. wire'[x] = [wire[x] EXCEPT !.unread = Tail(@)]
    BY <1>10 DEF Inv, Typed
  <2>2. Tail(<<task[t].req>>) = <<>>
    OBVIOUS
  <2>3. QED
    BY <1>4, <1>5, <2>1, <2>2
<1>17. wire'[x] \in Wires /\ wire'[x].unread = <<>>
  <2>1. PICK v \in Seq(Tags) : v = <<>>
    BY Nothing
  <2>2. wire'[x] = [wire[x] EXCEPT !.unread = v]
    BY <1>16, <2>1
  <2>3. wire'[x] \in Wires /\ wire'[x].unread = v
    BY <1>4, <2>2 DEF Wires
  <2>4. QED
    BY <2>1, <2>3
<1>18. wire' \in [Conns -> Wires \cup {None}] /\ \A k \in Conns \ {x} : wire'[k] = wire[k]
  <2>1. DOMAIN wire' = Conns /\ \A k \in Conns \ {x} : wire'[k] = wire[k]
    BY <1>10 DEF Inv, Typed
  <2>2. wire' = [k \in Conns |-> wire'[k]]
    BY <1>10 DEF Inv, Typed
  <2>3. QED
    BY <1>17, <2>1, <2>2 DEF Inv, Typed
<1>19. cursor' \in Nat
  BY <1>10, <1>13
<1>20. wire'[slots[s]] # None /\ wire'[slots[s]].unread = <<>>
  BY <1>3, <1>17
<1>21. task[t].pc \in Holding /\ \A k \in Conns \ {slots[s]} : wire'[k] = wire[k]
  BY <1>1, <1>3, <1>18 DEF Holding
<1>22. GivesBack(t, s, next)
  BY <1>2, <1>10, <1>14, <1>15, <1>18, <1>19, <1>20, <1>21 DEF GivesBack
<1>23. QED
  BY <1>22, Released

\* A call that ends without touching its connection, unless it clears its slot.
LEMMA EndsInv ==
  ASSUME Inv, NEW t \in Tasks, task[t].pc \in Holding, NEW o \in {"done", "error", "cancelled", "unknown"},
         task' = [task EXCEPT ![t] = Ended(task[t], o)], Release(t),
         \/ slots' = slots /\ (task[t].pc = "dial" \/ ~wire[slots[task[t].slot]].up)
         \/ slots' = [slots EXCEPT ![task[t].slot] = None],
         UNCHANGED <<provider, primary_failed, announced, cursor, wire, calls>>
  PROVE  Inv'
<1>1. TaskPool(t)
  BY DEF Inv, Pool
<1>2. PICK s \in Slots : s = task[t].slot
  BY Under DEF Holding
<1>3. Doing(Ended(task[t], o), provider) /\ Ended(task[t], o).pc \notin Holding
  BY Ends DEF Doing, Holding
<1>4. holder' = [holder EXCEPT ![s] = None] /\ wire' \in [Conns -> Wires \cup {None}] /\ cursor' \in Nat
  BY <1>2 DEF Release, Inv, Typed
<1>5. slots' \in {slots, [slots EXCEPT ![s] = None]}
  BY <1>2
<1>6. SlotPool(s)
  BY DEF Inv, Pool
<1>7. slots'[s] # None => wire'[slots[s]] # None
                          /\ (wire'[slots[s]].up => wire'[slots[s]].unread = <<>>)
  <2>1. CASE slots' = [slots EXCEPT ![s] = None]
    BY <2>1 DEF Inv, Typed
  <2>2. CASE slots' = slots /\ (task[t].pc = "dial" \/ ~wire[slots[s]].up)
    BY <1>1, <1>2, <1>6, <2>2 DEF TaskPool, SlotPool
  <2>3. QED
    BY <1>2, <2>1, <2>2
<1>8. \A k \in Conns \ {slots[s]} : wire'[k] = wire[k]
  OBVIOUS
<1>9. GivesBack(t, s, Ended(task[t], o))
  BY <1>2, <1>3, <1>4, <1>5, <1>7, <1>8 DEF GivesBack
<1>10. QED
  BY <1>9, Released

\* The future of a call is dropped, wherever it waits.
LEMMA DroppedInv ==
  ASSUME Inv, NEW t \in Tasks, NEW o \in {"done", "error", "cancelled", "unknown"},
         Dropped(t, o)
  PROVE  Inv'
<1>1. /\ slots' = PoisonGuard(t) /\ task' = [task EXCEPT ![t] = Ended(task[t], o)]
      /\ UNCHANGED <<provider, primary_failed, announced, cursor, wire, calls>>
  BY DEF Dropped, Put
<1>2. CASE task[t].pc \in Holding
  <2>1. Release(t)
    BY <1>2 DEF Dropped, Holding
  <2>2. \/ slots' = slots /\ task[t].pc = "dial"
        \/ slots' = [slots EXCEPT ![task[t].slot] = None]
    BY <1>1, <1>2 DEF PoisonGuard, Holding
  <2>3. QED
    BY <1>1, <1>2, <2>1, <2>2, EndsInv
<1>3. CASE task[t].pc \notin Holding
  <2>1. UNCHANGED <<slots, holder>>
    BY <1>1, <1>3 DEF Dropped, PoisonGuard, Holding
  <2>2. Doing(Ended(task[t], o), provider) /\ Ended(task[t], o).pc \notin Holding
    BY Ends DEF Doing, Holding
  <2>3. DOMAIN task' = Tasks /\ \A u \in Tasks : Doing(task[u], provider)'
    BY <1>1, <2>2, OneTask
  <2>4. Pool'
    BY <1>1, <2>1, <2>2, NoSlot
  <2>5. QED
    BY <1>1, <2>1, <2>3, <2>4 DEF Inv, Typed, FallbackOnce
<1>4. QED
  BY <1>2, <1>3

\* A connection goes down: whoever waits on it expects nothing of it.
LEMMA HangupInv ==
  ASSUME Inv, NEW k \in Conns, Hangup(k)
  PROVE  Inv'
<1> DEFINE w == [up |-> FALSE, unread |-> <<>>]
<1>1. wire' = [wire EXCEPT ![k] = w]
      /\ UNCHANGED <<provider, primary_failed, announced, slots, holder, cursor, task, calls>>
  BY DEF Hangup
<1>2. w \in Wires /\ ~w.up
  BY DEF Wires
<1>3. w # None
  BY <1>2
<1> HIDE DEF w
<1>4. Typed'
  BY <1>1, <1>2 DEF Inv, Typed
<1>5. \A x \in Conns : wire'[x] = IF x = k THEN w ELSE wire[x]
  BY <1>1 DEF Inv, Typed
<1>6. ASSUME NEW s \in Slots PROVE SlotPool(s)'
  <2>1. slots'[s] = slots[s] /\ holder'[s] = holder[s] /\ slots[s] \in Conns \cup {None} /\ SlotPool(s)
    BY <1>1 DEF Inv, Typed, Pool
  <2>2. QED
    BY <1>2, <1>3, <1>5, <2>1 DEF SlotPool
<1>7. ASSUME NEW t \in Tasks PROVE TaskPool(t)'
  <2>1. CASE task[t].pc \in Holding
    <3>1. PICK s \in Slots : s = task[t].slot
      BY <2>1, Under DEF Holding
    <3>2. slots[s] \in Conns \cup {None} /\ TaskPool(t) /\ task' = task /\ slots' = slots /\ holder' = holder
      BY <1>1 DEF Inv, Typed, Pool
    <3>3. slots[s] # None => (wire'[slots[s]] = wire[slots[s]] \/ ~wire'[slots[s]].up)
      BY <1>2, <1>5, <3>2
    <3>4. QED
      BY <2>1, <3>1, <3>2, <3>3 DEF TaskPool, Holding
  <2>2. CASE task[t].pc \notin Holding
    BY <1>1, <2>2 DEF TaskPool
  <2>3. QED
    BY <2>1, <2>2
<1>8. SlotsApart'
  BY <1>1 DEF Inv, Pool, SlotsApart
<1>9. QED
  BY <1>1, <1>4, <1>6, <1>7, <1>8 DEF Inv, Pool, FallbackOnce

-----------------------------------------------------------------------------
(* The specification.                                                      *)

\* No call has begun and every slot is empty.
LEMMA InvInit == Init => Inv
<1> SUFFICES ASSUME Init PROVE Inv
  OBVIOUS
<1>1. Idle \in Rest /\ Idle.pc \notin Holding
  BY DEF Idle, Rest, Holding
<1>2. Typed
  BY DEF Init, Typed, Slots, Conns
<1>3. \A t \in Tasks : task[t] = Idle
  BY DEF Init
<1>4. Pool
  BY <1>1, <1>3 DEF Init, Pool, TaskPool, SlotPool, SlotsApart
<1>5. FallbackOnce
  BY DEF Init, FallbackOnce
<1>6. QED
  BY <1>1, <1>2, <1>3, <1>4, <1>5 DEF Inv, Doing

\* Every step of a caller, of the server and of time keeps the invariant.
LEMMA InvNext ==
  ASSUME Inv, [Next]_vars
  PROVE  Inv'
<1>1. ASSUME NEW t \in Tasks, NEW b \in Budgets, NEW j \in Jobs[t], Submit(t, j, b) PROVE Inv'
  BY <1>1, SubmitInv
<1>2. ASSUME NEW t \in Tasks, NEW a \in Answers, NEW b \in Budgets, HttpAnswer(t, a, b) \/ Read(t, a, b)
      PROVE  Inv'
  BY <1>2, HttpInv, ReadInv
<1>3. ASSUME NEW t \in Tasks, NEW b \in Budgets, HttpTransport(t, b) PROVE Inv'
  <2>1. "none" \in Answers
    BY DEF Answers
  <2>2. QED
    BY <1>3, <2>1, HttpInv
<1>4. ASSUME NEW t \in Tasks, Client(t) \/ Cancel(t) PROVE Inv'
  <2>1. CASE Acquire(t)
    BY <2>1, AcquireInv
  <2>2. CASE Dial(t)
    BY <2>2, DialInv
  <2>3. CASE DialFails(t)
    <3>1. task[t].pc = "dial" /\ Release(t) /\ task' = [task EXCEPT ![t] = Ended(task[t], "error")]
          /\ slots' = slots /\ UNCHANGED <<provider, primary_failed, announced, cursor, wire, calls>>
      BY <2>3 DEF DialFails, Put
    <3>2. QED
      BY <3>1, EndsInv DEF Holding
  <2>4. CASE Send(t)
    BY <2>4, SendInv
  <2>5. CASE ReadBreaks(t)
    <3>1. task[t].pc = "read" /\ ~wire[slots[task[t].slot]].up
          /\ UNCHANGED <<provider, primary_failed, announced, cursor, wire, calls>>
      BY <2>5 DEF ReadBreaks
    <3>2. CASE Broken(t)
      BY <3>1, <3>2, BrokenInv
    <3>3. CASE Release(t) /\ Put(t, Ended(task[t], "error")) /\ UNCHANGED slots
      BY <3>1, <3>3, EndsInv DEF Put, Holding
    <3>4. QED
      BY <2>5, <3>2, <3>3 DEF ReadBreaks
  <2>6. CASE Timeout(t)
    <3>1. Dropped(t, IF task[t].job = "judge" THEN "unknown" ELSE "error")
      BY <2>6 DEF Timeout
    <3>2. QED
      BY <3>1, DroppedInv
  <2>7. CASE Cancel(t)
    BY <2>7, DroppedInv DEF Cancel
  <2>8. QED
    BY <1>4, <2>1, <2>2, <2>3, <2>4, <2>5, <2>6, <2>7 DEF Client
<1>5. ASSUME NEW k \in Conns, Hangup(k) PROVE Inv'
  BY <1>5, HangupInv
<1>6. CASE UNCHANGED vars
  BY <1>6 DEF vars, Inv, Typed, Pool, TaskPool, SlotPool, SlotsApart, FallbackOnce
<1>7. QED
  BY <1>1, <1>2, <1>3, <1>4, <1>5, <1>6 DEF Next

\* A held connection is used again after cancelled calls, timeouts and broken exchanges,
\* by any number of callers over any number of slots: no caller reads an answer that
\* belongs to another request (PoisonGuard and the lock of a slot).
THEOREM AnswersOwn == Spec => []AnswersMatch
<1>1. Inv => AnswersMatch
  BY DEF Inv, AnswersMatch, Doing, Rest, Budgeted, Sane, Call, Holding
<1>2. QED
  BY <1>1, InvInit, InvNext, PTL DEF Spec

\* Whatever the services answer and whichever connections break, one stage of a call to
\* one model costs a bounded number of requests under the token ceiling, and the switch
\* to the fallback is announced once (send_with_retry, next_retry_max_tokens, LlmRouter).
THEOREM CostBounded == Spec => []CallsBounded
<1>1. Inv => CallsBounded
  <2> SUFFICES ASSUME Inv, NEW t \in Tasks, task[t].pc # "idle"
               PROVE  task[t].sent <= 2 * PerBudget(task[t]) /\ task[t].tokens <= Ceiling
    BY DEF Inv, CallsBounded, RequestsBounded
  <2>1. Budgeted(task[t], provider)
    BY DEF Inv, Doing, Rest
  <2>2. task[t].sent <= Now(task[t]) /\ task[t].tokens <= Ceiling /\ task[t].busy <= MaxBusy
        /\ task[t].busy \in Nat /\ task[t].sent \in Nat
    BY <2>1 DEF Budgeted, Sane, Call
  <2>3. QED
    BY <2>2 DEF Now, Before, Spent, PerBudget
<1>2. QED
  BY <1>1, InvInit, InvNext, PTL DEF Spec

=============================================================================
