----------------------------- MODULE Inference -----------------------------
(***************************************************************************)
(* Calls to the language model and to the embedder: the retries of a busy  *)
(* service, the one retry with a larger token budget, the router from the  *)
(* primary model to the fallback, and the pool of held connections to a    *)
(* local sidecar, with cancellation, timeouts and broken connections.      *)
(***************************************************************************)
EXTENDS Integers, Sequences

CONSTANTS
    Tasks,       \* concurrent callers
    Jobs,        \* Jobs[t]: the kinds of call t makes, of JobKinds
    Providers,   \* subset of {"anthropic", "sidecar"}: where extraction goes
    Fallback,    \* LCG_EXTRACTION_LLM names a second model
    PoolSize,    \* UDS_POOL_SIZE
    MaxBusy,     \* retries of a 429 or 529
    Budgets,     \* first token budgets that compute_initial_max_tokens gives
    Ceiling,     \* LCG_EXTRACTION_MAX_TOKENS_CEILING
    MaxConns,    \* bound: connections dialled
    MaxCalls,    \* bound: calls submitted
    None

JobKinds == {"extract", "classify", "relations", "consolidate", "judge", "embed"}
Tags == Tasks \X Nat \X Nat     \* a request: its task, call and number
Wires == [up : BOOLEAN, unread : Seq(Tags)]

ASSUME InferenceAssumption ==
    /\ PoolSize \in Nat \ {0} /\ MaxBusy \in Nat /\ Ceiling \in Nat
    /\ Budgets \subseteq 1..Ceiling /\ MaxConns \in Nat /\ MaxCalls \in Nat
    /\ \A t \in Tasks : Jobs[t] \subseteq JobKinds
    /\ Providers \subseteq {"anthropic", "sidecar"}
    /\ None \notin Nat /\ None \notin Tasks /\ None \notin Wires

VARIABLES
    provider,        \* the extraction provider of this process
    primary_failed,  \* LlmRouter.primary_failed
    announced,       \* LlmFallback events emitted
    slots,           \* slots[s]: the connection held by pool slot s, or None
    holder,          \* holder[s]: the task that has slot s locked, or None
    cursor,          \* the round-robin cursor
    wire,            \* wire[c]: is connection c up, and its unread answers
    task,            \* task[t]: the call t is making
    calls            \* calls submitted

vars == <<provider, primary_failed, announced, slots, holder, cursor, wire, task, calls>>

Slots == 0..(PoolSize - 1)
Conns == 1..MaxConns
(* What a service may answer. "blank": entities without a usable name.      *)
Answers == {"items", "none", "blank", "partial", "truncated", "unparsable", "not_json", "http", "busy"}
Lists == {"items", "none", "blank", "partial"}
(* Calls whose failure switches the process to the fallback for good.      *)
Switching == {"extract", "classify", "relations"}

Idle == [pc |-> "idle", outcome |-> None]

-----------------------------------------------------------------------------
(* The call of one task.                                                   *)

Pooled(job) == job = "embed" \/ provider = "sidecar"

(* A request is about to be sent: over HTTP at once, or after a pool slot, *)
(* chosen round robin, has been locked.                                    *)
Requesting(c) ==
    IF Pooled(c.job) THEN [c EXCEPT !.pc = "slot", !.slot = cursor % PoolSize, !.redialled = FALSE]
    ELSE [c EXCEPT !.pc = "http"]

(* A stage begins with its own budget; a second stage only in extraction.  *)
Stage(c, stage, budget) ==
    Requesting([c EXCEPT !.stage = stage, !.tokens = budget, !.retried = FALSE,
                         !.busy = 0, !.sent = 0])

(* do_extract of the router: the primary model unless it failed before.    *)
FirstModel(job) ==
    IF provider # "anthropic" \/ job = "embed" THEN "local"
    ELSE IF primary_failed THEN "fallback" ELSE "primary"

FirstStage(job) == IF job = "extract" THEN "entities" ELSE "call"

NewCall(job, budget) ==
    Stage([job |-> job, model |-> FirstModel(job), stage |-> None, pc |-> "new", slot |-> None,
           redialled |-> FALSE, tokens |-> 0, retried |-> FALSE, busy |-> 0, sent |-> 0,
           kept |-> FALSE, req |-> None, got |-> None, outcome |-> None],
          FirstStage(job), budget)

Ended(c, outcome) == [Idle EXCEPT !.outcome = outcome]

(* Mutant: every failure of the primary is announced.                      *)
AnnounceAlways(c) ==
    IF c.job \in Switching THEN announced' = announced + 1 /\ primary_failed' = TRUE
    ELSE UNCHANGED <<announced, primary_failed>>

(* compare_exchange: only the first failure raises the flag.               *)
Announce(c) ==
    IF c.job \in Switching /\ ~primary_failed
    THEN announced' = announced + 1 /\ primary_failed' = TRUE
    ELSE UNCHANGED <<announced, primary_failed>>

(* An error of a call: the router tries the fallback; the verdicts that    *)
(* the primary already gave are kept when the fallback fails.              *)
Failed(c, budget) ==
    IF c.model = "primary" /\ Fallback
    THEN Stage([c EXCEPT !.model = "fallback", !.req = None, !.got = None], FirstStage(c.job), budget)
    ELSE Ended(c, IF c.kept THEN "done" ELSE "error")

FailureNoted(c) ==
    IF c.model = "primary" /\ Fallback THEN Announce(c)
    ELSE UNCHANGED <<announced, primary_failed>>

(* Mutant: truncation is retried again and again.                          *)
MayGrowAgain(c) == c.tokens <= Ceiling

(* next_retry_max_tokens, once per stage.                                  *)
MayGrow(c) == ~c.retried /\ c.tokens < Ceiling

Smaller(a, b) == IF a < b THEN a ELSE b

Grown(c) == Requesting([c EXCEPT !.tokens = Smaller(2 * c.tokens, Ceiling), !.retried = TRUE,
                                 !.busy = 0])

(* What each call makes of an answer. Malformed items are dropped one by   *)
(* one, so a list with bad items is still a success.                       *)
AnthropicEntities(c, a) ==
    CASE a = "truncated" -> IF MayGrow(c) THEN "grow" ELSE "error"
      [] a \in {"items", "partial"} -> "edges"
      [] a \in {"none", "blank"} -> "done"    \* no sanitized name: no edges call
      [] OTHER -> "error"

AnthropicEdges(c, a) ==
    CASE a = "truncated" -> IF MayGrow(c) THEN "grow" ELSE "error"
      [] a \in Lists -> "done"
      [] OTHER -> "error"

OaiEntities(c, a) ==
    CASE a = "truncated" -> IF MayGrow(c) THEN "grow" ELSE "error"
      [] a \in {"items", "partial", "blank"} -> "edges"
      [] a = "none" -> "done"
      [] OTHER -> "error"

OaiEdges(c, a) ==
    CASE a = "truncated" -> IF MayGrow(c) THEN "grow" ELSE "error"
      [] a \in Lists -> "done"
      [] OTHER -> "error"

(* A short list is padded with "no type"; a list that is cut off is not    *)
(* JSON.                                                                   *)
Classified(a) == IF a \in Lists THEN "done" ELSE "error"
RelationsClassified(a) == IF a \in Lists THEN "done" ELSE "error"

(* A summary must hold text.                                               *)
Consolidated(a) == IF a \in {"items", "partial"} THEN "done" ELSE "error"

(* parse_verdicts never fails: what cannot be attributed is Unknown, and   *)
(* the fallback is asked about the unknown ones.                           *)
Judged(c, a) ==
    CASE a = "items" -> "done"
      [] a \in {"none", "blank", "partial", "truncated", "unparsable"} ->
            IF c.model = "primary" /\ Fallback THEN "rest" ELSE "done"
      [] OTHER -> "error"

Embedded(a) == IF a = "items" THEN "done" ELSE "error"

Outcome(c, a) ==
    IF a = "busy" /\ c.model # "local" /\ c.busy < MaxBusy THEN "again"
    ELSE CASE c.stage = "entities" -> IF c.model = "local" THEN OaiEntities(c, a) ELSE AnthropicEntities(c, a)
           [] c.stage = "edges" -> IF c.model = "local" THEN OaiEdges(c, a) ELSE AnthropicEdges(c, a)
           [] c.job = "classify" -> Classified(a)
           [] c.job = "relations" -> RelationsClassified(a)
           [] c.job = "consolidate" -> Consolidated(a)
           [] c.job = "judge" -> Judged(c, a)
           [] c.job = "embed" -> Embedded(a)

Replied(c, a, budget) ==
    LET o == Outcome(c, a)
    IN CASE o = "again" -> Requesting([c EXCEPT !.busy = @ + 1])
         [] o = "grow" -> Grown(c)
         [] o = "edges" -> Stage([c EXCEPT !.req = None, !.got = None], "edges", budget)
         [] o = "rest" -> Stage([c EXCEPT !.model = "fallback", !.kept = TRUE], "call", budget)
         [] o = "done" -> Ended(c, "done")
         [] o = "error" -> Failed(c, budget)

Noted(c, a) ==
    IF Outcome(c, a) = "error" THEN FailureNoted(c) ELSE UNCHANGED <<announced, primary_failed>>

Put(t, c) == task' = [task EXCEPT ![t] = c]
Bump(c) == cursor' = IF c.pc = "slot" THEN cursor + 1 ELSE cursor

Submit(t, job, budget) ==
    /\ task[t].pc = "idle" /\ calls < MaxCalls
    /\ calls' = calls + 1
    /\ Put(t, NewCall(job, budget)) /\ Bump(NewCall(job, budget))
    /\ UNCHANGED <<provider, primary_failed, announced, slots, holder, wire>>

-----------------------------------------------------------------------------
(* HTTP: the client library keeps the answers apart.                       *)

HttpAnswer(t, a, budget) ==
    /\ task[t].pc = "http"
    /\ LET c == [task[t] EXCEPT !.sent = @ + 1]
       IN Noted(c, a) /\ Put(t, Replied(c, a, budget))
    /\ UNCHANGED <<provider, slots, holder, cursor, wire, calls>>

HttpTransport(t, budget) ==
    /\ task[t].pc = "http"
    /\ FailureNoted(task[t]) /\ Put(t, Failed(task[t], budget))
    /\ UNCHANGED <<provider, slots, holder, cursor, wire, calls>>

-----------------------------------------------------------------------------
(* The pool.                                                               *)

Dialled == {c \in Conns : wire[c] # None}

Acquire(t) ==
    /\ task[t].pc = "slot" /\ holder[task[t].slot] = None
    /\ holder' = [holder EXCEPT ![task[t].slot] = t]
    /\ Put(t, [task[t] EXCEPT !.pc = IF slots[task[t].slot] = None THEN "dial" ELSE "send"])
    /\ UNCHANGED <<provider, primary_failed, announced, slots, cursor, wire, calls>>

Dial(t) ==
    /\ task[t].pc = "dial"
    /\ \E c \in Conns \ Dialled :
          /\ \A d \in Conns \ Dialled : c <= d
          /\ wire' = [wire EXCEPT ![c] = [up |-> TRUE, unread |-> <<>>]]
          /\ slots' = [slots EXCEPT ![task[t].slot] = c]
    /\ Put(t, [task[t] EXCEPT !.pc = "send"])
    /\ UNCHANGED <<provider, primary_failed, announced, holder, cursor, calls>>

Release(t) == holder' = [holder EXCEPT ![task[t].slot] = None]

(* A transport error ends the call; its lock goes with the future.         *)
DialFails(t) ==
    /\ task[t].pc = "dial"
    /\ Release(t) /\ Put(t, Ended(task[t], "error"))
    /\ UNCHANGED <<provider, primary_failed, announced, slots, cursor, wire, calls>>

(* The connection broke before the answer: dial again, once.               *)
Broken(t) ==
    LET c == task[t]
    IN /\ slots' = [slots EXCEPT ![c.slot] = None]
       /\ IF c.redialled THEN Release(t) /\ Put(t, Ended(c, "error"))
          ELSE Put(t, [c EXCEPT !.pc = "dial", !.redialled = TRUE]) /\ UNCHANGED holder

Send(t) ==
    /\ task[t].pc = "send"
    /\ LET c == slots[task[t].slot]
       IN \/ /\ wire[c].up
             /\ wire' = [wire EXCEPT ![c].unread = Append(@, <<t, calls, task[t].sent>>)]
             /\ Put(t, [task[t] EXCEPT !.pc = "read", !.req = <<t, calls, task[t].sent>>,
                                       !.sent = @ + 1])
             /\ UNCHANGED <<slots, holder>>
          \/ ~wire[c].up /\ Broken(t) /\ UNCHANGED wire
    /\ UNCHANGED <<provider, primary_failed, announced, cursor, calls>>

(* The answer at the front of the connection is read to its end.           *)
Read(t, a, budget) ==
    /\ task[t].pc = "read" /\ wire[slots[task[t].slot]].up
    /\ LET x == slots[task[t].slot]
           c == [task[t] EXCEPT !.got = Head(wire[x].unread)]
           next == Replied(c, a, budget)
       IN /\ wire' = [wire EXCEPT ![x].unread = Tail(@)]
          /\ Put(t, IF c.got = c.req THEN next ELSE [c EXCEPT !.pc = "mixed"])
          /\ Bump(next)
    /\ Release(t)
    /\ UNCHANGED <<provider, primary_failed, announced, slots, calls>>

(* Lost while waiting for the answer, or while reading its body: the body  *)
(* error ends the call and leaves the dead connection to the next user.    *)
ReadBreaks(t) ==
    /\ task[t].pc = "read" /\ ~wire[slots[task[t].slot]].up
    /\ \/ Broken(t)
       \/ Release(t) /\ Put(t, Ended(task[t], "error")) /\ UNCHANGED slots
    /\ UNCHANGED <<provider, primary_failed, announced, cursor, wire, calls>>

(* The sidecar goes away or closes an idle connection.                     *)
Hangup(c) ==
    /\ c \in Dialled /\ wire[c].up
    /\ wire' = [wire EXCEPT ![c] = [up |-> FALSE, unread |-> <<>>]]
    /\ UNCHANGED <<provider, primary_failed, announced, slots, holder, cursor, task, calls>>

(* Mutant: an interrupted exchange leaves the slot as it is.               *)
PoisonNothing(t) == slots

(* PoisonGuard: an exchange that is dropped before its end clears the slot. *)
PoisonGuard(t) ==
    IF task[t].pc \in {"send", "read"} THEN [slots EXCEPT ![task[t].slot] = None] ELSE slots

(* The future is dropped wherever it waits.                                *)
Dropped(t, outcome) ==
    /\ slots' = PoisonGuard(t)
    /\ IF task[t].pc \in {"dial", "send", "read"} THEN Release(t) ELSE UNCHANGED holder
    /\ Put(t, Ended(task[t], outcome))
    /\ UNCHANGED <<provider, primary_failed, announced, cursor, wire, calls>>

(* The shutdown token wins the select of add_episode.                      *)
Cancel(t) ==
    /\ task[t].pc \notin {"idle", "mixed"} /\ Dropped(t, "cancelled")

(* Mutant: only the connection phase of an embedding is bounded.           *)
TimedConnect(t) == task[t].job = "embed" /\ task[t].pc \in {"slot", "dial"}

(* connect_timeout and request_timeout of the embedder, JUDGE_TIMEOUT of   *)
(* the dedup adapter. An extraction over a sidecar has none.               *)
Timed(t) ==
    \/ task[t].job = "embed" /\ task[t].pc \in {"slot", "dial", "read"}
    \/ task[t].job = "judge"

Timeout(t) ==
    /\ task[t].pc \notin {"idle", "mixed"} /\ Timed(t)
    /\ Dropped(t, IF task[t].job = "judge" THEN "unknown" ELSE "error")

-----------------------------------------------------------------------------
Init ==
    /\ provider \in Providers /\ primary_failed = FALSE /\ announced = 0
    /\ slots = [s \in Slots |-> None] /\ holder = [s \in Slots |-> None] /\ cursor = 0
    /\ wire = [c \in Conns |-> None]
    /\ task = [t \in Tasks |-> Idle] /\ calls = 0

Client(t) == Acquire(t) \/ Dial(t) \/ DialFails(t) \/ Send(t) \/ ReadBreaks(t) \/ Timeout(t)

Next ==
    \/ \E t \in Tasks, b \in Budgets : \E j \in Jobs[t] : Submit(t, j, b)
    \/ \E t \in Tasks, a \in Answers, b \in Budgets : HttpAnswer(t, a, b) \/ Read(t, a, b)
    \/ \E t \in Tasks, b \in Budgets : HttpTransport(t, b)
    \/ \E t \in Tasks : Client(t) \/ Cancel(t)
    \/ \E c \in Conns : Hangup(c)

Spec == Init /\ [][Next]_vars

(* The tasks are polled and their timers fire; nothing is assumed of the   *)
(* services: they may never answer.                                        *)
FairSpec == Spec /\ \A t \in Tasks : WF_vars(Client(t))

-----------------------------------------------------------------------------
(* A held connection is used again after cancelled calls, timeouts and     *)
(* broken exchanges: an answer that is read always belongs to the request  *)
(* that was sent, never to an earlier one whose answer nobody read.        *)
AnswersMatch == \A t \in Tasks : task[t].pc # "mixed"

(* Calls fail over concurrently: the switch to the fallback model is       *)
(* announced once per process, and the flag is up exactly when it was.     *)
FallbackOnce == announced <= 1 /\ (primary_failed <=> announced = 1)

(* The requests one stage may send with one budget: a busy service is      *)
(* asked again MaxBusy times; a broken exchange is repeated once.          *)
PerBudget(c) == IF c.model = "local" THEN 2 ELSE 1 + MaxBusy

(* Whatever the service answers and however its connections break, one     *)
(* stage of a call to one model sends no more than that, and as much again *)
(* with the larger budget, which never exceeds the ceiling.                *)
RequestsBounded ==
    \A t \in Tasks : task[t].pc # "idle" =>
        /\ task[t].sent <= 2 * PerBudget(task[t])
        /\ task[t].tokens <= Ceiling

(* A call costs a bounded number of requests, and one announced failover.  *)
CallsBounded == RequestsBounded /\ FallbackOnce

(* An embedding over the sidecar ends even when the sidecar accepts the    *)
(* request and never answers, and when the slot is held by such a call.    *)
EmbedsEnd ==
    \A t \in Tasks : (task[t].pc # "idle" /\ task[t].job = "embed") ~> task[t].pc = "idle"
=============================================================================
