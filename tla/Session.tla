------------------------------- MODULE Session -------------------------------
(***************************************************************************)
(* The processes around the graph: a service that binds the socket path,   *)
(* opens the database, serves each connection in a task of its own and     *)
(* shuts down within a bound; and MCP processes attached to it, which      *)
(* forward the tool calls their scopes allow over one connection, with a   *)
(* timeout, one retry of a failed write, and a fresh dial after any loss.  *)
(***************************************************************************)
EXTENDS Integers, Sequences, FiniteSets

CONSTANTS
    Services,   \* 1..n: service processes, started in turn, whether the last one runs or not
    Clients,    \* attached MCP processes
    Scopes,     \* Scopes[c]: the --scope of an attached process
    RemoteClose,\* the processes with --allow-remote-close
    Methods,    \* the tools that are called
    MaxCalls,   \* bound: calls
    MaxKills,   \* bound: signals and crashes
    MaxConns,   \* bound: connections at a time
    None

ASSUME SessionAssumption ==
    /\ Services \subseteq Nat \ {0} /\ MaxCalls \in Nat /\ MaxKills \in Nat /\ MaxConns \in Nat
    /\ None \notin Nat /\ None \notin {"ok", "error", "refused"}

VARIABLES
    proc,       \* proc[s]: off, boot, up, drain, stopping or down
    notify,     \* notify[s]: shutdown_notify or the signal token
    path,       \* the service the socket path leads to
    owner,      \* the process with the database open
    conns,      \* connections: both ends, and the lines on their way
    loose,      \* dispatch tasks that outlive their connection
    client,     \* client[c]: the call an attached process is in
    calls,      \* calls[i]: [client, method, answer]
    ran,        \* ran[i]: how often call i was executed
    kills

vars == <<proc, notify, path, owner, conns, loose, client, calls, ran, kills>>
server == <<proc, notify, path, owner, loose, ran, kills>>

-----------------------------------------------------------------------------
(* mcp/tools.rs and mcp/server.rs.                                         *)

(* The registry: the tools by the scope they need.                        *)
ReadTools == {"knowledge_status", "knowledge_find_entities", "knowledge_resolve_entity",
    "knowledge_find_relationships", "knowledge_get_episodes", "knowledge_get_nodes_by_group",
    "knowledge_get_edges_by_group", "knowledge_get_edges_by_uuids", "knowledge_search_passages",
    "knowledge_list_entities", "knowledge_list_relationships", "knowledge_get_entity_neighbors",
    "knowledge_get_entities_by_source", "knowledge_rebuild_status", "knowledge_validate_corrections"}
WriteTools == {"knowledge_process_chunk", "knowledge_add_episode", "knowledge_delete_episode",
    "knowledge_delete_by_source", "knowledge_delete_chunk_episode", "knowledge_clear_all",
    "knowledge_apply_corrections", "knowledge_merge_entities", "knowledge_reprocess_entity_types",
    "knowledge_canonicalize_relations", "knowledge_backfill_relation_types"}
AssertTools == {"knowledge_reprocess_relation_types", "knowledge_add_cross_group_edge",
    "knowledge_assert_entity", "knowledge_assert_relationship"}
CypherTools == {"knowledge_query_cypher"}
LogTools == {"knowledge_dump_wal", "knowledge_strip_wal_embeddings", "knowledge_prepare_checkpoint",
    "knowledge_wal_mark_create", "knowledge_wal_mark_list", "knowledge_wal_mark_delete"}
RepairTools == {"knowledge_rebuild_from_wal", "knowledge_recover", "knowledge_recover_full",
    "knowledge_close", "knowledge_build_indices", "knowledge_rebind_pointers",
    "knowledge_delete_by_group", "knowledge_reload_ontology"}
AdminTools == LogTools \cup RepairTools \cup {"knowledge_backfill_summary_embeddings"}

registry ==
    [t \in ReadTools \cup WriteTools \cup AssertTools \cup CypherTools \cup AdminTools |->
        CASE t \in ReadTools -> "read" [] t \in WriteTools \cup AssertTools -> "write"
          [] t \in CypherTools -> "cypher" [] OTHER -> "admin"]

is_streaming_method(method) ==
    method \in {"knowledge_rebuild_from_wal", "knowledge_canonicalize_relations",
                "knowledge_backfill_relation_types", "knowledge_backfill_summary_embeddings",
                "knowledge_reprocess_relation_types", "knowledge_reprocess_entity_types"}

IsClose(method) == method = "knowledge_close"

(* Mutant: the scopes hide tools from the list and not from a call.        *)
VisibleButClose(c, method) == IsClose(method) => c \in RemoteClose

is_tool_visible(c, method) ==
    /\ registry[method] \in Scopes[c]
    /\ IsClose(method) => c \in RemoteClose

(* A tool that is not visible, or lacks arguments, is refused here.        *)
call_tool(c, method) ==
    /\ client[c].pc = "idle" /\ Len(calls) < MaxCalls
    /\ LET seen == is_tool_visible(c, method)
       IN /\ calls' = Append(calls, [client |-> c, method |-> method,
                                     answer |-> IF seen THEN None ELSE "refused"])
          /\ ran' = Append(ran, 0)
          /\ client' = IF seen THEN [client EXCEPT ![c] = [@ EXCEPT !.pc = "send", !.call = Len(calls) + 1]]
                       ELSE client
    /\ UNCHANGED <<proc, notify, path, owner, conns, loose, kills>>

-----------------------------------------------------------------------------
(* mcp/attached.rs.                                                        *)

Detached == [pc |-> "idle", conn |-> None, call |-> 0, retried |-> FALSE]
Connected(c) == client[c].conn # None

Free == [client |-> "closed", server |-> "closed"]
NewConn == [svc |-> path, client |-> "open", server |-> "backlog", work |-> None,
            inbox |-> <<>>, outbox |-> <<>>]
ClientCloses(conn) == IF conn.server = "closed" THEN Free ELSE [conn EXCEPT !.client = "closed", !.outbox = <<>>]
ServerCloses(conn) == IF conn.client = "closed" THEN Free
                      ELSE [conn EXCEPT !.svc = None, !.server = "closed", !.work = None, !.inbox = <<>>]
HangUp(k) == [conns EXCEPT ![k] = ClientCloses(@)]

Answer(c, what) == calls' = [calls EXCEPT ![client[c].call].answer = what]

(* An answer for the caller; with a failure the connection is given up.    *)
Fail(c) ==
    /\ Answer(c, "error")
    /\ client' = [client EXCEPT ![c] = Detached]

Listening(s) == s # None /\ proc[s] \in {"boot", "up", "drain", "stopping"}

Dial(c) ==
    /\ client[c].pc = "send" /\ ~Connected(c)
    /\ IF Listening(path)
       THEN \E k \in DOMAIN conns :
               /\ conns[k] = Free /\ \A j \in DOMAIN conns : conns[j] = Free => k <= j
               /\ conns' = [conns EXCEPT ![k] = NewConn]
               /\ client' = [client EXCEPT ![c].conn = k]
               /\ UNCHANGED calls
       ELSE Fail(c) /\ UNCHANGED conns
    /\ UNCHANGED server

write_request(k) == conns[k].server # "closed"

(* A write that fails is retried once, over a new connection. Neither the  *)
(* dial nor the write has a timeout: see FairSpec.                         *)
WritePhase(c) ==
    /\ client[c].pc = "send" /\ Connected(c)
    /\ LET k == client[c].conn
       IN IF write_request(k)
          THEN /\ conns' = [conns EXCEPT ![k].inbox = Append(@, client[c].call)]
               /\ client' = [client EXCEPT ![c].pc = "read"]
               /\ UNCHANGED calls
          ELSE /\ conns' = HangUp(k)
               /\ IF client[c].retried THEN Fail(c)
                  ELSE /\ client' = [client EXCEPT ![c].conn = None, ![c].retried = TRUE]
                       /\ UNCHANGED calls
    /\ UNCHANGED server

(* Progress, and answers to earlier calls, are passed over.                *)
ReadLine(c) ==
    /\ client[c].pc = "read" /\ conns[client[c].conn].outbox # <<>>
    /\ LET k == client[c].conn
           msg == Head(conns[k].outbox)
           mine == msg.kind # "progress" /\ msg.call = client[c].call
       IN /\ conns' = [conns EXCEPT ![k].outbox = Tail(@)]
          /\ IF mine THEN Answer(c, msg.kind) /\ client' = [client EXCEPT ![c] = [Detached EXCEPT !.conn = k]]
             ELSE UNCHANGED <<calls, client>>
    /\ UNCHANGED server

Closed(k) == conns[k].server = "closed" /\ conns[k].outbox = <<>>

(* Mutant: a call whose answer was lost is sent again.                     *)
ResendOnce(c) ==
    /\ client[c].pc = "read" /\ Closed(client[c].conn)
    /\ conns' = HangUp(client[c].conn)
    /\ IF client[c].retried THEN Fail(c)
       ELSE /\ client' = [client EXCEPT ![c] = [@ EXCEPT !.pc = "send", !.conn = None, !.retried = TRUE]]
            /\ UNCHANGED calls
    /\ UNCHANGED server

(* The service may have executed the request: it is not sent again.        *)
ReadEof(c) ==
    /\ client[c].pc = "read" /\ Closed(client[c].conn)
    /\ conns' = HangUp(client[c].conn)
    /\ Fail(c)
    /\ UNCHANGED server

(* Mutant: a read waits for as long as it takes.                           *)
NeverTimesOut(c) == FALSE

(* The limit is for one line, and starts anew with the next one.           *)
TimesOut(c) ==
    client[c].pc = "read" /\ conns[client[c].conn].outbox = <<>> /\ ~Closed(client[c].conn)

Timeout(c) ==
    /\ TimesOut(c)
    /\ conns' = HangUp(client[c].conn)
    /\ Fail(c)
    /\ UNCHANGED server

-----------------------------------------------------------------------------
(* main.rs: one service.                                                   *)

(* The path is bound, whoever had it, before the database is opened.       *)
Boot(s) ==
    /\ proc[s] = "off" /\ \A r \in Services : r < s => proc[r] # "off"
    /\ proc' = [proc EXCEPT ![s] = "boot"] /\ path' = s
    /\ UNCHANGED <<notify, owner, conns, loose, client, calls, ran, kills>>

(* Somebody else's database cannot be opened: degraded, but up. Without an *)
(* embedder, or after a signal, the process ends.                          *)
bootstrap_or_exit_on_signal(s) ==
    /\ proc[s] = "boot"
    /\ \/ /\ ~notify[s]
          /\ proc' = [proc EXCEPT ![s] = "up"]
          /\ owner' = IF owner = None THEN s ELSE owner
       \/ /\ proc' = [proc EXCEPT ![s] = "stopping"]
          /\ UNCHANGED owner
    /\ UNCHANGED <<notify, path, conns, loose, client, calls, ran, kills>>

Mine(s) == {k \in DOMAIN conns : conns[k] # Free /\ conns[k].svc = s}
Tasks(s) == {k \in Mine(s) : conns[k].server \in {"idle", "busy", "done"}}

Accept(s) ==
    /\ proc[s] = "up"
    /\ \E k \in Mine(s) :
          /\ conns[k].server = "backlog"
          /\ conns' = [conns EXCEPT ![k].server = "idle"]
    /\ UNCHANGED <<server, client, calls>>

(* handle_connection: one request at a time.                               *)
NextLine(k) ==
    /\ conns[k].server = "idle"
    /\ IF conns[k].inbox # <<>>
       THEN conns' = [conns EXCEPT ![k].server = "busy", ![k].work = Head(conns[k].inbox),
                                 ![k].inbox = Tail(@)]
       ELSE conns[k].client = "closed" /\ conns' = [conns EXCEPT ![k] = ServerCloses(@)]
    /\ UNCHANGED <<server, client, calls>>

Executes(s, i) == ran' = IF owner = s THEN [ran EXCEPT ![i] = @ + 1] ELSE ran
Outcome(s) == IF owner = s THEN "ok" ELSE "error"

(* dispatch runs the request; without a database it answers an error.      *)
Dispatch(k) ==
    /\ conns[k].server = "busy"
    /\ Executes(conns[k].svc, conns[k].work)
    /\ conns' = [conns EXCEPT ![k].server = "done"]
    /\ UNCHANGED <<proc, notify, path, owner, loose, client, calls, kills>>

(* handle_streaming_request: progress is written as it comes, without end  *)
(* if the dispatch has none; when the client is gone the dispatch is       *)
(* aborted and no answer is written. Bound: one line of progress waits.    *)
Progress(k) ==
    /\ conns[k].server = "busy" /\ is_streaming_method(calls[conns[k].work].method)
    /\ IF conns[k].client = "open"
       THEN /\ conns[k].outbox = <<>>
            /\ conns' = [conns EXCEPT ![k].outbox = <<[kind |-> "progress", call |-> conns[k].work]>>]
       ELSE conns' = [conns EXCEPT ![k].server = "idle", ![k].work = None]
    /\ UNCHANGED <<server, client, calls>>

(* The answer; after a close the connection ends and the service is told.  *)
Reply(k) ==
    /\ conns[k].server = "done"
    /\ LET close == IsClose(calls[conns[k].work].method)
           msg == [kind |-> Outcome(conns[k].svc), call |-> conns[k].work]
           told == [conns[k] EXCEPT !.server = "idle", !.work = None,
                                    !.outbox = IF conns[k].client = "open" THEN Append(@, msg) ELSE @]
       IN /\ conns' = [conns EXCEPT ![k] = IF close THEN ServerCloses(told) ELSE told]
          /\ notify' = IF close THEN [notify EXCEPT ![conns[k].svc] = TRUE] ELSE notify
    /\ UNCHANGED <<proc, path, owner, loose, client, calls, ran, kills>>

Killed == kills < MaxKills /\ kills' = kills + 1

(* SIGTERM or SIGINT.                                                      *)
Signal(s) ==
    /\ proc[s] \in {"boot", "up"} /\ ~notify[s] /\ Killed
    /\ notify' = [notify EXCEPT ![s] = TRUE]
    /\ UNCHANGED <<proc, path, owner, conns, loose, client, calls, ran>>

(* The accept loop takes the notice and ends; the cancel token is set.     *)
BeginShutdown(s) ==
    /\ proc[s] = "up" /\ notify[s]
    /\ proc' = [proc EXCEPT ![s] = "drain"]
    /\ notify' = [notify EXCEPT ![s] = FALSE]
    /\ UNCHANGED <<path, owner, conns, loose, client, calls, ran, kills>>

Drained(s) ==
    /\ proc[s] = "drain" /\ Tasks(s) = {}
    /\ proc' = [proc EXCEPT ![s] = "stopping"]
    /\ UNCHANGED <<notify, path, owner, conns, loose, client, calls, ran, kills>>

(* Mutant: the drain waits for its connections.                            *)
NoDrainLimit(s) == FALSE

DrainLimit(s) == proc[s] = "drain" /\ Tasks(s) # {}

Busy(s) == {k \in Tasks(s) : conns[k].server = "busy"}
Streams(k) == is_streaming_method(calls[conns[k].work].method)

(* LCG_SHUTDOWN_TIMEOUT_MS has passed: the connections are aborted. A      *)
(* dispatch that streams runs on as a task nobody aborts, and so does what *)
(* any other has already given to a blocking thread.                       *)
AbortAll(s) ==
    /\ DrainLimit(s)
    /\ proc' = [proc EXCEPT ![s] = "stopping"]
    /\ conns' = [k \in DOMAIN conns |->
                    IF k \in Tasks(s) THEN ServerCloses(conns[k]) ELSE conns[k]]
    /\ \E begun \in SUBSET Busy(s) :
          /\ \A k \in Busy(s) : Streams(k) => k \in begun
          /\ loose' = loose \cup {<<s, conns[k].work>> : k \in begun}
    /\ UNCHANGED <<notify, path, owner, client, calls, ran, kills>>

LooseDispatch ==
    /\ \E t \in loose :
          /\ Executes(t[1], t[2])
          /\ loose' = loose \ {t}
    /\ UNCHANGED <<proc, notify, path, owner, conns, client, calls, kills>>

(* The process ends: tasks are dropped, the database and the socket close. *)
Ended(s) ==
    /\ proc' = [proc EXCEPT ![s] = "down"]
    /\ owner' = IF owner = s THEN None ELSE owner
    /\ loose' = {t \in loose : t[1] # s}
    /\ conns' = [k \in DOMAIN conns |->
                    IF k \in Mine(s) THEN ServerCloses(conns[k]) ELSE conns[k]]
    /\ notify' = [notify EXCEPT ![s] = FALSE]
    /\ UNCHANGED <<path, client, calls, ran>>

(* A dispatch that outlived its connection holds the state, and with it a  *)
(* sender of the telemetry channel.                                        *)
Held(s) == \E t \in loose : t[1] = s

(* sink_drain_handle is awaited without a limit: the process ends when the *)
(* last sender is gone, and runtime.shutdown_timeout comes only then.      *)
Exit(s) == proc[s] = "stopping" /\ ~Held(s) /\ Ended(s) /\ UNCHANGED kills

Crash(s) == proc[s] \in {"up", "drain", "stopping"} /\ Ended(s) /\ Killed

-----------------------------------------------------------------------------

Init ==
    /\ proc = [s \in Services |-> "off"] /\ notify = [s \in Services |-> FALSE]
    /\ path = None /\ owner = None /\ conns = [k \in 1..MaxConns |-> Free] /\ loose = {}
    /\ client = [c \in Clients |-> Detached]
    /\ calls = <<>> /\ ran = <<>> /\ kills = 0

Reading(c) == ReadLine(c) \/ ReadEof(c) \/ Timeout(c)

Attached(c) == Dial(c) \/ WritePhase(c) \/ Reading(c)

Stopping(s) ==
    bootstrap_or_exit_on_signal(s) \/ BeginShutdown(s) \/ Drained(s) \/ AbortAll(s) \/ Exit(s)

Serving(k) == NextLine(k) \/ Reply(k)

Next ==
    \/ \E c \in Clients : (\E m \in Methods : call_tool(c, m)) \/ Attached(c)
    \/ \E s \in Services : Boot(s) \/ Accept(s) \/ Signal(s) \/ Stopping(s) \/ Crash(s)
    \/ \E k \in DOMAIN conns : Serving(k) \/ Dispatch(k) \/ Progress(k)
    \/ LooseDispatch

Spec == Init /\ [][Next]_vars

(* A request may run for ever, report progress for ever, and outlive its   *)
(* connection for ever: no fairness for Dispatch and LooseDispatch. A dial *)
(* or a write to a process that has stopped may never return: none either. *)
FairSpec ==
    /\ Spec
    /\ \A c \in Clients : WF_vars(Reading(c))
    /\ \A s \in Services : WF_vars(Stopping(s)) /\ WF_vars(Accept(s))
    /\ \A k \in 1..MaxConns : WF_vars(Serving(k))

-----------------------------------------------------------------------------
(* Properties.                                                             *)

(* However often connections are lost, calls time out and services are     *)
(* restarted, no tool call is executed twice: only a write that failed is  *)
(* sent again.                                                             *)
AtMostOnce == \A i \in DOMAIN ran : ran[i] <= 1

(* A caller that is told ok had its call executed; a call beyond the scope *)
(* of its process, a remote close that was not allowed included, had not.  *)
AnswersHonest ==
    \A i \in DOMAIN calls :
        /\ calls[i].answer = "ok" => ran[i] = 1
        /\ ran[i] > 0 => registry[calls[i].method] \in Scopes[calls[i].client]
        /\ (ran[i] > 0 /\ IsClose(calls[i].method)) => calls[i].client \in RemoteClose

(* Executed at most once, exactly once if the answer says so, and never    *)
(* beyond the scope.                                                       *)
CallsExact == AtMostOnce /\ AnswersHonest

(* A service told to stop, by a signal or by knowledge_close, ends although*)
(* clients stay connected and requests hang, unless a dispatch that        *)
(* outlived its aborted connection holds it up; and then it ends once that *)
(* dispatch does, since nothing outlives a connection any more.            *)
ShutdownEnds ==
    \A s \in Services :
        (notify[s] \/ proc[s] \in {"drain", "stopping"}) ~> (proc[s] = "down" \/ Held(s))

(* Every tool call whose request was written is answered although the      *)
(* service hangs or vanishes, unless lines for it never stop coming: each  *)
(* starts the limit anew (attached.rs:236-291).                            *)
CallsEnd ==
    \A c \in Clients :
        \/ (client[c].pc = "read") ~> (client[c].pc = "idle")
        \/ []<>(client[c].pc = "read" /\ conns[client[c].conn].outbox # <<>>)

=============================================================================
