---------------------------- MODULE SessionProofs ----------------------------
(***************************************************************************)
(* For every number of services, attached processes, connections and calls:*)
(* a tool call is executed at most once, an ok is given only for one that  *)
(* was executed, and nothing beyond a scope is.                            *)
(*                                                                         *)
(* The argument follows the request. A call that has not run is in at most *)
(* one place: its client is about to write it, or it lies in the inbox or  *)
(* the work of one connection, or a dispatch that outlived its connection  *)
(* holds it. Every step moves it on or drops it, none copies it, and the   *)
(* step that runs it takes it away.                                        *)
(***************************************************************************)
EXTENDS Session, TLAPS

USE SessionAssumption

Ports == 1..MaxConns
Msg == [kind : {"progress", "ok", "error"}, call : Nat]
Conn == [svc : Services \cup {None}, client : {"open", "closed"},
         server : {"backlog", "idle", "busy", "done", "closed"}, work : Nat \cup {None},
         inbox : Seq(Nat), outbox : Seq(Msg)]
Caller == [pc : {"idle", "send", "read"}, conn : Ports \cup {None}, call : Nat, retried : BOOLEAN]
CallRow == [client : Clients, method : Methods, answer : {None, "refused", "ok", "error"}]

Typed ==
    /\ proc \in [Services -> {"off", "boot", "up", "drain", "stopping", "down"}]
    /\ path \in Services \cup {None} /\ owner \in Services \cup {None}
    /\ conns \in [Ports -> Conn \cup {Free}] /\ client \in [Clients -> Caller]
    /\ calls \in Seq(CallRow) /\ ran \in Seq(Nat) /\ Len(ran) = Len(calls)
    /\ loose \subseteq Services \X Nat

\* The calls that connection x has still to run.
Tickets(x) ==
    IF x = Free THEN {}
    ELSE {x.inbox[p] : p \in DOMAIN x.inbox} \cup (IF x.server = "busy" THEN {x.work} ELSE {})

\* None of them twice.
Orderly(x) ==
    x # Free =>
      /\ \A p, q \in DOMAIN x.inbox : x.inbox[p] = x.inbox[q] => p = q
      /\ x.server = "busy" => \A p \in DOMAIN x.inbox : x.inbox[p] # x.work

\* A connection with a task belongs to a service that is up, and what it says is so.
Serves(x) ==
    x # Free =>
      /\ x.server \in {"idle", "busy", "done"} => x.svc \in Services /\ proc[x.svc] \in {"up", "drain"}
      /\ x.server = "done" => x.work \in DOMAIN calls /\ (owner = x.svc => ran[x.work] = 1)
      /\ \A m \in DOMAIN x.outbox :
           x.outbox[m].kind = "ok" => x.outbox[m].call \in DOMAIN calls /\ ran[x.outbox[m].call] = 1
      /\ x.client = "open" \/ x.server # "closed"

\* Every attached process has its own end of a connection.
Wired ==
    /\ \A c \in Clients :
         /\ client[c].conn # None => conns[client[c].conn] # Free /\ conns[client[c].conn].client = "open"
         /\ client[c].pc = "read" => client[c].conn # None
    /\ \A c, d \in Clients : client[c].conn = client[d].conn => c = d \/ client[c].conn = None

Visible(i) == is_tool_visible(calls[i].client, calls[i].method)
Pending(i) == i \in DOMAIN calls /\ ran[i] = 0 /\ Visible(i)

Calling ==
    \A c \in Clients : client[c].pc # "idle" =>
        client[c].call \in DOMAIN calls /\ calls[client[c].call].client = c /\ Visible(client[c].call)

\* Whatever is still to run has not run.
Unrun ==
    /\ \A k \in Ports : \A i \in Tickets(conns[k]) : Pending(i)
    /\ \A t \in loose : Pending(t[2])
    /\ \A c \in Clients : client[c].pc = "send" => Pending(client[c].call)

\* It is in one place.
OnePlace ==
    /\ \A k, l \in Ports : \A i \in Tickets(conns[k]) : i \in Tickets(conns[l]) => k = l
    /\ \A t, u \in loose : t[2] = u[2] => t = u
    /\ \A t \in loose, k \in Ports : t[2] \notin Tickets(conns[k])
    /\ \A c \in Clients : client[c].pc = "send" =>
         /\ \A k \in Ports : client[c].call \notin Tickets(conns[k])
         /\ \A t \in loose : t[2] # client[c].call

\* What has run, ran once and was visible.
Counted ==
    \A i \in DOMAIN calls :
        /\ ran[i] <= 1
        /\ calls[i].answer = "ok" => ran[i] = 1
        /\ ran[i] > 0 => Visible(i)

Inv ==
    /\ Typed /\ Wired /\ Calling /\ Unrun /\ OnePlace /\ Counted
    /\ \A k \in Ports : Orderly(conns[k]) /\ Serves(conns[k])

-----------------------------------------------------------------------------
(* Calls and connections as data.                                          *)

\* The calls keep their rows; an ok is new only where the call has run.
CallsKept ==
    /\ calls' \in Seq(CallRow) /\ Len(calls') = Len(calls) /\ DOMAIN calls' = DOMAIN calls
    /\ \A i \in DOMAIN calls :
         /\ calls'[i].client = calls[i].client /\ calls'[i].method = calls[i].method
         /\ calls'[i].answer = "ok" => calls[i].answer = "ok" \/ ran[i] = 1

\* An answer is noted; nothing else about the calls changes.
LEMMA Noted ==
  ASSUME Inv, NEW c \in Clients, client[c].pc # "idle", NEW a \in {"ok", "error"},
         a = "ok" => ran[client[c].call] = 1, Answer(c, a)
  PROVE  CallsKept
<1>1. calls \in Seq(CallRow)
  BY DEF Inv, Typed
<1>2. PICK j \in DOMAIN calls : j = client[c].call
  BY DEF Inv, Calling
<1>3. PICK r : r = [calls[j] EXCEPT !.answer = a]
  OBVIOUS
<1>4. calls[j] \in CallRow
  BY <1>1
<1>5. r \in CallRow /\ r.client = calls[j].client /\ r.method = calls[j].method /\ r.answer = a
  BY <1>3, <1>4 DEF CallRow
<1>6. calls' = [calls EXCEPT ![j] = r]
  BY <1>2, <1>3 DEF Answer
<1>7. calls' \in Seq(CallRow) /\ Len(calls') = Len(calls) /\ DOMAIN calls' = DOMAIN calls
      /\ \A i \in DOMAIN calls : calls'[i] = IF i = j THEN r ELSE calls[i]
  BY <1>1, <1>5, <1>6
<1>8. QED
  BY <1>2, <1>5, <1>7 DEF CallsKept

\* No answer is noted.
LEMMA NoneNoted ==
  ASSUME Inv, calls' = calls
  PROVE  CallsKept
  BY DEF Inv, Typed, CallsKept

\* Calls that keep their rows keep who may see them.
LEMMA StillVisible ==
  ASSUME DOMAIN calls' = DOMAIN calls,
         \A i \in DOMAIN calls : calls'[i].client = calls[i].client /\ calls'[i].method = calls[i].method
  PROVE  \A i \in DOMAIN calls : Visible(i)' <=> Visible(i)
  BY DEF Visible, is_tool_visible

\* One connection changes and has no new calls to run.
LEMMA ConnChange ==
  ASSUME Inv, NEW k \in Ports, NEW x \in Conn \cup {Free}, conns' = [conns EXCEPT ![k] = x],
         Orderly(x), Serves(x), Tickets(x) \subseteq Tickets(conns[k]),
         (conns[k] # Free /\ conns[k].client = "open") => (x # Free /\ x.client = "open"),
         UNCHANGED <<proc, path, owner, loose, client, calls, ran>>
  PROVE  Inv'
<1>1. \A l \in Ports : conns'[l] = IF l = k THEN x ELSE conns[l]
  BY DEF Inv, Typed
<1>2. Typed'
  BY DEF Inv, Typed
<1>3. Wired'
  BY <1>1 DEF Inv, Wired, Typed, Caller
<1>4. Calling' /\ Counted'
  BY DEF Inv, Calling, Counted, Visible
<1>5. \A l \in Ports : Tickets(conns'[l]) \subseteq Tickets(conns[l])
  BY <1>1
<1>6. Unrun'
  BY <1>5 DEF Inv, Unrun, Pending, Visible
<1>7. OnePlace'
  BY <1>5 DEF Inv, OnePlace
<1>8. \A l \in Ports : Orderly(conns[l])' /\ Serves(conns[l])'
  BY <1>1 DEF Inv, Serves, Orderly
<1>9. QED
  BY <1>2, <1>3, <1>4, <1>6, <1>7, <1>8 DEF Inv

\* Process c goes to y and its connection k to x: its call, if it has a new place, leaves
\* the old one.
ClientStep(c, y, k, x) ==
    /\ client' = [client EXCEPT ![c] = y] /\ conns' = [conns EXCEPT ![k] = x]
    /\ Orderly(x) /\ Serves(x) /\ CallsKept
    /\ \A d \in Clients : client[d].conn = k => d = c
    /\ y.conn # None => y.conn = k /\ x # Free /\ x.client = "open"
    /\ y.pc = "read" => y.conn # None
    /\ y.pc # "idle" => client[c].pc # "idle" /\ y.call = client[c].call
    /\ y.pc = "send" => client[c].pc = "send" /\ Tickets(x) \subseteq Tickets(conns[k])
    /\ \A i \in Tickets(x) : i \in Tickets(conns[k]) \/ (client[c].pc = "send" /\ i = client[c].call)
    /\ UNCHANGED <<proc, path, owner, loose, ran>>

\* A step of one client and its connection that only moves its request
\* keeps the invariant.
LEMMA ClientChange ==
  ASSUME Inv, NEW c \in Clients, NEW y \in Caller, NEW k \in Ports, NEW x \in Conn \cup {Free},
         ClientStep(c, y, k, x)
  PROVE  Inv'
<1> USE DEF ClientStep
<1>1. \A l \in Ports : conns'[l] = IF l = k THEN x ELSE conns[l]
  BY DEF Inv, Typed
<1>2. \A d \in Clients : client'[d] = IF d = c THEN y ELSE client[d]
  BY DEF Inv, Typed
<1>3. /\ calls' \in Seq(CallRow) /\ Len(calls') = Len(calls) /\ DOMAIN calls' = DOMAIN calls
      /\ \A i \in DOMAIN calls :
              /\ calls'[i].client = calls[i].client /\ calls'[i].method = calls[i].method
              /\ calls'[i].answer = "ok" => calls[i].answer = "ok" \/ ran[i] = 1
  BY DEF CallsKept
<1>4. \A i \in DOMAIN calls : Visible(i)' <=> Visible(i)
  BY <1>3, StillVisible
<1>5. Typed'
  BY <1>3 DEF Inv, Typed
<1>6. Wired'
  <2>1. \A d \in Clients : client'[d].conn # None => conns'[client'[d].conn] # Free /\ conns'[client'[d].conn].client = "open"
    BY <1>1, <1>2 DEF Inv, Wired, Typed, Caller
  <2>2. \A d \in Clients : client'[d].pc = "read" => client'[d].conn # None
    BY <1>2 DEF Inv, Wired
  <2>3. \A d, e \in Clients : client'[d].conn = client'[e].conn => d = e \/ client'[d].conn = None
    BY <1>2 DEF Inv, Wired
  <2>4. QED
    BY <2>1, <2>2, <2>3 DEF Wired
<1>7. Calling'
  BY <1>2, <1>3, <1>4 DEF Inv, Calling
<1>8. Counted'
  BY <1>3, <1>4 DEF Inv, Counted
<1>9. \A i \in DOMAIN calls : Pending(i) => Pending(i)'
  BY <1>3, <1>4 DEF Pending
<1>10. \A l \in Ports : \A i \in Tickets(conns'[l]) :
          i \in Tickets(conns[l]) \/ (l = k /\ client[c].pc = "send" /\ y.pc # "send" /\ i = client[c].call)
  BY <1>1
<1>11. Unrun'
  BY <1>2, <1>9, <1>10 DEF Inv, Unrun, Pending
<1>12. OnePlace'
  <2>1. ASSUME NEW l \in Ports, NEW m \in Ports, NEW i \in Tickets(conns'[l]), i \in Tickets(conns'[m])
        PROVE  l = m
    <3>1. CASE i \in Tickets(conns[l]) /\ i \in Tickets(conns[m])
      BY <3>1 DEF Inv, OnePlace
    <3>2. CASE client[c].pc = "send" /\ i = client[c].call
      <4>1. i \notin Tickets(conns[l]) /\ i \notin Tickets(conns[m])
        BY <3>2 DEF Inv, OnePlace
      <4>2. QED
        BY <1>10, <2>1, <4>1
    <3>3. QED
      BY <1>10, <2>1, <3>1, <3>2
  <2>2. \A t \in loose, l \in Ports : t[2] \notin Tickets(conns'[l])
    BY <1>10 DEF Inv, OnePlace
  <2>3. \A d \in Clients : client'[d].pc = "send" =>
          /\ \A l \in Ports : client'[d].call \notin Tickets(conns'[l])
          /\ \A t \in loose : t[2] # client'[d].call
    <3> SUFFICES ASSUME NEW d \in Clients, client'[d].pc = "send"
                 PROVE  /\ \A l \in Ports : client'[d].call \notin Tickets(conns'[l])
                        /\ \A t \in loose : t[2] # client'[d].call
      OBVIOUS
    <3>1. client[d].pc = "send" /\ client'[d].call = client[d].call
      BY <1>2
    <3>2. d # c => (client[c].pc = "send" => client[c].call # client[d].call)
      BY <3>1 DEF Inv, Calling
    <3>3. QED
      BY <1>2, <1>10, <3>1, <3>2 DEF Inv, OnePlace
  <2>4. \A t, u \in loose : t[2] = u[2] => t = u
    BY DEF Inv, OnePlace
  <2>5. QED
    BY <2>1, <2>2, <2>3, <2>4 DEF OnePlace
<1>13. \A l \in Ports : Orderly(conns[l])' /\ Serves(conns[l])'
  BY <1>1, <1>3 DEF Inv, Serves, Orderly
<1>14. QED
  BY <1>5, <1>6, <1>7, <1>8, <1>11, <1>12, <1>13 DEF Inv

\* Nothing is a sequence of anything.
LEMMA Nothing == \A S : <<>> \in Seq(S)
  OBVIOUS

\* A connection that is in use is not a free one.
LEMMA InUse ==
  ASSUME NEW x, x.client = "open" \/ x.server # "closed"
  PROVE  x # Free
  BY DEF Free

\* A free port carries nothing.
LEMMA FreePort == Free \in Conn \cup {Free} /\ Orderly(Free) /\ Serves(Free) /\ Tickets(Free) = {}
  BY DEF Orderly, Serves, Tickets

\* The client hangs up: what it sent stays.
LEMMA HungUp ==
  ASSUME NEW x \in Conn, x # Free, Orderly(x), Serves(x), NEW y, y = ClientCloses(x)
  PROVE  y \in Conn \cup {Free} /\ Orderly(y) /\ Serves(y) /\ Tickets(y) \subseteq Tickets(x)
<1>1. CASE x.server = "closed"
  BY <1>1, FreePort DEF ClientCloses
<1>2. CASE x.server # "closed"
  <2>1. y = [x EXCEPT !.client = "closed", !.outbox = <<>>]
    BY <1>2 DEF ClientCloses
  <2>2. PICK z \in Seq(Msg) : z = <<>>
    BY Nothing
  <2>3. /\ y \in Conn /\ y.svc = x.svc /\ y.server = x.server /\ y.work = x.work /\ y.inbox = x.inbox
        /\ y.outbox = <<>>
    BY <2>1, <2>2 DEF Conn
  <2>4. y # Free
    BY <1>2, <2>3, InUse
  <2>5. Orderly(y) /\ Tickets(y) = Tickets(x)
    BY <2>3, <2>4 DEF Orderly, Tickets
  <2>6. Serves(y)
    BY <1>2, <2>3 DEF Serves
  <2>7. QED
    BY <2>3, <2>5, <2>6
<1>3. QED
  BY <1>1, <1>2

\* The service closes its end: what it had not run is dropped.
LEMMA Dropped ==
  ASSUME NEW x \in Conn, x # Free, Serves(x), NEW y, y = ServerCloses(x)
  PROVE  /\ y \in Conn \cup {Free} /\ Orderly(y) /\ Serves(y) /\ Tickets(y) = {}
         /\ x.client = "open" => y # Free /\ y.client = "open"
<1>1. CASE x.client = "closed"
  BY <1>1, FreePort DEF ServerCloses
<1>2. CASE x.client # "closed"
  <2>1. x.client = "open"
    BY <1>2 DEF Conn
  <2>2. y = [x EXCEPT !.svc = None, !.server = "closed", !.work = None, !.inbox = <<>>]
    BY <1>2 DEF ServerCloses
  <2>3. PICK z \in Seq(Nat) : z = <<>>
    BY Nothing
  <2>4. y \in Conn /\ y.client = "open" /\ y.server = "closed" /\ y.inbox = <<>> /\ y.outbox = x.outbox
    BY <2>1, <2>2, <2>3 DEF Conn
  <2>5. y # Free
    BY <2>4, InUse
  <2>6. Orderly(y) /\ Tickets(y) = {}
    BY <2>4, <2>5 DEF Orderly, Tickets
  <2>7. Serves(y)
    BY <2>4 DEF Serves
  <2>8. QED
    BY <2>4, <2>5, <2>6, <2>7
<1>3. QED
  BY <1>1, <1>2

\* The connection of an attached process, and its process.
LEMMA OwnEnd ==
  ASSUME Inv, NEW c \in Clients, client[c].conn # None
  PROVE  \E k \in Ports : \E x \in Conn :
           /\ k = client[c].conn /\ x = conns[k] /\ x # Free /\ x.client = "open"
           /\ Orderly(x) /\ Serves(x)
           /\ \A d \in Clients : client[d].conn = k => d = c
<1>1. PICK k \in Ports : k = client[c].conn
  BY DEF Inv, Typed, Caller
<1>2. conns[k] # Free /\ conns[k].client = "open" /\ conns[k] \in Conn
  BY <1>1 DEF Inv, Wired, Typed
<1>3. \A d \in Clients : client[d].conn = k => d = c
  BY <1>1 DEF Inv, Wired
<1>4. QED
  BY <1>1, <1>2, <1>3 DEF Inv

\* A process that gives up its call and its connection.
LEMMA GivenUp == Detached \in Caller /\ Detached.pc = "idle" /\ Detached.conn = None
  BY DEF Detached, Caller

-----------------------------------------------------------------------------
(* The attached processes.                                                 *)

\* The connection is hung up and the caller told of an error.
LEMMA GiveUp ==
  ASSUME Inv, NEW c \in Clients, client[c].conn # None, client[c].pc # "idle",
         conns' = HangUp(client[c].conn), Fail(c), UNCHANGED server
  PROVE  Inv'
<1>1. PICK k \in Ports, x \in Conn :
           /\ k = client[c].conn /\ x = conns[k] /\ x # Free /\ x.client = "open"
           /\ Orderly(x) /\ Serves(x)
           /\ \A d \in Clients : client[d].conn = k => d = c
  BY OwnEnd
<1>2. PICK y : y = ClientCloses(x)
  OBVIOUS
<1>3. y \in Conn \cup {Free} /\ Orderly(y) /\ Serves(y) /\ Tickets(y) \subseteq Tickets(x)
  BY <1>1, <1>2, HungUp
<1>4. conns' = [conns EXCEPT ![k] = y]
  BY <1>1, <1>2 DEF HangUp
<1>5. PICK z \in Caller : z = Detached /\ z.pc = "idle" /\ z.conn = None
  BY GivenUp
<1>6. client' = [client EXCEPT ![c] = z] /\ CallsKept
  BY <1>5, Noted DEF Fail
<1>7. UNCHANGED <<proc, path, owner, loose, ran>>
  BY DEF server
<1>8. /\ z.conn # None => z.conn = k /\ y # Free /\ y.client = "open"
      /\ z.pc = "read" => z.conn # None
      /\ z.pc # "idle" => client[c].pc # "idle" /\ z.call = client[c].call
      /\ z.pc = "send" => client[c].pc = "send" /\ Tickets(y) \subseteq Tickets(conns[k])
      /\ \A i \in Tickets(y) : i \in Tickets(conns[k]) \/ (client[c].pc = "send" /\ i = client[c].call)
  BY <1>1, <1>3, <1>5
<1>9. ClientStep(c, z, k, y)
  BY <1>1, <1>3, <1>4, <1>6, <1>7, <1>8 DEF ClientStep
<1>10. QED
  BY <1>3, <1>9, ClientChange

\* read_line times out: the connection and the request on it are given up.
LEMMA TimeoutInv ==
  ASSUME Inv, NEW c \in Clients, Timeout(c) \/ ReadEof(c)
  PROVE  Inv'
<1>1. client[c].pc = "read" /\ conns' = HangUp(client[c].conn) /\ Fail(c) /\ UNCHANGED server
  BY DEF Timeout, TimesOut, ReadEof
<1>2. client[c].conn # None
  BY <1>1 DEF Inv, Wired
<1>3. QED
  BY <1>1, <1>2, GiveUp

\* UnixStream::connect: the call in hand keeps its one place.
LEMMA DialInv ==
  ASSUME Inv, NEW c \in Clients, Dial(c)
  PROVE  Inv'
<1>1. client[c].pc = "send" /\ client[c].conn = None /\ UNCHANGED <<proc, path, owner, loose, ran>>
  BY DEF Dial, Connected, server
<1>2. CASE Listening(path)
  <2>1. PICK k \in Ports : /\ conns[k] = Free /\ conns' = [conns EXCEPT ![k] = NewConn]
                            /\ client' = [client EXCEPT ![c].conn = k] /\ calls' = calls
    BY <1>2 DEF Dial, Inv, Typed
  <2>2. PICK x : x = NewConn
    OBVIOUS
  <2>3. /\ x \in Conn /\ x.client = "open" /\ x.server = "backlog"
        /\ x.inbox = <<>> /\ x.outbox = <<>>
    <3>1. path \in Services \cup {None}
      BY DEF Inv, Typed
    <3>2. PICK e \in Seq(Nat) : e = <<>>
      BY Nothing
    <3>3. PICK f \in Seq(Msg) : f = <<>>
      BY Nothing
    <3>4. QED
      BY <2>2, <3>1, <3>2, <3>3 DEF NewConn, Conn
  <2>4. x # Free
    BY <2>3, InUse
  <2>5. Orderly(x) /\ Tickets(x) = {}
    BY <2>3, <2>4 DEF Orderly, Tickets
  <2>6. Serves(x)
    BY <2>3 DEF Serves
  <2>7. k # None /\ \A d \in Clients : client[d].conn # k
    <3>1. k # None
      BY DEF Ports
    <3>2. QED
      BY <2>1, <3>1 DEF Inv, Wired
  <2>8. PICK y : y = [client[c] EXCEPT !.conn = k]
    OBVIOUS
  <2>9. y \in Caller /\ y.conn = k /\ y.pc = client[c].pc /\ y.call = client[c].call
    BY <2>8 DEF Inv, Typed, Caller
  <2>10. client' = [client EXCEPT ![c] = y]
    BY <2>1, <2>8
  <2>11. CallsKept
    BY <2>1, NoneNoted
  <2>12. conns' = [conns EXCEPT ![k] = x]
    BY <2>1, <2>2
  <2>13. /\ \A d \in Clients : client[d].conn = k => d = c
         /\ y.conn # None => y.conn = k /\ x # Free /\ x.client = "open"
         /\ y.pc = "read" => y.conn # None
         /\ y.pc # "idle" => client[c].pc # "idle" /\ y.call = client[c].call
         /\ y.pc = "send" => client[c].pc = "send" /\ Tickets(x) \subseteq Tickets(conns[k])
         /\ \A i \in Tickets(x) : i \in Tickets(conns[k]) \/ (client[c].pc = "send" /\ i = client[c].call)
    BY <1>1, <2>3, <2>4, <2>5, <2>7, <2>9
  <2>14. ClientStep(c, y, k, x)
    BY <1>1, <2>5, <2>6, <2>10, <2>11, <2>12, <2>13 DEF ClientStep
  <2>15. QED
    BY <2>3, <2>9, <2>14, ClientChange
<1>3. CASE ~Listening(path)
  <2>1. Fail(c) /\ conns' = conns
    BY <1>3 DEF Dial
  <2>2. PICK z \in Caller : z = Detached /\ z.pc = "idle" /\ z.conn = None
    BY GivenUp
  <2>3. client' = [client EXCEPT ![c] = z] /\ CallsKept
    BY <1>1, <2>1, <2>2, Noted DEF Fail
  <2>4. \A d \in Clients : client'[d] = IF d = c THEN z ELSE client[d]
    BY <2>3 DEF Inv, Typed
  <2>5. \A i \in DOMAIN calls : Visible(i)' <=> Visible(i)
    BY <2>3, StillVisible DEF CallsKept
  <2>6. Typed'
    BY <1>1, <2>1, <2>3 DEF Inv, Typed, CallsKept
  <2>7. Wired' /\ Calling'
    BY <2>1, <2>2, <2>3, <2>4, <2>5 DEF Inv, Wired, Calling, CallsKept
  <2>8. Counted' /\ Unrun' /\ OnePlace'
    BY <1>1, <2>1, <2>2, <2>3, <2>4, <2>5 DEF Inv, Counted, Unrun, OnePlace, Pending, CallsKept
  <2>9. \A l \in Ports : Orderly(conns[l])' /\ Serves(conns[l])'
    BY <1>1, <2>1, <2>3 DEF Inv, Serves, Orderly, CallsKept
  <2>10. QED
    BY <2>6, <2>7, <2>8, <2>9 DEF Inv
<1>4. QED
  BY <1>2, <1>3

\* A request is written to the service's end of the connection.
WithRequest(x, r) == [x EXCEPT !.inbox = r]

\* A line written to a connection adds one ticket, and only where the
\* connection is served.
LEMMA Enqueued ==
  ASSUME NEW x \in Conn, x # Free, x.server # "closed", Orderly(x), Serves(x), NEW i \in Nat,
         i \notin Tickets(x), NEW r \in Seq(Nat), DOMAIN x.inbox \subseteq DOMAIN r,
         \A p \in DOMAIN x.inbox : r[p] = x.inbox[p],
         \A p, n \in DOMAIN r : p \in DOMAIN x.inbox \/ (r[p] = i /\ (n \in DOMAIN x.inbox \/ n = p)),
         NEW y, y = WithRequest(x, r)
  PROVE  /\ y \in Conn /\ y # Free /\ y.client = x.client /\ Orderly(y) /\ Serves(y)
         /\ \A j \in Tickets(y) : j \in Tickets(x) \/ j = i
<1>1. PICK q \in Seq(Nat) : q = x.inbox
  BY DEF Conn
<1>3. /\ \A p \in DOMAIN r : r[p] = IF p \in DOMAIN q THEN q[p] ELSE i
      /\ \A p, n \in DOMAIN r : p \in DOMAIN q \/ n \in DOMAIN q \/ p = n
  BY <1>1
<1>4. /\ y \in Conn /\ y.inbox = r /\ y.svc = x.svc /\ y.client = x.client /\ y.server = x.server
      /\ y.work = x.work /\ y.outbox = x.outbox
  BY DEF Conn, WithRequest
<1>5. y # Free
  BY <1>4, InUse
<1>6. \A p \in DOMAIN q : q[p] # i /\ q[p] \in Tickets(x)
  BY <1>1 DEF Tickets
<1>7. \A p, n \in DOMAIN r : r[p] = r[n] => p = n
  <2> SUFFICES ASSUME NEW p \in DOMAIN r, NEW n \in DOMAIN r, r[p] = r[n] PROVE p = n
    OBVIOUS
  <2>1. CASE p \in DOMAIN q /\ n \in DOMAIN q
    BY <1>1, <1>3, <2>1 DEF Orderly
  <2>2. CASE p \notin DOMAIN q /\ n \notin DOMAIN q
    BY <1>3, <2>2
  <2>3. QED
    BY <1>3, <1>6, <2>1, <2>2
<1>8. x.server = "busy" => x.work \in Tickets(x) /\ \A p \in DOMAIN q : q[p] # x.work
  BY <1>1 DEF Tickets, Orderly
<1>9. Orderly(y)
  <2>1. x.server = "busy" => \A p \in DOMAIN r : r[p] # x.work
    BY <1>3, <1>8
  <2>2. QED
    BY <1>4, <1>7, <2>1 DEF Orderly
<1>10. \A j \in Tickets(y) : j \in Tickets(x) \/ j = i
  BY <1>3, <1>4, <1>5, <1>6, <1>8 DEF Tickets
<1>11. Serves(y)
  BY <1>4 DEF Serves
<1>12. QED
  BY <1>4, <1>5, <1>9, <1>10, <1>11

\* write_all moves the request from its client to the inbox, or fails.
LEMMA WritePhaseInv ==
  ASSUME Inv, NEW c \in Clients, WritePhase(c)
  PROVE  Inv'
<1>1. client[c].pc = "send" /\ client[c].conn # None /\ UNCHANGED server
  BY DEF WritePhase, Connected
<1>2. UNCHANGED <<proc, path, owner, loose, ran>>
  BY <1>1 DEF server
<1>3. PICK k \in Ports, x \in Conn :
           /\ k = client[c].conn /\ x = conns[k] /\ x # Free /\ x.client = "open"
           /\ Orderly(x) /\ Serves(x)
           /\ \A d \in Clients : client[d].conn = k => d = c
  BY <1>1, OwnEnd
<1>4. k # None
  BY DEF Ports
<1>5. CASE write_request(client[c].conn)
  <2>1. PICK i \in Nat : i = client[c].call
    BY DEF Inv, Typed, Caller
  <2>2. i \notin Tickets(x)
    BY <1>1, <1>3, <2>1 DEF Inv, OnePlace
  <2>3. x.server # "closed"
    BY <1>3, <1>5 DEF write_request
  <2>a. PICK r : r = Append(x.inbox, i)
    OBVIOUS
  <2>4. PICK w : w = WithRequest(x, r)
    OBVIOUS
  <2>5. /\ w \in Conn /\ w # Free /\ w.client = "open" /\ Orderly(w) /\ Serves(w)
        /\ \A j \in Tickets(w) : j \in Tickets(x) \/ j = i
    <3>1. /\ w \in Conn /\ w # Free /\ w.client = x.client /\ Orderly(w) /\ Serves(w)
          /\ \A j \in Tickets(w) : j \in Tickets(x) \/ j = i
      <4>1. x # Free /\ Orderly(x) /\ Serves(x)
        BY <1>3
      <4>2. PICK q \in Seq(Nat) : q = x.inbox
        BY DEF Conn
      <4>3. /\ r \in Seq(Nat) /\ DOMAIN q \subseteq DOMAIN r /\ \A p \in DOMAIN q : r[p] = q[p]
            /\ \A p, n \in DOMAIN r : p \in DOMAIN q \/ (r[p] = i /\ (n \in DOMAIN q \/ n = p))
        BY <2>a, <4>2
      <4>4. QED
        BY <2>2, <2>3, <2>4, <4>1, <4>2, <4>3, Enqueued
    <3>2. QED
      BY <1>3, <3>1
  <2>6. PICK y : y = [client[c] EXCEPT !.pc = "read"]
    OBVIOUS
  <2>7. y \in Caller /\ y.pc = "read" /\ y.conn = k /\ y.call = i
    BY <1>3, <2>1, <2>6 DEF Inv, Typed, Caller
  <2>8. conns' = [conns EXCEPT ![k] = w] /\ client' = [client EXCEPT ![c] = y] /\ calls' = calls
    <3>1. /\ conns' = [conns EXCEPT ![k].inbox = Append(@, i)]
          /\ client' = [client EXCEPT ![c].pc = "read"] /\ calls' = calls
      BY <1>3, <1>5, <2>1 DEF WritePhase
    <3>2. client' = [client EXCEPT ![c] = y]
      BY <2>6, <3>1
    <3>3. w = [conns[k] EXCEPT !.inbox = Append(conns[k].inbox, i)]
      BY <1>3, <2>a, <2>4 DEF WithRequest
    <3>4. conns' = [conns EXCEPT ![k] = w]
      BY <3>1, <3>3
    <3>5. QED
      BY <3>1, <3>2, <3>4
  <2>9. ClientStep(c, y, k, w)
    BY <1>1, <1>2, <1>3, <1>4, <2>1, <2>5, <2>7, <2>8, NoneNoted DEF ClientStep
  <2>10. QED
    BY <2>5, <2>7, <2>9, ClientChange
<1>6. CASE ~write_request(client[c].conn) /\ client[c].retried
  BY <1>1, <1>6, GiveUp DEF WritePhase
<1>7. CASE ~write_request(client[c].conn) /\ ~client[c].retried
  <2>1. /\ conns' = HangUp(client[c].conn) /\ calls' = calls
        /\ client' = [client EXCEPT ![c].conn = None, ![c].retried = TRUE]
    BY <1>7 DEF WritePhase
  <2>2. PICK w : w = ClientCloses(x)
    OBVIOUS
  <2>3. w \in Conn \cup {Free} /\ Orderly(w) /\ Serves(w) /\ Tickets(w) \subseteq Tickets(x)
    BY <1>3, <2>2, HungUp
  <2>4. PICK y : y = [client[c] EXCEPT !.conn = None, !.retried = TRUE]
    OBVIOUS
  <2>5. y \in Caller /\ y.pc = "send" /\ y.conn = None /\ y.call = client[c].call
    BY <1>1, <2>4 DEF Inv, Typed, Caller
  <2>6. conns' = [conns EXCEPT ![k] = w]
    BY <1>3, <2>1, <2>2 DEF HangUp
  <2>7. client' = [client EXCEPT ![c] = y]
    BY <2>1, <2>4 DEF Inv, Typed
  <2>8. ClientStep(c, y, k, w)
    BY <1>1, <1>2, <1>3, <2>1, <2>3, <2>5, <2>6, <2>7, NoneNoted DEF ClientStep
  <2>9. QED
    BY <2>3, <2>5, <2>8, ClientChange
<1>8. QED
  BY <1>5, <1>6, <1>7

\* A line is taken from the client's end.
LEMMA Taken ==
  ASSUME NEW x \in Conn, x # Free, Orderly(x), Serves(x), x.outbox # <<>>,
         NEW y, y = [x EXCEPT !.outbox = Tail(@)]
  PROVE  /\ y \in Conn /\ y # Free /\ y.client = x.client /\ Orderly(y) /\ Serves(y) /\ Tickets(y) = Tickets(x)
         /\ Head(x.outbox) \in Msg
         /\ Head(x.outbox).kind = "ok" => ran[Head(x.outbox).call] = 1
<1>1. PICK q \in Seq(Msg) : q = x.outbox
  BY DEF Conn
<1>2. PICK r : r = Tail(q)
  OBVIOUS
<1>3. /\ q # <<>> /\ Len(q) \in Nat /\ 1 \in DOMAIN q /\ Head(q) = q[1] /\ Head(q) \in Msg
  BY <1>1
<1>4. /\ r \in Seq(Msg)
      /\ \A m \in DOMAIN r : m + 1 \in DOMAIN q /\ r[m] = q[m + 1]
  BY <1>1, <1>2, <1>3
<1>5. /\ y \in Conn /\ y.outbox = r /\ y.svc = x.svc /\ y.client = x.client /\ y.server = x.server
      /\ y.work = x.work /\ y.inbox = x.inbox
  BY <1>1, <1>2, <1>4 DEF Conn
<1>6. x.client = "open" \/ x.server # "closed"
  BY DEF Serves
<1>7. y # Free
  BY <1>5, <1>6, InUse
<1>8. Orderly(y) /\ Tickets(y) = Tickets(x)
  BY <1>5, <1>7 DEF Orderly, Tickets
<1>9. Serves(y)
  BY <1>1, <1>4, <1>5 DEF Serves
<1>10. Head(x.outbox).kind = "ok" => ran[Head(x.outbox).call] = 1
  BY <1>1, <1>3 DEF Serves
<1>11. QED
  BY <1>1, <1>3, <1>5, <1>7, <1>8, <1>9, <1>10

\* read_line takes a reply, which is of the call that waits for it.
LEMMA ReadLineInv ==
  ASSUME Inv, NEW c \in Clients, ReadLine(c)
  PROVE  Inv'
<1>1. client[c].pc = "read" /\ conns[client[c].conn].outbox # <<>> /\ UNCHANGED server
  BY DEF ReadLine
<1>2. UNCHANGED <<proc, path, owner, loose, ran>> /\ client[c].conn # None
  BY <1>1 DEF server, Inv, Wired
<1>3. PICK k \in Ports, x \in Conn :
           /\ k = client[c].conn /\ x = conns[k] /\ x # Free /\ x.client = "open"
           /\ Orderly(x) /\ Serves(x)
           /\ \A d \in Clients : client[d].conn = k => d = c
  BY <1>2, OwnEnd
<1>4. PICK w : w = [x EXCEPT !.outbox = Tail(@)]
  OBVIOUS
<1>5. PICK msg : msg = Head(x.outbox)
  OBVIOUS
<1>6. /\ w \in Conn /\ w # Free /\ w.client = "open" /\ Orderly(w) /\ Serves(w) /\ Tickets(w) = Tickets(x)
      /\ msg \in Msg /\ (msg.kind = "ok" => ran[msg.call] = 1)
  BY <1>1, <1>3, <1>4, <1>5, Taken
<1>7. conns' = [conns EXCEPT ![k] = w]
  BY <1>3, <1>4 DEF ReadLine
<1>8. CASE msg.kind # "progress" /\ msg.call = client[c].call
  <2>1. Answer(c, msg.kind) /\ client' = [client EXCEPT ![c] = [Detached EXCEPT !.conn = k]]
    BY <1>3, <1>5, <1>8 DEF ReadLine
  <2>2. PICK y : y = [Detached EXCEPT !.conn = k]
    OBVIOUS
  <2>3. y \in Caller /\ y.pc = "idle" /\ y.conn = k
    BY <2>2 DEF Detached, Caller
  <2>4. PICK a \in {"ok", "error"} : a = msg.kind /\ (a = "ok" => ran[client[c].call] = 1)
    BY <1>6, <1>8 DEF Msg
  <2>5. CallsKept
    BY <1>1, <2>1, <2>4, Noted
  <2>6. ClientStep(c, y, k, w)
    BY <1>2, <1>3, <1>6, <1>7, <2>1, <2>2, <2>3, <2>5 DEF ClientStep
  <2>7. QED
    BY <1>6, <2>3, <2>6, ClientChange
<1>9. CASE ~(msg.kind # "progress" /\ msg.call = client[c].call)
  <2>1. client' = client /\ calls' = calls
    BY <1>3, <1>5, <1>9 DEF ReadLine
  <2>2. PICK y \in Caller : y = client[c]
    BY DEF Inv, Typed
  <2>3. client' = [client EXCEPT ![c] = y]
    BY <2>1, <2>2 DEF Inv, Typed
  <2>4. ClientStep(c, y, k, w)
    BY <1>1, <1>2, <1>3, <1>6, <1>7, <2>1, <2>2, <2>3, NoneNoted DEF ClientStep
  <2>5. QED
    BY <1>6, <2>4, ClientChange
<1>10. QED
  BY <1>8, <1>9

\* A new call has not run and is with its client.
LEMMA CallToolInv ==
  ASSUME Inv, NEW c \in Clients, NEW m \in Methods, call_tool(c, m)
  PROVE  Inv'
<1>1. PICK n \in Nat : n = Len(calls) + 1
  BY DEF Inv, Typed
<1>2. PICK row : row = [client |-> c, method |-> m,
                        answer |-> IF is_tool_visible(c, m) THEN None ELSE "refused"]
  OBVIOUS
<1>3. row \in CallRow /\ row.client = c /\ row.method = m /\ row.answer # "ok"
  BY <1>2 DEF CallRow
<1>4. /\ calls' = Append(calls, row) /\ ran' = Append(ran, 0)
      /\ UNCHANGED <<proc, path, owner, conns, loose>> /\ client[c].pc = "idle"
  BY <1>2 DEF call_tool
<1>5. calls \in Seq(CallRow) /\ ran \in Seq(Nat) /\ Len(ran) = Len(calls)
  BY DEF Inv, Typed
<1>6. /\ calls' \in Seq(CallRow) /\ DOMAIN calls' = DOMAIN calls \cup {n} /\ n \notin DOMAIN calls
      /\ calls'[n] = row /\ \A i \in DOMAIN calls : calls'[i] = calls[i]
  BY <1>1, <1>3, <1>4, <1>5
<1>7. /\ ran' \in Seq(Nat) /\ Len(ran') = Len(calls') /\ ran'[n] = 0
      /\ \A i \in DOMAIN calls : ran'[i] = ran[i]
  BY <1>1, <1>4, <1>5
<1>8. /\ \A i \in DOMAIN calls : Visible(i)' <=> Visible(i)
      /\ Visible(n)' <=> is_tool_visible(c, m)
  BY <1>3, <1>6 DEF Visible, is_tool_visible
<1>9. PICK y : y = IF is_tool_visible(c, m) THEN [client[c] EXCEPT !.pc = "send", !.call = n] ELSE client[c]
  OBVIOUS
<1>10. y \in Caller /\ y.conn = client[c].conn /\ y.pc # "read"
       /\ (y.pc # "idle" => y.call = n /\ is_tool_visible(c, m))
  BY <1>4, <1>9 DEF Inv, Typed, Caller
<1>11. client' = [client EXCEPT ![c] = y]
  BY <1>1, <1>9 DEF call_tool, Inv, Typed
<1>12. \A d \in Clients : client'[d] = IF d = c THEN y ELSE client[d]
  BY <1>11 DEF Inv, Typed
<1>13. Typed'
  BY <1>4, <1>6, <1>7, <1>10, <1>11 DEF Inv, Typed
<1>14. Wired'
  <2>1. \A d \in Clients : client'[d].conn = client[d].conn
    BY <1>10, <1>12
  <2>2. \A d \in Clients : client'[d].pc = "read" => client[d].pc = "read"
    BY <1>10, <1>12
  <2>3. QED
    BY <1>4, <2>1, <2>2 DEF Inv, Wired
<1>15. Calling'
  BY <1>3, <1>6, <1>8, <1>10, <1>12 DEF Inv, Calling
<1>16. Counted'
  BY <1>3, <1>6, <1>7, <1>8 DEF Inv, Counted
<1>17. \A i : Pending(i) => Pending(i)' /\ i # n
  BY <1>6, <1>7, <1>8 DEF Pending
<1>18. is_tool_visible(c, m) => Pending(n)'
  BY <1>6, <1>7, <1>8 DEF Pending
<1>19. Unrun'
  BY <1>4, <1>10, <1>12, <1>17, <1>18 DEF Inv, Unrun
<1>20. OnePlace'
  BY <1>4, <1>10, <1>12, <1>17 DEF Inv, Unrun, OnePlace
<1>21. \A k \in Ports : Orderly(conns[k])' /\ Serves(conns[k])'
  BY <1>4, <1>6, <1>7 DEF Inv, Orderly, Serves
<1>22. QED
  BY <1>13, <1>14, <1>15, <1>16, <1>19, <1>20, <1>21 DEF Inv

-----------------------------------------------------------------------------
(* The services.                                                           *)

HasTask(x, s) == x # Free /\ x.svc = s /\ x.server \in {"idle", "busy", "done"}

\* A service changes its state: one without tasks, or one that stays in service.
LEMMA ServiceChange ==
  ASSUME Inv, NEW s \in Services, NEW v \in {"boot", "up", "drain", "stopping"},
         proc' = [proc EXCEPT ![s] = v],
         path' \in Services \cup {None},
         \/ /\ \A k \in Ports : ~HasTask(conns[k], s)
            /\ owner' \in {owner, s}
         \/ v = "drain" /\ owner' = owner,
         UNCHANGED <<conns, loose, client, calls, ran>>
  PROVE  Inv'
<1>1. \A r \in Services : proc'[r] = IF r = s THEN v ELSE proc[r]
  BY DEF Inv, Typed
<1>2. Typed'
  BY DEF Inv, Typed
<1>3. Wired' /\ Calling' /\ Counted' /\ Unrun' /\ OnePlace'
  BY DEF Inv, Wired, Calling, Counted, Unrun, OnePlace, Pending, Visible
<1>4. \A k \in Ports : Orderly(conns[k])' /\ Serves(conns[k])'
  <2> SUFFICES ASSUME NEW k \in Ports PROVE Orderly(conns[k])' /\ Serves(conns[k])'
    OBVIOUS
  <2>1. Orderly(conns[k]) /\ Serves(conns[k])
    BY DEF Inv
  <2>2. QED
    BY <1>1, <2>1 DEF Orderly, Serves, HasTask
<1>5. QED
  BY <1>2, <1>3, <1>4 DEF Inv

\* A service that is not up has no tasks.
LEMMA NoTasks ==
  ASSUME Inv, NEW s \in Services, proc[s] \notin {"up", "drain"}
  PROVE  \A k \in Ports : ~HasTask(conns[k], s)
  BY DEF Inv, Serves, HasTask

\* A service that starts holds no request.
LEMMA BootInv ==
  ASSUME Inv, NEW s \in Services, Boot(s) \/ bootstrap_or_exit_on_signal(s)
  PROVE  Inv'
<1>1. \A k \in Ports : ~HasTask(conns[k], s)
  BY NoTasks DEF Boot, bootstrap_or_exit_on_signal
<1>2. PICK v \in {"boot", "up", "drain", "stopping"} : proc' = [proc EXCEPT ![s] = v]
  BY DEF Boot, bootstrap_or_exit_on_signal
<1>3. /\ path' \in Services \cup {None} /\ owner' \in {owner, s}
      /\ UNCHANGED <<conns, loose, client, calls, ran>>
  BY DEF Boot, bootstrap_or_exit_on_signal, Inv, Typed
<1>4. QED
  BY <1>1, <1>2, <1>3, ServiceChange

\* A shutdown signal moves no request.
LEMMA BeginShutdownInv ==
  ASSUME Inv, NEW s \in Services, BeginShutdown(s)
  PROVE  Inv'
<1>1. /\ proc' = [proc EXCEPT ![s] = "drain"] /\ owner' = owner
      /\ UNCHANGED <<path, conns, loose, client, calls, ran>>
  BY DEF BeginShutdown
<1>2. path' \in Services \cup {None}
  BY <1>1 DEF Inv, Typed
<1>3. QED
  BY <1>1, <1>2, ServiceChange

\* A drained service has nothing left to run.
LEMMA DrainedInv ==
  ASSUME Inv, NEW s \in Services, Drained(s)
  PROVE  Inv'
<1>1. /\ proc' = [proc EXCEPT ![s] = "stopping"] /\ owner' = owner
      /\ UNCHANGED <<path, conns, loose, client, calls, ran>>
  BY DEF Drained
<1>2. path' \in Services \cup {None}
  BY <1>1 DEF Inv, Typed
<1>3. \A k \in Ports : ~HasTask(conns[k], s)
  BY DEF Drained, Tasks, Mine, HasTask, Inv, Typed
<1>4. QED
  BY <1>1, <1>2, <1>3, ServiceChange

\* A signal is noted outside of all this.
LEMMA SignalInv ==
  ASSUME Inv, UNCHANGED <<proc, path, owner, conns, loose, client, calls, ran>>
  PROVE  Inv'
<1>1. Typed' /\ Wired' /\ Calling' /\ Counted' /\ Unrun' /\ OnePlace'
  BY DEF Inv, Typed, Wired, Calling, Counted, Unrun, OnePlace, Pending, Visible
<1>2. \A k \in Ports : Orderly(conns[k])' /\ Serves(conns[k])'
  BY DEF Inv, Orderly, Serves
<1>3. QED
  BY <1>1, <1>2 DEF Inv

\* A connection that a service has a hand on.
LEMMA TheirEnd ==
  ASSUME Inv, NEW k \in DOMAIN conns, conns[k] # Free
  PROVE  k \in Ports /\ conns[k] \in Conn /\ Orderly(conns[k]) /\ Serves(conns[k])
  BY DEF Inv, Typed

\* A connection changes at the service's end, with no new calls to run.
LEMMA ServerChange ==
  ASSUME Inv, NEW k \in DOMAIN conns, conns[k] # Free, NEW y \in Conn, y # Free, y.client = conns[k].client,
         conns' = [conns EXCEPT ![k] = y], Orderly(y), Serves(y), Tickets(y) \subseteq Tickets(conns[k]),
         UNCHANGED <<proc, path, owner, loose, client, calls, ran>>
  PROVE  Inv'
  BY TheirEnd, ConnChange

\* accept: a connection is taken over with the lines already written to it.
LEMMA AcceptInv ==
  ASSUME Inv, NEW s \in Services, Accept(s)
  PROVE  Inv'
<1>1. PICK k \in Mine(s) : conns[k].server = "backlog" /\ conns' = [conns EXCEPT ![k].server = "idle"]
  BY DEF Accept
<1>2. k \in DOMAIN conns /\ conns[k] # Free /\ conns[k].svc = s
  BY DEF Mine
<1>3. PICK x \in Conn : x = conns[k] /\ Orderly(x) /\ Serves(x)
  BY <1>2, TheirEnd
<1>4. PICK y : y = [x EXCEPT !.server = "idle"]
  OBVIOUS
<1>5. /\ y \in Conn /\ y.svc = s /\ y.client = x.client /\ y.server = "idle" /\ y.inbox = x.inbox
      /\ y.outbox = x.outbox
  BY <1>2, <1>3, <1>4 DEF Conn
<1>6. y # Free
  BY <1>5, InUse
<1>7. Orderly(y) /\ Tickets(y) \subseteq Tickets(x)
  BY <1>2, <1>3, <1>5, <1>6 DEF Orderly, Tickets
<1>8. Serves(y)
  BY <1>2, <1>3, <1>5 DEF Serves, Accept
<1>9. conns' = [conns EXCEPT ![k] = y] /\ UNCHANGED <<proc, path, owner, loose, client, calls, ran>>
  BY <1>1, <1>2, <1>3, <1>4 DEF Accept, server
<1>10. QED
  BY <1>2, <1>3, <1>5, <1>6, <1>7, <1>8, <1>9, ServerChange

\* The service closes one end.
LEMMA CloseInv ==
  ASSUME Inv, NEW k \in DOMAIN conns, conns[k] # Free, NEW x \in Conn, x # Free, Serves(x),
         x.client = conns[k].client, conns' = [conns EXCEPT ![k] = ServerCloses(x)],
         UNCHANGED <<proc, path, owner, loose, client, calls, ran>>
  PROVE  Inv'
<1>1. PICK y : y = ServerCloses(x)
  OBVIOUS
<1>2. /\ y \in Conn \cup {Free} /\ Orderly(y) /\ Serves(y) /\ Tickets(y) = {}
      /\ x.client = "open" => y # Free /\ y.client = "open"
  BY <1>1, Dropped
<1>3. k \in Ports
  BY TheirEnd
<1>4. QED
  BY <1>1, <1>2, <1>3, ConnChange

\* The first request of the inbox becomes the work.
Begins(x) == [x EXCEPT !.server = "busy", !.work = Head(x.inbox), !.inbox = Tail(x.inbox)]

\* A server that takes the next line holds it as its work, no longer in the
\* inbox.
LEMMA Begun ==
  ASSUME NEW x \in Conn, x # Free, x.server = "idle", Orderly(x), Serves(x), x.inbox # <<>>,
         NEW y, y = Begins(x)
  PROVE  y \in Conn /\ y # Free /\ y.client = x.client /\ Orderly(y) /\ Serves(y) /\ Tickets(y) \subseteq Tickets(x)
<1>1. PICK q \in Seq(Nat) : q = x.inbox
  BY DEF Conn
<1>2. PICK r : r = Tail(q)
  OBVIOUS
<1>a. q # <<>> /\ Len(q) \in Nat /\ 1 \in DOMAIN q /\ Head(q) = q[1] /\ Head(q) \in Nat
  BY <1>1
<1>3. PICK w \in Nat : w = Head(q) /\ w = q[1] /\ 1 \in DOMAIN q
  BY <1>a
<1>4. r \in Seq(Nat) /\ \A p \in DOMAIN r : p \in Nat /\ p + 1 \in DOMAIN q /\ p + 1 # 1 /\ r[p] = q[p + 1]
  BY <1>1, <1>2
<1>5. /\ y \in Conn /\ y.inbox = r /\ y.work = w /\ y.server = "busy" /\ y.svc = x.svc
      /\ y.client = x.client /\ y.outbox = x.outbox
  BY <1>1, <1>2, <1>3, <1>4 DEF Conn, Begins
<1>6. y # Free
  BY <1>5, InUse
<1>7. \A p, n \in DOMAIN q : q[p] = q[n] => p = n
  BY <1>1 DEF Orderly
<1>8. (\A p, n \in DOMAIN r : r[p] = r[n] => p = n) /\ \A p \in DOMAIN r : r[p] # w
  <2>1. ASSUME NEW p \in DOMAIN r, NEW n \in DOMAIN r, r[p] = r[n] PROVE p = n
    <3>1. /\ p \in Nat /\ p + 1 \in DOMAIN q /\ r[p] = q[p + 1]
          /\ n \in Nat /\ n + 1 \in DOMAIN q /\ r[n] = q[n + 1]
      BY <1>4
    <3>2. p + 1 = n + 1
      BY <1>7, <2>1, <3>1
    <3>3. QED
      BY <3>1, <3>2
  <2>2. ASSUME NEW p \in DOMAIN r PROVE r[p] # w
    <3>1. p + 1 \in DOMAIN q /\ p + 1 # 1 /\ r[p] = q[p + 1]
      BY <1>4
    <3>2. QED
      BY <1>3, <1>7, <3>1
  <2>3. QED
    BY <2>1, <2>2
<1>9. Orderly(y)
  BY <1>5, <1>8 DEF Orderly
<1>10. Tickets(y) \subseteq Tickets(x)
  BY <1>1, <1>3, <1>4, <1>5, <1>6 DEF Tickets
<1>11. Serves(y)
  BY <1>5 DEF Serves
<1>12. QED
  BY <1>5, <1>6, <1>9, <1>10, <1>11

\* The server takes the next line of a connection.
LEMMA NextLineInv ==
  ASSUME Inv, NEW k \in DOMAIN conns, NextLine(k)
  PROVE  Inv'
<1>1. conns[k].server = "idle" /\ UNCHANGED <<proc, path, owner, loose, client, calls, ran>>
  BY DEF NextLine, server
<1>2. conns[k] # Free
  BY <1>1 DEF Free
<1>3. PICK x \in Conn : x = conns[k] /\ Orderly(x) /\ Serves(x)
  BY <1>2, TheirEnd
<1>4. CASE x.inbox # <<>>
  <2>1. PICK y : y = Begins(x)
    OBVIOUS
  <2>2. y \in Conn /\ y # Free /\ y.client = x.client /\ Orderly(y) /\ Serves(y) /\ Tickets(y) \subseteq Tickets(x)
    BY <1>1, <1>2, <1>3, <1>4, <2>1, Begun
  <2>3. conns' = [conns EXCEPT ![k] = y]
    BY <1>3, <1>4, <2>1 DEF NextLine, Begins
  <2>4. QED
    BY <1>1, <1>2, <1>3, <2>2, <2>3, ServerChange
<1>5. CASE x.inbox = <<>>
  <2>1. conns' = [conns EXCEPT ![k] = ServerCloses(x)]
    BY <1>3, <1>5 DEF NextLine
  <2>2. QED
    BY <1>1, <1>2, <1>3, <2>1, CloseInv
<1>6. QED
  BY <1>4, <1>5

\* Lines that say ok only of calls that have run.
Truthful(r) ==
    /\ r \in Seq(Msg)
    /\ \A m \in DOMAIN r : r[m].kind = "ok" => r[m].call \in DOMAIN calls /\ ran[r[m].call] = 1

\* A line is written to the client: it says ok only of a call that has run.
Says(x, v, r) == [x EXCEPT !.server = v, !.work = IF v = "busy" THEN @ ELSE None, !.outbox = r]

\* A server that writes to its client adds no ticket.
LEMMA Said ==
  ASSUME NEW x \in Conn, x # Free, Orderly(x), Serves(x), x.server \in {"busy", "done"},
         NEW v \in {"busy", "idle"}, v = "busy" => x.server = "busy",
         NEW r, Truthful(r), NEW y, y = Says(x, v, r)
  PROVE  y \in Conn /\ y # Free /\ y.client = x.client /\ Orderly(y) /\ Serves(y) /\ Tickets(y) \subseteq Tickets(x)
<1>1. /\ y \in Conn /\ y.inbox = x.inbox /\ y.server = v /\ y.svc = x.svc /\ y.client = x.client /\ y.outbox = r
      /\ v = "busy" => y.work = x.work
  BY DEF Conn, Says, Truthful
<1>2. y # Free
  BY <1>1, InUse
<1>3. Orderly(y)
  BY <1>1 DEF Orderly
<1>4. Tickets(y) \subseteq Tickets(x)
  BY <1>1, <1>2 DEF Tickets
<1>5. Serves(y)
  BY <1>1 DEF Serves, Truthful
<1>6. QED
  BY <1>1, <1>2, <1>3, <1>4, <1>5

\* One more line after those that are on their way.
LEMMA OneMore ==
  ASSUME NEW x \in Conn, x # Free, Serves(x), NEW msg \in Msg,
         msg.kind = "ok" => msg.call \in DOMAIN calls /\ ran[msg.call] = 1,
         NEW r, r = x.outbox \/ r = Append(x.outbox, msg)
  PROVE  Truthful(r)
<1>1. PICK q \in Seq(Msg) : q = x.outbox
  BY DEF Conn
<1>2. \A m \in DOMAIN q : q[m].kind = "ok" => q[m].call \in DOMAIN calls /\ ran[q[m].call] = 1
  BY <1>1 DEF Serves
<1>3. r \in Seq(Msg) /\ \A m \in DOMAIN r : r[m] = msg \/ (m \in DOMAIN q /\ r[m] = q[m])
  <2>1. CASE r = q
    BY <1>1, <2>1
  <2>2. CASE r = Append(q, msg)
    <3>1. PICK n \in Nat : n = Len(q) /\ DOMAIN q = 1..n
      BY <1>1
    <3>2. r \in Seq(Msg) /\ Len(r) = n + 1 /\ r[n + 1] = msg /\ \A m \in 1..n : r[m] = q[m]
      BY <1>1, <2>2, <3>1
    <3>3. DOMAIN r = 1..(n + 1)
      BY <3>2
    <3>4. QED
      BY <3>1, <3>2, <3>3
  <2>3. QED
    BY <1>1, <2>1, <2>2
<1>4. QED
  BY <1>2, <1>3 DEF Truthful

\* A progress line is not an answer.
LEMMA ProgressInv ==
  ASSUME Inv, NEW k \in DOMAIN conns, Progress(k)
  PROVE  Inv'
<1>1. conns[k].server = "busy" /\ UNCHANGED <<proc, path, owner, loose, client, calls, ran>>
  BY DEF Progress, server
<1>2. conns[k] # Free
  BY <1>1 DEF Free
<1>3. PICK x \in Conn : x = conns[k] /\ Orderly(x) /\ Serves(x)
  BY <1>2, TheirEnd
<1>4. k \in Ports /\ x.work \in Tickets(conns[k])
  BY <1>1, <1>2, <1>3, TheirEnd DEF Tickets
<1>5. x.work \in Nat
  BY <1>4 DEF Inv, Unrun, Pending, Typed
<1>6. PICK msg \in Msg : msg = [kind |-> "progress", call |-> x.work]
  BY <1>5 DEF Msg
<1>7. CASE conns[k].client = "open"
  <2>1. PICK r : r = Append(x.outbox, msg)
    OBVIOUS
  <2>2. Truthful(r)
    BY <1>2, <1>3, <1>6, <2>1, OneMore
  <2>a. PICK v \in {"busy", "idle"} : v = "busy"
    OBVIOUS
  <2>3. PICK y : y = Says(x, v, r)
    OBVIOUS
  <2>4. y \in Conn /\ y # Free /\ y.client = x.client /\ Orderly(y) /\ Serves(y) /\ Tickets(y) \subseteq Tickets(x)
    <3>1. x # Free /\ x.server \in {"busy", "done"} /\ (v = "busy" => x.server = "busy")
      BY <1>1, <1>2, <1>3
    <3>2. QED
      BY <1>3, <2>2, <2>3, <3>1, Said
  <2>5. x.server = "busy"
    BY <1>1, <1>3
  <2>6. y = [x EXCEPT !.outbox = r]
    BY <2>a, <2>3, <2>5 DEF Says, Conn
  <2>b. r = <<msg>>
    <3>1. x.outbox = <<>>
      BY <1>3, <1>7 DEF Progress
    <3>2. Append(<<>>, msg) = <<msg>>
      OBVIOUS
    <3>3. QED
      BY <2>1, <3>1, <3>2
  <2>7. conns' = [conns EXCEPT ![k] = y]
    <3>1. y = [x EXCEPT !.outbox = <<msg>>]
      BY <2>6, <2>b
    <3>2. QED
      BY <1>3, <1>6, <1>7, <3>1 DEF Progress
  <2>8. QED
    BY <1>1, <1>2, <1>3, <2>4, <2>7, ServerChange
<1>8. CASE conns[k].client # "open"
  <2>1. PICK r : r = x.outbox
    OBVIOUS
  <2>2. Truthful(r)
    BY <1>2, <1>3, <1>6, <2>1, OneMore
  <2>a. PICK v \in {"busy", "idle"} : v = "idle"
    OBVIOUS
  <2>3. PICK y : y = Says(x, v, r)
    OBVIOUS
  <2>4. y \in Conn /\ y # Free /\ y.client = x.client /\ Orderly(y) /\ Serves(y) /\ Tickets(y) \subseteq Tickets(x)
    <3>1. x # Free /\ x.server \in {"busy", "done"} /\ (v = "busy" => x.server = "busy")
      BY <1>1, <1>2, <1>3
    <3>2. QED
      BY <1>3, <2>2, <2>3, <3>1, Said
  <2>5. y = [x EXCEPT !.server = "idle", !.work = None]
    BY <2>a, <2>1, <2>3 DEF Says, Conn
  <2>6. conns' = [conns EXCEPT ![k] = y]
    BY <1>3, <1>8, <2>5 DEF Progress
  <2>7. QED
    BY <1>1, <1>2, <1>3, <2>4, <2>6, ServerChange
<1>9. QED
  BY <1>7, <1>8

\* The reply carries the outcome of the request that was worked on.
LEMMA ReplyInv ==
  ASSUME Inv, NEW k \in DOMAIN conns, Reply(k)
  PROVE  Inv'
<1>1. conns[k].server = "done" /\ UNCHANGED <<proc, path, owner, loose, client, calls, ran>>
  BY DEF Reply
<1>2. conns[k] # Free
  BY <1>1 DEF Free
<1>3. PICK x \in Conn : x = conns[k] /\ Orderly(x) /\ Serves(x)
  BY <1>2, TheirEnd
<1>4. x.work \in DOMAIN calls /\ (owner = x.svc => ran[x.work] = 1)
  BY <1>1, <1>2, <1>3 DEF Serves
<1>5. x.work \in Nat
  BY <1>4 DEF Inv, Typed
<1>b. PICK o \in {"progress", "ok", "error"} : o = Outcome(x.svc)
  BY DEF Outcome
<1>6. PICK msg \in Msg : msg = [kind |-> Outcome(x.svc), call |-> x.work]
  BY <1>5, <1>b DEF Msg
<1>7. msg.kind = "ok" => msg.call \in DOMAIN calls /\ ran[msg.call] = 1
  BY <1>4, <1>6 DEF Outcome
<1>8. PICK r : r = IF x.client = "open" THEN Append(x.outbox, msg) ELSE x.outbox
  OBVIOUS
<1>9. r = x.outbox \/ r = Append(x.outbox, msg)
  BY <1>8
<1>10. Truthful(r)
  BY <1>2, <1>3, <1>7, <1>9, OneMore
<1>a. PICK v \in {"busy", "idle"} : v = "idle"
  OBVIOUS
<1>11. PICK y : y = Says(x, v, r)
  OBVIOUS
<1>12. y \in Conn /\ y # Free /\ y.client = x.client /\ Orderly(y) /\ Serves(y) /\ Tickets(y) \subseteq Tickets(x)
  <2>1. x # Free /\ x.server = "done"
    BY <1>1, <1>2, <1>3
  <2>2. QED
    BY <1>3, <1>a, <1>10, <1>11, <2>1, Said
<1>13. y = [conns[k] EXCEPT !.server = "idle", !.work = None,
                            !.outbox = IF conns[k].client = "open" THEN Append(@, msg) ELSE @]
  BY <1>a, <1>3, <1>8, <1>11 DEF Says, Conn
<1>14. conns' = [conns EXCEPT ![k] = IF IsClose(calls[x.work].method) THEN ServerCloses(y) ELSE y]
  BY <1>3, <1>6, <1>13 DEF Reply
<1>15. CASE IsClose(calls[x.work].method)
  <2>1. conns' = [conns EXCEPT ![k] = ServerCloses(y)]
    BY <1>14, <1>15
  <2>2. QED
    BY <1>1, <1>2, <1>3, <1>12, <2>1, CloseInv
<1>16. CASE ~IsClose(calls[x.work].method)
  <2>1. conns' = [conns EXCEPT ![k] = y]
    BY <1>14, <1>16
  <2>2. QED
    BY <1>1, <1>2, <1>3, <1>12, <2>1, ServerChange
<1>17. QED
  BY <1>15, <1>16

-----------------------------------------------------------------------------
(* A request is run.                                                       *)

\* Call i is run, or answered with an error, and leaves the one place where it was.
ExecStep(i) ==
    /\ Pending(i) /\ ran' \in Seq(Nat) /\ Len(ran') = Len(ran)
    /\ \A j \in DOMAIN calls : ran'[j] = ran[j] \/ (j = i /\ ran'[j] = 1)
    /\ loose' \subseteq loose /\ \A t \in loose' : t[2] # i
    /\ \A c \in Clients : client[c].pc = "send" => client[c].call # i
    /\ conns' \in [Ports -> Conn \cup {Free}]
    /\ \A k \in Ports : \A j \in Tickets(conns'[k]) : j \in Tickets(conns[k]) /\ j # i
    /\ \A k \in Ports :
         conns'[k] = conns[k] \/ (/\ conns'[k] # Free /\ conns'[k].client = conns[k].client
                                  /\ Orderly(conns'[k]) /\ Serves(conns[k])')
    /\ UNCHANGED <<proc, path, owner, client, calls>>

\* The step that runs a request takes it from the one place it was in.
LEMMA Executed ==
  ASSUME Inv, NEW i, ExecStep(i)
  PROVE  Inv'
<1> USE DEF ExecStep
<1>1. Typed'
  BY DEF Inv, Typed
<1>2. Wired'
  BY DEF Inv, Wired, Typed, Caller
<1>3. \A j \in DOMAIN calls : Visible(j)' <=> Visible(j)
  BY DEF Visible
<1>4. i \in DOMAIN calls /\ ran[i] = 0 /\ Visible(i)
  BY DEF Pending
<1>5. Calling'
  BY <1>3 DEF Inv, Calling
<1>6. Counted'
  BY <1>3, <1>4 DEF Inv, Counted
<1>7. \A j : Pending(j) /\ j # i => Pending(j)'
  BY <1>3 DEF Pending
<1>8. Unrun'
  BY <1>7 DEF Inv, Unrun
<1>9. OnePlace'
  <2>1. \A k \in Ports : \A j \in Tickets(conns'[k]) : j \in Tickets(conns[k])
    OBVIOUS
  <2>2. \A k, l \in Ports : \A j \in Tickets(conns'[k]) : j \in Tickets(conns'[l]) => k = l
    BY <2>1 DEF Inv, OnePlace
  <2>3. \A t, u \in loose' : t[2] = u[2] => t = u
    BY DEF Inv, OnePlace
  <2>4. \A t \in loose', k \in Ports : t[2] \notin Tickets(conns'[k])
    BY <2>1 DEF Inv, OnePlace
  <2>5. \A c \in Clients : client'[c].pc = "send" =>
          /\ \A k \in Ports : client'[c].call \notin Tickets(conns'[k])
          /\ \A t \in loose' : t[2] # client'[c].call
    BY <2>1 DEF Inv, OnePlace
  <2>6. QED
    BY <2>2, <2>3, <2>4, <2>5 DEF OnePlace, Tickets
<1>10. \A k \in Ports : Orderly(conns[k])' /\ Serves(conns[k])'
  <2> SUFFICES ASSUME NEW k \in Ports PROVE Orderly(conns[k])' /\ Serves(conns[k])'
    OBVIOUS
  <2>1. CASE conns'[k] # conns[k]
    BY <2>1 DEF Orderly
  <2>2. CASE conns'[k] = conns[k]
    <3>1. Orderly(conns[k]) /\ Serves(conns[k])
      BY DEF Inv
    <3>2. Orderly(conns[k])'
      BY <2>2, <3>1 DEF Orderly
    <3>3. \A j \in DOMAIN calls : ran[j] = 1 => ran'[j] = 1
      BY <1>4
    <3>4. Serves(conns[k])'
      BY <2>2, <3>1, <3>3 DEF Serves
    <3>5. QED
      BY <3>2, <3>4
  <2>3. QED
    BY <2>1, <2>2
<1>11. QED
  BY <1>1, <1>2, <1>5, <1>6, <1>8, <1>9, <1>10 DEF Inv

\* What running call i does to the count.
LEMMA RunOnce ==
  ASSUME Inv, NEW i, Pending(i), NEW s, Executes(s, i)
  PROVE  /\ ran' \in Seq(Nat) /\ Len(ran') = Len(ran)
         /\ \A j \in DOMAIN calls : ran'[j] = ran[j] \/ (j = i /\ ran'[j] = 1)
         /\ owner = s => ran'[i] = 1
<1>1. ran \in Seq(Nat) /\ i \in DOMAIN ran /\ ran[i] = 0 /\ DOMAIN ran = DOMAIN calls
  BY DEF Inv, Typed, Pending
<1>2. CASE owner = s
  <2>1. ran' = [ran EXCEPT ![i] = 1]
    BY <1>1, <1>2 DEF Executes
  <2>2. QED
    BY <1>1, <2>1
<1>3. CASE owner # s
  BY <1>1, <1>3 DEF Executes
<1>4. QED
  BY <1>2, <1>3

\* The handler of a served connection runs its request.
LEMMA DispatchInv ==
  ASSUME Inv, NEW k \in DOMAIN conns, Dispatch(k)
  PROVE  Inv'
<1>1. /\ conns[k].server = "busy" /\ Executes(conns[k].svc, conns[k].work)
      /\ conns' = [conns EXCEPT ![k].server = "done"]
      /\ UNCHANGED <<proc, path, owner, loose, client, calls>>
  BY DEF Dispatch
<1>2. conns[k] # Free
  BY <1>1 DEF Free
<1>3. PICK x \in Conn : x = conns[k] /\ Orderly(x) /\ Serves(x)
  BY <1>2, TheirEnd
<1>4. k \in Ports
  BY <1>2, TheirEnd
<1>5. PICK i : i = x.work
  OBVIOUS
<1>6. i \in Tickets(conns[k])
  BY <1>1, <1>2, <1>3, <1>5 DEF Tickets
<1>7. Pending(i)
  BY <1>4, <1>6 DEF Inv, Unrun
<1>8. /\ ran' \in Seq(Nat) /\ Len(ran') = Len(ran)
      /\ \A j \in DOMAIN calls : ran'[j] = ran[j] \/ (j = i /\ ran'[j] = 1)
      /\ owner = x.svc => ran'[i] = 1
  BY <1>1, <1>3, <1>5, <1>7, RunOnce
<1>9. PICK y : y = [x EXCEPT !.server = "done"]
  OBVIOUS
<1>10. /\ y \in Conn /\ y.svc = x.svc /\ y.client = x.client /\ y.server = "done" /\ y.work = i
       /\ y.inbox = x.inbox /\ y.outbox = x.outbox
  BY <1>5, <1>9 DEF Conn
<1>11. y # Free
  BY <1>10, InUse
<1>12. Orderly(y)
  BY <1>2, <1>3, <1>10 DEF Orderly
<1>13. \A j \in Tickets(y) : j \in Tickets(conns[k]) /\ j # i
  BY <1>1, <1>2, <1>3, <1>5, <1>10, <1>11 DEF Tickets, Orderly
<1>14. \A l \in Ports : conns'[l] = IF l = k THEN y ELSE conns[l]
  BY <1>1, <1>3, <1>9 DEF Inv, Typed
<1>15. conns' \in [Ports -> Conn \cup {Free}]
  BY <1>1, <1>3, <1>9, <1>10 DEF Inv, Typed
<1>16. \A l \in Ports : \A j \in Tickets(conns'[l]) : j \in Tickets(conns[l]) /\ j # i
  BY <1>4, <1>6, <1>13, <1>14 DEF Inv, OnePlace
<1>17. Serves(conns[k])'
  <2>1. i \in DOMAIN calls /\ ran[i] = 0
    BY <1>7 DEF Pending
  <2>2. \A j \in DOMAIN calls : ran[j] = 1 => ran'[j] = 1
    BY <1>8, <2>1
  <2>3. conns'[k] = y
    BY <1>4, <1>14
  <2>4. proc' = proc /\ owner' = owner /\ calls' = calls /\ x # Free /\ x.server = "busy"
    BY <1>1, <1>2, <1>3
  <2>5. y.svc \in Services /\ proc'[y.svc] \in {"up", "drain"}
    BY <1>3, <1>10, <2>4 DEF Serves
  <2>6. y.work \in DOMAIN calls' /\ (owner' = y.svc => ran'[y.work] = 1)
    BY <1>8, <1>10, <2>1, <2>4
  <2>7. ASSUME NEW m \in DOMAIN y.outbox, y.outbox[m].kind = "ok"
        PROVE  y.outbox[m].call \in DOMAIN calls' /\ ran'[y.outbox[m].call] = 1
    <3>1. x.outbox[m].call \in DOMAIN calls /\ ran[x.outbox[m].call] = 1
      BY <1>3, <1>10, <2>4, <2>7 DEF Serves
    <3>2. QED
      BY <1>10, <2>2, <2>4, <3>1
  <2>8. y.client = "open" \/ y.server # "closed"
    BY <1>10
  <2>9. Serves(y)'
    BY <2>5, <2>6, <2>7, <2>8 DEF Serves
  <2>10. QED
    BY <2>3, <2>9 DEF Serves
<1>18. \A t \in loose : t[2] # i
  BY <1>4, <1>6 DEF Inv, OnePlace
<1>19. \A c \in Clients : client[c].pc = "send" => client[c].call # i
  BY <1>4, <1>6 DEF Inv, OnePlace
<1>20. \A l \in Ports : conns'[l] = conns[l] \/ (/\ conns'[l] # Free /\ conns'[l].client = conns[l].client
                                                 /\ Orderly(conns'[l]) /\ Serves(conns[l])')
  BY <1>3, <1>10, <1>11, <1>12, <1>14, <1>17
<1>21. ExecStep(i)
  BY <1>1, <1>7, <1>8, <1>15, <1>16, <1>18, <1>19, <1>20 DEF ExecStep
<1>22. QED
  BY <1>21, Executed

\* A handler that outlived its connection runs its request.
LEMMA LooseDispatchInv ==
  ASSUME Inv, LooseDispatch
  PROVE  Inv'
<1>1. PICK t \in loose : Executes(t[1], t[2]) /\ loose' = loose \ {t}
  BY DEF LooseDispatch
<1>2. UNCHANGED <<proc, path, owner, conns, client, calls>>
  BY DEF LooseDispatch
<1>3. PICK i : i = t[2]
  OBVIOUS
<1>4. Pending(i)
  BY <1>3 DEF Inv, Unrun
<1>5. /\ ran' \in Seq(Nat) /\ Len(ran') = Len(ran)
      /\ \A j \in DOMAIN calls : ran'[j] = ran[j] \/ (j = i /\ ran'[j] = 1)
  BY <1>1, <1>3, <1>4, RunOnce
<1>6. loose' \subseteq loose /\ \A u \in loose' : u[2] # i
  BY <1>1, <1>3 DEF Inv, OnePlace
<1>7. \A k \in Ports : i \notin Tickets(conns[k])
  BY <1>3 DEF Inv, OnePlace
<1>8. \A c \in Clients : client[c].pc = "send" => client[c].call # i
  BY <1>3 DEF Inv, OnePlace
<1>9. conns' \in [Ports -> Conn \cup {Free}]
  BY <1>2 DEF Inv, Typed
<1>10. ExecStep(i)
  BY <1>2, <1>4, <1>5, <1>6, <1>7, <1>8, <1>9 DEF ExecStep
<1>11. QED
  BY <1>10, Executed

-----------------------------------------------------------------------------
(* A service stops.                                                        *)

Shut(k) == conns[k] # Free /\ conns'[k] = ServerCloses(conns[k])

\* Service s drops its connections; what streamed may run on.
EndStep(s) ==
    /\ proc' \in [Services -> {"off", "boot", "up", "drain", "stopping", "down"}]
    /\ \A r \in Services : r # s => proc'[r] = proc[r]
    /\ owner' \in {owner, None} /\ DOMAIN conns' = Ports
    /\ \A k \in Ports : Shut(k) \/ (conns'[k] = conns[k] /\ ~HasTask(conns[k], s))
    /\ \A t \in loose' :
         t \in loose \/ \E k \in Ports : Shut(k) /\ conns[k].server = "busy" /\ t = <<s, conns[k].work>>
    /\ UNCHANGED <<path, client, calls, ran>>

\* A service that ends drops what its connections held.
LEMMA StepEnds ==
  ASSUME Inv, NEW s \in Services, EndStep(s), conns' = [k \in Ports |-> conns'[k]]
  PROVE  Inv'
<1> USE DEF EndStep
<1>1. \A k \in Ports : Shut(k) =>
        /\ conns'[k] \in Conn \cup {Free} /\ Orderly(conns'[k]) /\ Serves(conns'[k]) /\ Tickets(conns'[k]) = {}
        /\ conns[k].client = "open" => conns'[k] # Free /\ conns'[k].client = "open"
  <2> SUFFICES ASSUME NEW k \in Ports, Shut(k)
               PROVE  /\ conns'[k] \in Conn \cup {Free} /\ Orderly(conns'[k]) /\ Serves(conns'[k])
                      /\ Tickets(conns'[k]) = {}
                      /\ conns[k].client = "open" => conns'[k] # Free /\ conns'[k].client = "open"
    OBVIOUS
  <2>1. PICK x \in Conn : x = conns[k] /\ x # Free /\ Serves(x)
    BY TheirEnd DEF Shut, Inv, Typed
  <2>2. PICK y : y = conns'[k]
    OBVIOUS
  <2>3. y = ServerCloses(x)
    BY <2>1, <2>2 DEF Shut
  <2>4. QED
    BY <2>1, <2>2, <2>3, Dropped
<1>2. \A k \in Ports : conns'[k] \in Conn \cup {Free}
  BY <1>1 DEF Inv, Typed
<1>3. \A t \in loose' : t \in Services \X Nat /\ Pending(t[2])
  <2> SUFFICES ASSUME NEW t \in loose' PROVE t \in Services \X Nat /\ Pending(t[2])
    OBVIOUS
  <2>1. CASE t \in loose
    BY <2>1 DEF Inv, Typed, Unrun
  <2>2. ASSUME NEW k \in Ports, Shut(k), conns[k].server = "busy", t = <<s, conns[k].work>>
        PROVE  t \in Services \X Nat /\ Pending(t[2])
    <3>1. conns[k].work \in Tickets(conns[k])
      BY <2>2 DEF Tickets, Shut
    <3>2. Pending(conns[k].work)
      BY <3>1 DEF Inv, Unrun
    <3>3. conns[k].work \in Nat
      BY <3>2 DEF Pending, Inv, Typed
    <3>4. QED
      BY <2>2, <3>2, <3>3
  <2>3. QED
    BY <2>1, <2>2
<1>4. Typed'
  <2>1. conns' \in [Ports -> Conn \cup {Free}]
    BY <1>2
  <2>2. loose' \subseteq Services \X Nat
    BY <1>3
  <2>3. QED
    BY <2>1, <2>2 DEF Inv, Typed
<1>5. Wired'
  BY <1>1 DEF Inv, Wired, Typed, Caller, Shut
<1>6. Calling' /\ Counted'
  BY DEF Inv, Calling, Counted, Visible
<1>7. \A i : Pending(i) <=> Pending(i)'
  BY DEF Pending, Visible
<1>8. \A k \in Ports : Tickets(conns'[k]) \subseteq Tickets(conns[k]) /\ (Shut(k) => Tickets(conns'[k]) = {})
  BY <1>1
<1>9. Unrun'
  BY <1>3, <1>7, <1>8 DEF Inv, Unrun
<1>10. \A t \in loose' : t \in loose \/ \E k \in Ports :
          Shut(k) /\ t = <<s, t[2]>> /\ t[2] \in Tickets(conns[k])
  <2> SUFFICES ASSUME NEW t \in loose', NEW k \in Ports, Shut(k), conns[k].server = "busy", t = <<s, conns[k].work>>
               PROVE  Shut(k) /\ t = <<s, t[2]>> /\ t[2] \in Tickets(conns[k])
    OBVIOUS
  <2>1. QED
    BY DEF Tickets, Shut
<1>11. OnePlace'
  <2>1. \A k, l \in Ports : \A i \in Tickets(conns'[k]) : i \in Tickets(conns'[l]) => k = l
    BY <1>8 DEF Inv, OnePlace
  <2>2. \A t, u \in loose' : t[2] = u[2] => t = u
    BY <1>10 DEF Inv, OnePlace
  <2>3. \A t \in loose', k \in Ports : t[2] \notin Tickets(conns'[k])
    BY <1>8, <1>10 DEF Inv, OnePlace
  <2>4. \A c \in Clients : client[c].pc = "send" =>
         /\ \A k \in Ports : client[c].call \notin Tickets(conns'[k])
         /\ \A t \in loose' : t[2] # client[c].call
    BY <1>8, <1>10 DEF Inv, OnePlace
  <2>5. QED
    BY <2>1, <2>2, <2>3, <2>4 DEF OnePlace
<1>12. \A k \in Ports : Orderly(conns[k])' /\ Serves(conns[k])'
  <2> SUFFICES ASSUME NEW k \in Ports PROVE Orderly(conns[k])' /\ Serves(conns[k])'
    OBVIOUS
  <2>1. CASE Shut(k)
    <3>1. Orderly(conns[k])'
      BY <1>1, <2>1 DEF Orderly
    <3>2. conns'[k] # Free => conns'[k].server = "closed"
      <4>1. PICK x \in Conn : x = conns[k]
        BY <2>1 DEF Shut, Inv, Typed
      <4>2. PICK y : y = conns'[k] /\ y = ServerCloses(x)
        BY <2>1, <4>1 DEF Shut
      <4>3. y # Free => y.server = "closed"
        BY <4>2 DEF ServerCloses, Conn
      <4>4. QED
        BY <4>2, <4>3
    <3>3. Serves(conns[k])'
      BY <1>1, <2>1, <3>2 DEF Serves
    <3>4. QED
      BY <3>1, <3>3
  <2>2. CASE conns'[k] = conns[k] /\ ~HasTask(conns[k], s)
    <3>1. Orderly(conns[k]) /\ Serves(conns[k])
      BY DEF Inv
    <3>2. QED
      BY <2>2, <3>1 DEF Orderly, Serves, HasTask
  <2>3. QED
    BY <2>1, <2>2
<1>13. QED
  BY <1>4, <1>5, <1>6, <1>9, <1>11, <1>12 DEF Inv

\* abort_all ends every connection task.
LEMMA AbortAllInv ==
  ASSUME Inv, NEW s \in Services, AbortAll(s)
  PROVE  Inv'
<1>1. /\ proc' = [proc EXCEPT ![s] = "stopping"]
      /\ conns' = [k \in DOMAIN conns |-> IF k \in Tasks(s) THEN ServerCloses(conns[k]) ELSE conns[k]]
      /\ UNCHANGED <<path, owner, client, calls, ran>>
  BY DEF AbortAll
<1>2. DOMAIN conns = Ports
  BY DEF Inv, Typed
<1>3. conns' = [k \in Ports |-> conns'[k]] /\ DOMAIN conns' = Ports
  BY <1>1, <1>2
<1>4. \A k \in Ports : k \in Tasks(s) <=> HasTask(conns[k], s)
  BY <1>2 DEF Tasks, Mine, HasTask
<1>5. \A k \in Ports : HasTask(conns[k], s) => conns[k] # Free
  BY DEF HasTask
<1>6. \A k \in Ports : IF HasTask(conns[k], s) THEN Shut(k) ELSE conns'[k] = conns[k]
  BY <1>1, <1>2, <1>4, <1>5 DEF Shut
<1>7. \A t \in loose' :
         t \in loose \/ \E k \in Ports : Shut(k) /\ conns[k].server = "busy" /\ t = <<s, conns[k].work>>
  <2> SUFFICES ASSUME NEW t \in loose', t \notin loose
               PROVE  \E k \in Ports : Shut(k) /\ conns[k].server = "busy" /\ t = <<s, conns[k].work>>
    OBVIOUS
  <2>1. PICK k \in Tasks(s) : conns[k].server = "busy" /\ t = <<s, conns[k].work>>
    BY DEF AbortAll, Busy
  <2>2. k \in Ports
    BY <1>2 DEF Tasks, Mine
  <2>3. QED
    BY <1>4, <1>6, <2>1, <2>2
<1>8. EndStep(s)
  <2>1. /\ proc' \in [Services -> {"off", "boot", "up", "drain", "stopping", "down"}]
        /\ \A r \in Services : r # s => proc'[r] = proc[r]
    BY <1>1 DEF Inv, Typed
  <2>2. QED
    BY <1>1, <1>3, <1>6, <1>7, <2>1 DEF EndStep
<1>9. QED
  BY <1>3, <1>8, StepEnds

\* The process exits.
LEMMA EndedInv ==
  ASSUME Inv, NEW s \in Services, Ended(s)
  PROVE  Inv'
<1>1. /\ proc' = [proc EXCEPT ![s] = "down"] /\ owner' \in {owner, None}
      /\ conns' = [k \in DOMAIN conns |-> IF k \in Mine(s) THEN ServerCloses(conns[k]) ELSE conns[k]]
      /\ UNCHANGED <<path, client, calls, ran>>
  BY DEF Ended
<1>2. DOMAIN conns = Ports
  BY DEF Inv, Typed
<1>3. conns' = [k \in Ports |-> conns'[k]] /\ DOMAIN conns' = Ports
  BY <1>1, <1>2
<1>4. \A k \in Ports : /\ HasTask(conns[k], s) => k \in Mine(s)
                       /\ k \in Mine(s) => conns[k] # Free
  BY <1>2 DEF Mine, HasTask
<1>5. \A k \in Ports : IF k \in Mine(s) THEN Shut(k) ELSE conns'[k] = conns[k]
  BY <1>1, <1>2, <1>4 DEF Shut
<1>6. loose' \subseteq loose
  BY DEF Ended
<1>7. EndStep(s)
  <2>1. /\ proc' \in [Services -> {"off", "boot", "up", "drain", "stopping", "down"}]
        /\ \A r \in Services : r # s => proc'[r] = proc[r]
    BY <1>1 DEF Inv, Typed
  <2>2. QED
    BY <1>1, <1>3, <1>4, <1>5, <1>6, <2>1 DEF EndStep
<1>8. QED
  BY <1>3, <1>7, StepEnds

-----------------------------------------------------------------------------
(* The theorem.                                                            *)

\* No service runs and no call was made.
LEMMA InvInit == Init => Inv
<1> SUFFICES ASSUME Init PROVE Inv
  OBVIOUS
<1>1. PICK z \in Seq(CallRow) : z = <<>>
  BY Nothing
<1>2. PICK w \in Seq(Nat) : w = <<>>
  BY Nothing
<1>3. Typed
  BY <1>1, <1>2, GivenUp DEF Init, Typed, Ports
<1>4. \A k \in Ports : conns[k] = Free
  BY DEF Init, Ports
<1>5. \A c \in Clients : client[c].pc = "idle" /\ client[c].conn = None
  BY GivenUp DEF Init
<1>6. Wired /\ Calling
  BY <1>5 DEF Wired, Calling
<1>7. Unrun /\ OnePlace
  BY <1>4, <1>5, FreePort DEF Unrun, OnePlace, Init
<1>8. Counted
  BY DEF Counted, Init
<1>9. \A k \in Ports : Orderly(conns[k]) /\ Serves(conns[k])
  BY <1>4, FreePort
<1>10. QED
  BY <1>3, <1>6, <1>7, <1>8, <1>9 DEF Inv

\* Every step of a client and of a service keeps the invariant.
LEMMA InvNext == Inv /\ [Next]_vars => Inv'
<1> SUFFICES ASSUME Inv, [Next]_vars PROVE Inv'
  OBVIOUS
<1>1. ASSUME NEW c \in Clients, NEW m \in Methods, call_tool(c, m) PROVE Inv'
  BY <1>1, CallToolInv
<1>2. ASSUME NEW c \in Clients, Attached(c) PROVE Inv'
  BY <1>2, DialInv, WritePhaseInv, ReadLineInv, TimeoutInv DEF Attached, Reading
<1>3. ASSUME NEW s \in Services, Boot(s) \/ Accept(s) \/ Signal(s) \/ Stopping(s) \/ Crash(s) PROVE Inv'
  <2>1. CASE Boot(s) \/ bootstrap_or_exit_on_signal(s)
    BY <2>1, BootInv
  <2>2. CASE Accept(s)
    BY <2>2, AcceptInv
  <2>3. CASE Signal(s)
    BY <2>3, SignalInv DEF Signal
  <2>4. CASE BeginShutdown(s)
    BY <2>4, BeginShutdownInv
  <2>5. CASE Drained(s)
    BY <2>5, DrainedInv
  <2>6. CASE AbortAll(s)
    BY <2>6, AbortAllInv
  <2>7. CASE Exit(s) \/ Crash(s)
    BY <2>7, EndedInv DEF Exit, Crash
  <2>8. QED
    BY <1>3, <2>1, <2>2, <2>3, <2>4, <2>5, <2>6, <2>7 DEF Stopping
<1>4. ASSUME NEW k \in DOMAIN conns, Serving(k) \/ Dispatch(k) \/ Progress(k) PROVE Inv'
  BY <1>4, NextLineInv, ReplyInv, DispatchInv, ProgressInv DEF Serving
<1>5. CASE LooseDispatch
  BY <1>5, LooseDispatchInv
<1>6. CASE UNCHANGED vars
  BY <1>6, SignalInv DEF vars
<1>7. QED
  BY <1>1, <1>2, <1>3, <1>4, <1>5, <1>6 DEF Next

\* However connections are lost, calls time out and services stop, crash and restart, a tool
\* call is executed at most once, exactly once if its caller is told ok, and never beyond the
\* scope of its process: attached.rs retries a write that failed, never a read.
THEOREM CallsOnce == Spec => []CallsExact
<1>1. Init => Inv
  BY InvInit
<1>2. Inv /\ [Next]_vars => Inv'
  BY InvNext
<1>3. Inv => CallsExact
  <2> SUFFICES ASSUME Inv PROVE CallsExact
    OBVIOUS
  <2>1. DOMAIN ran = DOMAIN calls /\ \A i \in DOMAIN ran : ran[i] \in Nat
    BY DEF Inv, Typed
  <2>2. AtMostOnce
    BY <2>1 DEF AtMostOnce, Inv, Counted
  <2>3. AnswersHonest
    BY <2>1 DEF AnswersHonest, Inv, Counted, Visible, is_tool_visible
  <2>4. QED
    BY <2>2, <2>3 DEF CallsExact
<1>4. QED
  BY <1>1, <1>2, <1>3, PTL DEF Spec

=============================================================================
