---------------------------- MODULE SchoolProofs ----------------------------
(***************************************************************************)
(* Proofs about parts of the school's day, for any number of each: the     *)
(* sockets of a notification engine, the saves of the attendance page, the *)
(* marks of an examination, the rows of the staff-service, and the files   *)
(* of pupils with their consents and erasures.                             *)
(***************************************************************************)
EXTENDS Exams, AttendanceOutbox, NotificationHub, Staffing, Pupils, SumProofs,
        FiniteSetTheorems, TLAPS

-----------------------------------------------------------------------------
(* The sockets of a notification engine (NotificationHub) *)

ReaderPc == {"none", "add", "hello", "read", "lost", "apply", "reply", "leave", "close",
             "gone"}
HubState == [pc : {"wait", "delete", "shut", "done"}, c : Client \cup {None}]
Publication == [on : BOOLEAN, env : Envelope \cup {NoEnvelope}, todo : SUBSET Client]

HubTypeOK ==
    /\ clients \subseteq Client /\ removing \subseteq Client
    /\ {scope, assertion} \subseteq [Client -> SUBSET Channel]
    /\ wanted \in [Client -> [scope : SUBSET Channel, grants : SUBSET Channel]]
    /\ shut \in [Client -> BOOLEAN]
    /\ reader \in [Client -> ReaderPc]
    /\ hub \in HubState
    /\ pub \in [Publisher -> Publication]

\* A publisher walks registered sockets, and those are open: a socket is closed
\* after it was deleted, and deleted at most once it was added.
OpenInv ==
    /\ \A p \in Publisher : pub[p].on => pub[p].todo \subseteq clients
    /\ \A c \in clients : ~shut[c]
    /\ hub.pc = "shut" => hub.c \notin clients
    /\ \A c \in Client : reader[c] \in {"none", "add"} =>
          /\ c \notin clients /\ c \notin removing /\ ~shut[c]
          /\ hub.pc \in {"delete", "shut"} => hub.c # c

GrantedInv ==
    /\ ScopeIsLastGrant
    /\ \A c \in Client : wanted[c].scope \subseteq wanted[c].grants

HubInv == HubTypeOK /\ OpenInv /\ GrantedInv

LEMMA HubInit0 == HubInit => HubInv
<1> SUFFICES ASSUME HubInit PROVE HubInv
  OBVIOUS
<1>1. HubTypeOK
  <2>1. [on |-> FALSE, env |-> NoEnvelope, todo |-> {}] \in Publication
    BY DEF Publication
  <2>2. pub \in [Publisher -> Publication]
    BY <2>1 DEF HubInit
  <2> QED BY <2>2 DEF HubInit, HubTypeOK, HubState, ReaderPc, NothingWanted
<1>2. OpenInv /\ GrantedInv
  BY DEF HubInit, OpenInv, GrantedInv, ScopeIsLastGrant, NothingWanted
<1> QED BY <1>1, <1>2 DEF HubInv

LEMMA HubStep == HubInv /\ [HubNext]_hubVars => HubInv'
<1> SUFFICES ASSUME HubInv, [HubNext]_hubVars PROVE HubInv'
  OBVIOUS
<1>0. HubTypeOK /\ OpenInv /\ GrantedInv
  BY DEF HubInv
\* Nothing the invariant speaks of changes.
<1>1. ASSUME UNCHANGED <<clients, scope, assertion, shut, reader, wanted, removing, hub, pub>>
      PROVE  HubInv'
  BY <1>0, <1>1 DEF HubInv, HubTypeOK, OpenInv, GrantedInv, ScopeIsLastGrant
\* Only a reader moves on, not to be added or to apply anything.
<1>2. ASSUME NEW c \in Client, NEW pc \in ReaderPc \ {"none", "add", "apply"}, Goes(c, pc),
             reader[c] # "apply",
             UNCHANGED <<clients, scope, assertion, shut, wanted, removing, hub, pub>>
      PROVE  HubInv'
  <2>1. HubTypeOK'
    BY <1>0, <1>2 DEF HubTypeOK, Goes
  <2>2. OpenInv' /\ GrantedInv'
    BY <1>0, <1>2 DEF HubTypeOK, OpenInv, GrantedInv, ScopeIsLastGrant, Goes
  <2> QED BY <2>1, <2>2 DEF HubInv
<1>3. ASSUME NEW c \in Client, Connect(c) PROVE HubInv'
  <2>1. HubTypeOK'
    BY <1>0, <1>3 DEF HubTypeOK, Connect, Goes, ReaderPc
  <2>2. OpenInv' /\ GrantedInv'
    BY <1>0, <1>3 DEF HubTypeOK, OpenInv, GrantedInv, ScopeIsLastGrant, Connect, Goes
  <2> QED BY <2>1, <2>2 DEF HubInv
<1>4. ASSUME NEW c \in Client, Add(c) PROVE HubInv'
  <2>1. HubTypeOK'
    BY <1>0, <1>4 DEF HubTypeOK, Add, Goes, ReaderPc
  <2>2. OpenInv' /\ GrantedInv'
    BY <1>0, <1>4 DEF HubTypeOK, OpenInv, GrantedInv, ScopeIsLastGrant, Add, Goes
  <2> QED BY <2>1, <2>2 DEF HubInv
<1>5. ASSUME NEW c \in Client, RemoveDropped(c) PROVE HubInv'
  <2>1. HubTypeOK'
    BY <1>0, <1>5 DEF HubTypeOK, RemoveDropped, HandOver, socketVars, HubState
  <2>2. OpenInv'
    BY <1>0, <1>5 DEF HubTypeOK, OpenInv, RemoveDropped, HandOver, socketVars
  <2>3. GrantedInv'
    BY <1>0, <1>5 DEF GrantedInv, ScopeIsLastGrant, RemoveDropped, socketVars
  <2> QED BY <2>1, <2>2, <2>3 DEF HubInv
<1>6. ASSUME NEW c \in Client, Leave(c) PROVE HubInv'
  <2>1. HubTypeOK'
    BY <1>0, <1>6 DEF HubTypeOK, Leave, HandOver, Goes, HubState, ReaderPc
  <2>2. OpenInv'
    BY <1>0, <1>6 DEF HubTypeOK, OpenInv, Leave, HandOver, Goes
  <2>3. GrantedInv'
    BY <1>0, <1>6 DEF HubTypeOK, GrantedInv, ScopeIsLastGrant, Leave, Goes
  <2> QED BY <2>1, <2>2, <2>3 DEF HubInv
<1>7. CASE Delete
  <2>1. HubTypeOK' /\ GrantedInv'
    BY <1>0, <1>7 DEF HubTypeOK, GrantedInv, ScopeIsLastGrant, Delete, socketVars,
                      HubState
  <2>2. OpenInv'
    BY <1>0, <1>7 DEF HubTypeOK, HubState, OpenInv, Delete, socketVars, Walking
  <2> QED BY <2>1, <2>2 DEF HubInv
<1>8. CASE Shutdown
  <2>1. HubTypeOK' /\ GrantedInv'
    BY <1>0, <1>8 DEF HubTypeOK, GrantedInv, ScopeIsLastGrant, Shutdown, socketVars,
                      HubState
  <2>2. OpenInv'
    BY <1>0, <1>8 DEF HubTypeOK, HubState, OpenInv, Shutdown, socketVars
  <2> QED BY <2>1, <2>2 DEF HubInv
<1>9. CASE StopRun
  <2>1. HubTypeOK' /\ GrantedInv'
    BY <1>0, <1>9 DEF HubTypeOK, GrantedInv, ScopeIsLastGrant, StopRun, socketVars,
                      HubState
  <2>2. OpenInv'
    BY <1>0, <1>9 DEF HubTypeOK, HubState, OpenInv, StopRun, socketVars
  <2> QED BY <2>1, <2>2 DEF HubInv
<1>10. ASSUME NEW c \in Client,
              \/ Hello(c) \/ Pong(c) \/ Reply(c)
              \/ ReadFails(c) \/ CloseConn(c)
       PROVE  HubInv'
  <2>1. UNCHANGED <<clients, scope, assertion, shut, wanted, removing, hub, pub>>
        /\ reader[c] # "apply"
    BY <1>10 DEF Hello, Pong, Reply, ReadFails, CloseConn
  <2>2. \/ reader' = reader
        \/ \E pc \in ReaderPc \ {"none", "add", "apply"} : Goes(c, pc)
    BY <1>10 DEF Hello, Pong, Reply, ReadFails, CloseConn, ReaderPc
  <2> QED BY <1>1, <1>2, <2>1, <2>2
<1>11. ASSUME NEW c \in Client, NEW g \in SUBSET Channel, NEW r \in SUBSET Channel,
              Subscribe(c, g, r)
       PROVE  HubInv'
  <2> DEFINE w == [scope |-> g \cap r, grants |-> g]
  <2>0. w \in [scope : SUBSET Channel, grants : SUBSET Channel]
        /\ w.scope \subseteq w.grants /\ wanted' = [wanted EXCEPT ![c] = w]
    BY <1>11 DEF Subscribe
  <2> HIDE DEF w
  <2>1. HubTypeOK'
    BY <1>0, <1>11, <2>0 DEF HubTypeOK, Subscribe, Goes, ReaderPc
  <2>2. OpenInv'
    BY <1>0, <1>11 DEF HubTypeOK, OpenInv, Subscribe, Goes
  <2>3. GrantedInv'
    BY <1>0, <1>11, <2>0 DEF HubTypeOK, GrantedInv, ScopeIsLastGrant, Subscribe, Goes
  <2> QED BY <2>1, <2>2, <2>3 DEF HubInv
<1>12. ASSUME NEW c \in Client, ApplySubscribe(c) PROVE HubInv'
  <2>0. wanted[c] \in [scope : SUBSET Channel, grants : SUBSET Channel]
        /\ wanted[c].scope \subseteq wanted[c].grants
    BY <1>0 DEF HubTypeOK, GrantedInv
  <2>n. NothingWanted \in [scope : SUBSET Channel, grants : SUBSET Channel]
        /\ NothingWanted.scope \subseteq NothingWanted.grants
    BY DEF NothingWanted
  <2>1. HubTypeOK'
    BY <1>0, <1>12, <2>0, <2>n DEF HubTypeOK, ApplySubscribe, Goes, ReaderPc
  <2>2. OpenInv'
    BY <1>0, <1>12 DEF HubTypeOK, OpenInv, ApplySubscribe, Goes
  <2>3. GrantedInv'
    BY <1>0, <1>12, <2>0, <2>n DEF HubTypeOK, GrantedInv, ScopeIsLastGrant, ApplySubscribe, Goes
  <2> QED BY <2>1, <2>2, <2>3 DEF HubInv
<1>23. ASSUME NEW c \in Client, SubscribeOther(c) PROVE HubInv'
  <2>1. HubTypeOK'
    BY <1>0, <1>23 DEF HubTypeOK, SubscribeOther, Goes, ReaderPc
  <2>2. OpenInv' /\ GrantedInv'
    BY <1>0, <1>23 DEF HubTypeOK, OpenInv, GrantedInv, ScopeIsLastGrant, SubscribeOther, Goes
  <2> QED BY <2>1, <2>2 DEF HubInv
<1>13. ASSUME NEW c \in Client,
              \/ Write(c) \/ WriteFails(c) \/ ChannelClosed(c) \/ Disconnect(c)
              \/ Stop
       PROVE  HubInv'
  BY <1>1, <1>13 DEF Write, WriteFails, ChannelClosed, WriterEnds,
                     Disconnect, Stop, socketVars
\* A publisher starts, visits a socket or ends.
<1>14. ASSUME NEW p \in Publisher, NEW new \in Publication, pub' = [pub EXCEPT ![p] = new],
              new.on => new.todo \subseteq clients,
              removing' \subseteq removing \cup (IF pub[p].on THEN pub[p].todo ELSE {}),
              UNCHANGED <<clients, scope, shut, hub, socketVars>>
       PROVE  HubInv'
  <2>1. removing' \subseteq removing \cup clients
    BY <1>0, <1>14 DEF OpenInv
  <2>2. HubTypeOK' /\ GrantedInv'
    BY <1>0, <1>14, <2>1 DEF HubTypeOK, GrantedInv, ScopeIsLastGrant, socketVars
  <2>3. OpenInv'
    BY <1>0, <1>14, <2>1 DEF HubTypeOK, OpenInv, socketVars
  <2> QED BY <2>2, <2>3 DEF HubInv
<1>15. ASSUME NEW p \in Publisher, NEW env \in Envelope, StartPublish(p, env),
              UNCHANGED <<clients, scope, shut, removing, hub, socketVars>>
       PROVE  HubInv'
  <2> DEFINE new == [on |-> TRUE, env |-> env, todo |-> clients]
  <2>1. new \in Publication /\ new.todo = clients
    BY <1>0 DEF Publication, HubTypeOK
  <2>2. pub' = [pub EXCEPT ![p] = new]
    BY <1>15 DEF StartPublish
  <2> HIDE DEF new
  <2> QED BY <1>14, <1>15, <2>1, <2>2
<1>16. ASSUME NEW p \in Publisher, NEW c \in Client, Visit(p, c) PROVE HubInv'
  <2> DEFINE new == [pub[p] EXCEPT !.todo = @ \ {c}]
  <2>1. pub[p] \in Publication
    BY <1>0 DEF HubTypeOK
  <2>2. new \in Publication /\ new.todo = pub[p].todo \ {c} /\ (new.on <=> pub[p].on)
    BY <2>1 DEF Publication
  <2>3. pub' = [pub EXCEPT ![p] = new] /\ pub[p].on /\ c \in pub[p].todo
        /\ UNCHANGED <<clients, scope, shut, hub, socketVars>>
    BY <1>16 DEF Visit
  <2>4. removing' \subseteq removing \cup {c}
    BY <1>16 DEF Visit, QueueOrDrop
  <2> HIDE DEF new
  <2>5. new.todo \subseteq clients
    BY <1>0, <2>2, <2>3 DEF OpenInv
  <2> QED BY <1>14, <2>2, <2>3, <2>4, <2>5
<1>17. ASSUME NEW p \in Publisher, EndPublish(p) PROVE HubInv'
  <2> DEFINE new == [on |-> FALSE, env |-> NoEnvelope, todo |-> {}]
  <2>1. new \in Publication /\ ~new.on
    BY DEF Publication
  <2>2. pub' = [pub EXCEPT ![p] = new]
        /\ UNCHANGED <<clients, scope, shut, removing, hub, socketVars>>
    BY <1>17 DEF EndPublish
  <2> HIDE DEF new
  <2> QED BY <1>14, <2>1, <2>2
<1>18. ASSUME NEW c \in Client, Reader(c) \/ Writer(c) \/ Peer(c) PROVE HubInv'
  BY <1>3, <1>4, <1>6, <1>10, <1>11, <1>12, <1>13, <1>18, <1>23 DEF Reader, Writer, Peer
<1>19. ASSUME NEW p \in Publisher, Walk(p) PROVE HubInv'
  BY <1>16, <1>17, <1>19 DEF Walk
<1>20. ASSUME NEW p \in Api, NEW env \in Envelope, Send(p, env) PROVE HubInv'
  BY <1>15, <1>20 DEF Send, Publisher
<1>21. ASSUME NEW env \in Envelope, Receive(env) PROVE HubInv'
  BY <1>15, <1>21 DEF Receive, Publisher
<1>22. CASE Stop \/ UNCHANGED hubVars
  BY <1>1, <1>22 DEF Stop, hubVars, socketVars
<1> QED BY <1>5, <1>7, <1>8, <1>9, <1>18, <1>19, <1>20, <1>21, <1>22 DEF HubNext, Run

\* A frame is queued by a reader, with no publisher's list changed, or by a visit.
LEMMA VisitsAreHeard == HubInv /\ [HubNext]_hubVars => HeardByEntitled
<1> SUFFICES ASSUME HubInv, [HubNext]_hubVars, NEW p \in Publisher, NEW c \in Client,
                    c \in pub[p].todo, c \notin pub'[p].todo, queue'[c] # queue[c]
             PROVE  MayHear(c, pub[p].env)
  BY DEF HeardByEntitled
<1>0. HubTypeOK /\ OpenInv /\ GrantedInv
  BY DEF HubInv
<1>1. pub' # pub /\ queue' # queue
  OBVIOUS
<1>2. \E q \in Publisher, d \in Client : Visit(q, d)
  <2>1. ~ \E d \in Client : Reader(d) \/ Writer(d) \/ Peer(d) \/ RemoveDropped(d)
    BY <1>1 DEF Reader, Writer, Peer, Add, Hello, ApplySubscribe, Reply, ReadFails, Leave,
       CloseConn, Write, ChannelClosed, WriteFails, WriterEnds, Connect, Disconnect, Pong,
       Subscribe, SubscribeOther, RemoveDropped, socketVars
  <2>2. ~ (Run \/ Stop \/ UNCHANGED hubVars)
    BY <1>1 DEF Run, Delete, Shutdown, StopRun, Stop, hubVars
  <2>3. /\ ~ \E q \in Publisher : EndPublish(q)
        /\ ~ \E q \in Api, env \in Envelope : Send(q, env)
        /\ ~ \E env \in Envelope : Receive(env)
    <3>1. ASSUME NEW q \in Publisher, EndPublish(q) PROVE FALSE
      BY <1>1, <3>1, Zenon DEF EndPublish
    <3> QED BY <1>1, <3>1 DEF Send, Receive
  <2> QED BY <2>1, <2>2, <2>3 DEF HubNext, Walk
<1>3. PICK q \in Publisher, d \in Client : Visit(q, d)
  BY <1>2
<1>4. q = p /\ d = c
  <2> DEFINE new == [pub[q] EXCEPT !.todo = @ \ {d}]
  <2>1. pub \in [Publisher -> Publication] /\ pub[q] \in Publication
    BY <1>0 DEF HubTypeOK
  <2>2. new.todo = pub[q].todo \ {d}
    BY <2>1 DEF Publication
  <2>3. pub' = [pub EXCEPT ![q] = new]
    BY <1>3 DEF Visit
  <2> HIDE DEF new
  <2>4. pub'[p] = IF p = q THEN new ELSE pub[p]
    BY <2>1, <2>3
  <2> QED BY <2>2, <2>4
<1>5. Entitled(c, pub[p].env)
  BY <1>3, <1>4 DEF Visit
<1> QED BY <1>0, <1>5 DEF Entitled, MayHear, GrantedInv, ScopeIsLastGrant

\* No publisher of a notification engine sends on a closed channel, no socket keeps a
\* channel that its last assertion does not leave it, and none is sent a frame it may
\* not hear (hub.go, session.go).
THEOREM SocketsAreSafeHolds == HubSpec => SocketsAreSafe
<1>1. HubInv => NoSendOnClosed /\ ScopeIsLastGrant
  BY DEF HubInv, OpenInv, GrantedInv, NoSendOnClosed
<1> QED BY <1>1, HubInit0, HubStep, VisitsAreHeard, PTL DEF HubSpec, SocketsAreSafe

-----------------------------------------------------------------------------
(* The saves of the attendance page (AttendanceOutbox) *)

Batch == [id : Nat, sheet : Sheet, save : Nat, attempts : Nat]
AtWork == [pc : {"post", "wait", "posted", "failed"}, todo : SUBSET Batch, batch : Batch]
Sent == [by : Pass \cup {Gone}, sheet : Sheet, save : Nat]

OutboxTypeOK ==
    /\ queued \subseteq Batch /\ lastId \in Nat
    /\ pass \in [Pass -> {NoPass} \cup AtWork]
    /\ wire \subseteq Sent
    /\ session \in [Sheet -> Nat] /\ newest \in [Sheet -> Nat]
    /\ outrun \subseteq Sheet

\* Every batch there is, stored or read by a pass.
Batches == queued \cup UNION {Pending(p) : p \in Pass}

\* An id stands for one sheet, and for one batch of the store.
IdsInv ==
    /\ \A b \in Batches : b.id <= lastId
    /\ \A b, c \in Batches : b.id = c.id => b.sheet = c.sheet
    /\ \A b, c \in queued : b.id = c.id => b = c

\* A pass waits for one post, of the batch in its hands.
WireInv ==
    /\ \A r \in wire : r.by # Gone =>
          PassAt(r.by, "wait") /\ pass[r.by].batch.sheet = r.sheet
    /\ \A r, q \in wire : r.by = q.by /\ r.by # Gone => r = q
    /\ \A p \in Pass : PassAt(p, "wait") => \E r \in wire : r.by = p

\* Of a sheet that was not outrun there is one save, under one id, wherever it is.
OneBatch(s) ==
    /\ \A b \in Batches : b.sheet = s => b.save = newest[s]
    /\ \A b, c \in Batches : b.sheet = s /\ c.sheet = s => b.id = c.id
OnePost(s) ==
    /\ \A r \in wire : r.sheet = s => r.save = newest[s]
    /\ \A p \in Pass :
          PassAt(p, "posted") /\ pass[p].batch.sheet = s => session[s] = newest[s]

OutboxInv ==
    /\ OutboxTypeOK /\ IdsInv /\ WireInv /\ SaveIsKept
    /\ \A s \in Sheet \ outrun : OneBatch(s) /\ OnePost(s)

LEMMA OutboxInit0 == OutboxInit => OutboxInv
<1> SUFFICES ASSUME OutboxInit PROVE OutboxInv
  OBVIOUS
<1>1. \A p \in Pass : pass[p] = NoPass /\ Pending(p) = {} /\ pass[p].pc = "idle"
  BY DEF OutboxInit, Pending, NoPass
<1>2. Batches = {}
  BY <1>1 DEF OutboxInit, Batches
<1>3. OutboxTypeOK /\ SaveIsKept
  BY DEF OutboxInit, OutboxTypeOK, SaveIsKept, Of
<1>4. IdsInv /\ WireInv
  BY <1>1, <1>2 DEF OutboxInit, IdsInv, WireInv, PassAt
<1>5. \A s \in Sheet : OneBatch(s) /\ OnePost(s)
  BY <1>1, <1>2 DEF OutboxInit, OneBatch, OnePost, PassAt
<1> QED BY <1>3, <1>4, <1>5 DEF OutboxInv

\* What a pass is about to post, or holds, are batches.
LEMMA BatchesTyped ==
    ASSUME OutboxTypeOK
    PROVE  /\ \A p \in Pass : Pending(p) \subseteq Batch /\ Pending(p) \subseteq Batches
           /\ \A p \in Pass : pass[p] # NoPass =>
                 pass[p] \in AtWork /\ pass[p].batch \in Pending(p) /\ pass[p].todo \subseteq Pending(p)
           /\ Batches \subseteq Batch /\ queued \subseteq Batches
           /\ \A p \in Pass : pass[p] = NoPass => pass[p].pc = "idle"
<1>1. \A p \in Pass : pass[p] # NoPass => pass[p] \in AtWork
  BY DEF OutboxTypeOK
<1>2. \A p \in Pass : pass[p] # NoPass =>
          pass[p].batch \in Batch /\ pass[p].todo \subseteq Batch
  BY <1>1 DEF AtWork
<1>3. \A p \in Pass : Pending(p) \subseteq Batch
  BY <1>2 DEF Pending
<1>4. \A p \in Pass : Pending(p) \subseteq Batches
  BY DEF Batches
<1>5. Batches \subseteq Batch
  BY <1>3 DEF Batches, OutboxTypeOK
<1> QED BY <1>1, <1>2, <1>3, <1>4, <1>5 DEF Pending, Batches, NoPass

\* A pass that goes on holds batches of its list, and the others are left alone.
LEMMA GoesOnTo ==
    ASSUME OutboxTypeOK, NEW p \in Pass, NEW todo \in SUBSET Batch, GoesOn(p, todo)
    PROVE  /\ pass' \in [Pass -> {NoPass} \cup AtWork]
           /\ Pending(p)' \subseteq todo
           /\ pass'[p].pc \in {"idle", "post"}
           /\ \A q \in Pass \ {p} : pass'[q] = pass[q] /\ Pending(q)' = Pending(q)
<1>1. CASE todo = {}
  BY <1>1 DEF GoesOn, OutboxTypeOK, Pending, NoPass
<1>2. ASSUME NEW b \in todo, pass' = [pass EXCEPT ![p] =
                 [pc |-> "post", todo |-> todo \ {b}, batch |-> b]]
      PROVE  /\ pass' \in [Pass -> {NoPass} \cup AtWork]
             /\ Pending(p)' \subseteq todo
             /\ pass'[p].pc \in {"idle", "post"}
             /\ \A q \in Pass \ {p} : pass'[q] = pass[q] /\ Pending(q)' = Pending(q)
  <2> DEFINE new == [pc |-> "post", todo |-> todo \ {b}, batch |-> b]
  <2>1. new \in AtWork /\ new.pc = "post" /\ new.todo = todo \ {b} /\ new.batch = b
    BY <1>2 DEF AtWork
  <2>2. pass' = [pass EXCEPT ![p] = new]
    BY <1>2
  <2> HIDE DEF new
  <2> QED BY <2>1, <2>2 DEF OutboxTypeOK, Pending
<1> QED BY <1>1, <1>2 DEF GoesOn

\* A pass that moves holds what it held.
LEMMA MovesTo ==
    ASSUME OutboxTypeOK, NEW p \in Pass, pass[p] # NoPass,
           NEW pc \in {"post", "wait", "posted", "failed"}, Moves(p, pc)
    PROVE  /\ pass' \in [Pass -> {NoPass} \cup AtWork]
           /\ pass'[p].pc = pc /\ pass'[p].batch = pass[p].batch
           /\ \A q \in Pass \ {p} : pass'[q] = pass[q]
           /\ \A q \in Pass : Pending(q)' = Pending(q)
<1> DEFINE new == [pass[p] EXCEPT !.pc = pc]
<1>1. pass[p] \in AtWork
  BY BatchesTyped
<1>2. new \in AtWork /\ new.pc = pc /\ new.batch = pass[p].batch /\ new.todo = pass[p].todo
  BY <1>1 DEF AtWork
<1>3. pass' = [pass EXCEPT ![p] = new]
  BY DEF Moves
<1>4. new # NoPass
  BY <1>2 DEF NoPass
<1> HIDE DEF new
<1> QED BY <1>2, <1>3, <1>4 DEF OutboxTypeOK, Pending

\* A step that adds no save, of the teacher or to the store, keeps ids and saves.
LEMMA SameSaves ==
    ASSUME OutboxInv, UNCHANGED <<newest, outrun, lastId>>,
           \A b \in Batches' : \E c \in Batches :
               b.id = c.id /\ b.sheet = c.sheet /\ b.save = c.save,
           \A b, c \in queued' : b.id = c.id => b = c
    PROVE  IdsInv' /\ \A s \in Sheet \ outrun' : OneBatch(s)'
<1>1. IdsInv'
  BY DEF OutboxInv, IdsInv
<1>2. \A s \in Sheet \ outrun : OneBatch(s)
  BY DEF OutboxInv
<1>3. ASSUME NEW s \in Sheet \ outrun PROVE OneBatch(s)'
  BY <1>2, <1>3 DEF OneBatch
<1> QED BY <1>1, <1>3

LEMMA QueueAttendanceStep ==
    ASSUME OutboxInv, NEW s \in Sheet, QueueAttendance(s) PROVE OutboxInv'
<1>0. OutboxTypeOK /\ IdsInv /\ WireInv /\ SaveIsKept
      /\ \A t \in Sheet \ outrun : OneBatch(t) /\ OnePost(t)
  BY DEF OutboxInv
<1>1. newest' = [newest EXCEPT ![s] = @ + 1] /\ newest'[s] \in Nat
      /\ \A t \in Sheet \ {s} : newest'[t] = newest[t]
  BY <1>0 DEF QueueAttendance, NewSave, OutboxTypeOK
<1>2. UNCHANGED <<pass, wire, session>> /\ \A p \in Pass : Pending(p)' = Pending(p)
  BY DEF QueueAttendance, Pending
<1>3. outrun' \subseteq Sheet /\ outrun \subseteq outrun'
      /\ (s \notin outrun' => CopiesOf(s) = {})
  BY <1>0 DEF QueueAttendance, Outruns, OutboxTypeOK
<1>4. PICK new \in Batch, old \in SUBSET queued :
          /\ new.sheet = s /\ new.save = newest'[s]
          /\ queued' = (queued \ old) \cup {new}
          /\ \A b \in old : b.sheet = s
          /\ \/ old = {} /\ Of(s, queued) = {} /\ new.id = lastId + 1 /\ lastId' = lastId + 1
             \/ lastId' = lastId /\ \E b \in queued : old = {b} /\ new.id = b.id /\ b.sheet = s
  <2>1. CASE Of(s, queued) = {} /\ lastId' = lastId + 1 /\ queued' = queued \cup
                {[id |-> lastId + 1, sheet |-> s, save |-> newest'[s], attempts |-> 0]}
    <3> DEFINE b0 == [id |-> lastId + 1, sheet |-> s, save |-> newest'[s], attempts |-> 0]
    <3>1. b0 \in Batch /\ b0.sheet = s /\ b0.save = newest'[s] /\ b0.id = lastId + 1
      BY <1>0, <1>1 DEF Batch, OutboxTypeOK
    <3>2. queued' = (queued \ {}) \cup {b0}
      BY <2>1
    <3> HIDE DEF b0
    <3> QED BY <2>1, <3>1, <3>2
  <2>2. ASSUME NEW b \in Of(s, queued), UNCHANGED lastId,
               queued' = (queued \ {b}) \cup {[b EXCEPT !.save = newest'[s]]}
        PROVE  \E n \in Batch, old \in SUBSET queued :
                  /\ n.sheet = s /\ n.save = newest'[s]
                  /\ queued' = (queued \ old) \cup {n}
                  /\ \A c \in old : c.sheet = s
                  /\ \/ /\ old = {} /\ Of(s, queued) = {} /\ n.id = lastId + 1
                        /\ lastId' = lastId + 1
                     \/ /\ lastId' = lastId
                        /\ \E c \in queued : old = {c} /\ n.id = c.id /\ c.sheet = s
    <3> DEFINE b0 == [b EXCEPT !.save = newest'[s]]
    <3>1. b \in Batch /\ b \in queued /\ b.sheet = s
      BY <1>0, <2>2 DEF Of, OutboxTypeOK
    <3>2. b0 \in Batch /\ b0.sheet = s /\ b0.save = newest'[s] /\ b0.id = b.id
      BY <1>1, <3>1 DEF Batch
    <3>3. queued' = (queued \ {b}) \cup {b0}
      BY <2>2
    <3> HIDE DEF b0
    <3> QED BY <2>2, <3>1, <3>2, <3>3
  <2> QED BY <2>1, <2>2 DEF QueueAttendance
<1>5. OutboxTypeOK'
  BY <1>0, <1>1, <1>2, <1>3, <1>4 DEF OutboxTypeOK
<1>6. Batches' = queued' \cup UNION {Pending(p) : p \in Pass}
  BY <1>2 DEF Batches
<1>7. Batches' \subseteq Batches \cup {new} /\ Batches \subseteq Batch /\ new \in queued'
  BY <1>0, <1>4, <1>6, BatchesTyped DEF Batches
<1>8. IdsInv'
  <2>1. \A b \in Batches : b.id \in Nat /\ b.id <= lastId
    BY <1>0, <1>7 DEF IdsInv, Batch
  <2>2. \A b \in Batches' : b.id <= lastId'
    BY <1>0, <1>4, <1>7, <2>1, BatchesTyped DEF OutboxTypeOK
  <2>3. \A b, c \in Batches' : b.id = c.id => b.sheet = c.sheet
    <3>1. ASSUME NEW b \in Batches, b.id = new.id PROVE b.sheet = s
      BY <1>0, <1>4, <2>1, <3>1, BatchesTyped DEF IdsInv, OutboxTypeOK
    <3> QED BY <1>0, <1>4, <1>7, <3>1 DEF IdsInv
  <2>4. \A b, c \in queued' : b.id = c.id => b = c
    <3>1. ASSUME NEW b \in queued \ old PROVE b.id # new.id
      BY <1>0, <1>4, <2>1, BatchesTyped DEF IdsInv, OutboxTypeOK
    <3> QED BY <1>0, <1>4, <3>1 DEF IdsInv
  <2> QED BY <2>2, <2>3, <2>4 DEF IdsInv
<1>9. WireInv'
  BY <1>0, <1>2 DEF WireInv, PassAt
<1>10. ASSUME NEW t \in Sheet \ {s}, t \notin outrun' PROVE OneBatch(t)' /\ OnePost(t)'
  <2>1. OneBatch(t) /\ OnePost(t)
    BY <1>0, <1>3, <1>10
  <2>2. \A b \in Batches' : b.sheet = t => b \in Batches
    BY <1>4, <1>7
  <2> QED BY <1>1, <1>2, <2>1, <2>2 DEF OneBatch, OnePost, PassAt
<1>11. ASSUME s \notin outrun' PROVE OneBatch(s)' /\ OnePost(s)'
  <2>1. Of(s, wire) = {} /\ \A p \in Pass : Of(s, Pending(p)) = {}
    BY <1>3, <1>11 DEF CopiesOf
  <2>2. \A b \in queued' : b.sheet = s => b = new
    <3>1. ASSUME NEW b \in queued \ old, b.sheet = s PROVE FALSE
      <4>1. s \notin outrun /\ OneBatch(s) /\ Of(s, queued) # {}
        BY <1>0, <1>3, <1>11, <3>1 DEF Of
      <4>2. PICK c \in queued : old = {c} /\ c.sheet = s
        BY <1>4, <4>1
      <4>3. b.id = c.id
        BY <1>0, <3>1, <4>1, <4>2, BatchesTyped DEF OneBatch
      <4> QED BY <1>0, <3>1, <4>2, <4>3 DEF IdsInv
    <3> QED BY <1>4, <3>1
  <2>3. \A b \in Batches' : b.sheet = s => b = new
    BY <1>6, <2>1, <2>2 DEF Of
  <2>4. OneBatch(s)'
    BY <1>4, <2>3 DEF OneBatch
  <2>5. \A p \in Pass : PassAt(p, "posted") => pass[p] # NoPass
    BY DEF PassAt, NoPass
  <2>6. \A p \in Pass : PassAt(p, "posted") => pass[p].batch.sheet # s
    BY <1>0, <2>1, <2>5, BatchesTyped DEF Of
  <2>7. OnePost(s)'
    BY <1>2, <2>1, <2>6 DEF OnePost, PassAt, Of
  <2> QED BY <2>4, <2>7
<1>12. SaveIsKept'
  <2>1. ASSUME NEW t \in Sheet \ {s}, t \notin outrun'
        PROVE  session'[t] = newest'[t] \/ \E b \in Of(t, queued)' : b.save = newest'[t]
    <3>1. session[t] = newest[t] \/ \E b \in Of(t, queued) : b.save = newest[t]
      BY <1>0, <1>3, <2>1 DEF SaveIsKept
    <3>2. Of(t, queued) \subseteq Of(t, queued')
      BY <1>4, <2>1 DEF Of
    <3> QED BY <1>1, <1>2, <3>1, <3>2 DEF Of
  <2>2. \E b \in Of(s, queued)' : b.save = newest'[s]
    BY <1>4, <1>7 DEF Of
  <2> QED BY <2>1, <2>2 DEF SaveIsKept
<1> QED BY <1>5, <1>8, <1>9, <1>10, <1>11, <1>12 DEF OutboxInv

LEMMA SaveAttendanceStep ==
    ASSUME OutboxInv, NEW s \in Sheet, SaveAttendance(s) PROVE OutboxInv'
<1>0. OutboxTypeOK /\ IdsInv /\ WireInv /\ SaveIsKept
      /\ \A t \in Sheet \ outrun : OneBatch(t) /\ OnePost(t)
  BY DEF OutboxInv
<1>1. newest' = [newest EXCEPT ![s] = @ + 1] /\ newest'[s] \in Nat
      /\ session' = [session EXCEPT ![s] = newest'[s]]
      /\ \A t \in Sheet \ {s} : newest'[t] = newest[t] /\ session'[t] = session[t]
  BY <1>0 DEF SaveAttendance, NewSave, OutboxTypeOK
<1>2. UNCHANGED <<queued, lastId, pass, wire>> /\ UNCHANGED Batches
  BY DEF SaveAttendance, stores, Batches, Pending
<1>3. outrun' \subseteq Sheet /\ outrun \subseteq outrun'
      /\ (s \notin outrun' => CopiesOf(s) = {} /\ Of(s, queued) = {})
  BY <1>0 DEF SaveAttendance, Outruns, OutboxTypeOK
<1>4. OutboxTypeOK'
  BY <1>0, <1>1, <1>2, <1>3 DEF OutboxTypeOK
<1>5. IdsInv' /\ WireInv'
  BY <1>0, <1>2 DEF IdsInv, WireInv, PassAt
<1>6. ASSUME NEW t \in Sheet \ {s}, t \notin outrun' PROVE OneBatch(t)' /\ OnePost(t)'
  BY <1>0, <1>1, <1>2, <1>3, <1>6 DEF OneBatch, OnePost, PassAt
<1>7. ASSUME s \notin outrun' PROVE OneBatch(s)' /\ OnePost(s)'
  <2>1. Of(s, wire) = {} /\ Of(s, queued) = {} /\ \A p \in Pass : Of(s, Pending(p)) = {}
    BY <1>3, <1>7 DEF CopiesOf
  <2>2. \A b \in Batches : b.sheet # s
    BY <2>1 DEF Batches, Of
  <2>3. OneBatch(s)' /\ OnePost(s)'
    BY <1>1, <1>2, <2>1, <2>2, <1>0 DEF OneBatch, OnePost, PassAt, Of, OutboxTypeOK
  <2> QED BY <2>3
<1>8. SaveIsKept'
  BY <1>0, <1>1, <1>2, <1>3 DEF SaveIsKept, Of, OutboxTypeOK
<1> QED BY <1>4, <1>5, <1>6, <1>7, <1>8 DEF OutboxInv

\* A pass goes on with batches there are; the store loses batches, or gets back the
\* one that failed under its id.
LEMMA PassGoesOn ==
    ASSUME OutboxInv, NEW p \in Pass, ~PassAt(p, "wait"),
           NEW todo \in SUBSET Batches, GoesOn(p, todo),
           NEW new \in SUBSET Batch,
           \A b \in new : \E c \in Batches :
               b.id = c.id /\ b.sheet = c.sheet /\ b.save = c.save,
           queued' \subseteq queued \cup new,
           \A b, c \in queued' : b.id = c.id => b = c,
           UNCHANGED <<wire, session, lastId, saves>>,
           SaveIsKept'
    PROVE  OutboxInv'
<1>0. OutboxTypeOK /\ IdsInv /\ WireInv
      /\ \A t \in Sheet \ outrun : OneBatch(t) /\ OnePost(t)
  BY DEF OutboxInv
<1>1. UNCHANGED <<newest, outrun, lastId, wire, session>>
  BY DEF saves
<1>2. todo \in SUBSET Batch
  BY <1>0, BatchesTyped
<1>3. /\ pass' \in [Pass -> {NoPass} \cup AtWork]
      /\ Pending(p)' \subseteq todo
      /\ pass'[p].pc \in {"idle", "post"}
      /\ \A q \in Pass \ {p} : pass'[q] = pass[q] /\ Pending(q)' = Pending(q)
  BY <1>0, <1>2, GoesOnTo
<1>4. OutboxTypeOK'
  BY <1>0, <1>1, <1>3 DEF OutboxTypeOK
<1>5. Batches' \subseteq Batches \cup new
  BY <1>0, <1>3, BatchesTyped DEF Batches
<1>6. IdsInv' /\ \A s \in Sheet \ outrun' : OneBatch(s)'
  BY <1>1, <1>5, SameSaves
<1>7. ~PassAt(p, "wait")' /\ ~PassAt(p, "posted")'
  BY <1>3 DEF PassAt
<1>8. \A q \in Pass \ {p} : \A pc \in {"wait", "posted"} :
          PassAt(q, pc)' <=> PassAt(q, pc)
  BY <1>3 DEF PassAt
<1>9. WireInv'
  <2>1. \A r \in wire : r.by # Gone => r.by \in Pass \ {p}
    BY <1>0 DEF WireInv, OutboxTypeOK, Sent
  <2>2. \A r \in wire : r.by # Gone =>
            PassAt(r.by, "wait")' /\ pass'[r.by].batch.sheet = r.sheet
    BY <1>0, <1>3, <1>8, <2>1 DEF WireInv
  <2> QED BY <1>0, <1>1, <1>7, <1>8, <2>2 DEF WireInv
<1>10. ASSUME NEW s \in Sheet \ outrun' PROVE OnePost(s)'
  <2>1. OnePost(s)
    BY <1>0, <1>1
  <2>2. \A q \in Pass : PassAt(q, "posted")' => q # p
    BY <1>7
  <2> QED BY <1>1, <1>3, <1>8, <2>1, <2>2 DEF OnePost
<1> QED BY <1>4, <1>6, <1>9, <1>10 DEF OutboxInv

LEMMA PassSteps ==
    ASSUME OutboxInv, NEW p \in Pass, StartSync(p) \/ DeletePosted(p) \/ PutBack(p)
    PROVE  OutboxInv'
<1>0. OutboxTypeOK /\ IdsInv /\ SaveIsKept
      /\ \A t \in Sheet \ outrun : OneBatch(t) /\ OnePost(t)
  BY DEF OutboxInv
<1>1. CASE StartSync(p)
  <2> DEFINE todo == {b \in queued : b.attempts < GiveUpAt}
  <2>1. todo \in SUBSET Batches /\ GoesOn(p, todo) /\ UNCHANGED <<wire, session, lastId, saves>>
        /\ queued' = queued /\ ~PassAt(p, "wait")
    BY <1>0, <1>1, BatchesTyped DEF StartSync, stores, PassAt
  <2>2. SaveIsKept'
    BY <1>0, <2>1 DEF SaveIsKept, saves
  <2>3. queued' \subseteq queued \cup {} /\ {} \in SUBSET Batch
    BY <2>1
  <2>4. \A b, c \in queued' : b.id = c.id => b = c
    BY <1>0, <2>1 DEF IdsInv
  <2> HIDE DEF todo
  <2> QED BY <2>1, <2>2, <2>3, <2>4, PassGoesOn
<1>2. CASE DeletePosted(p) \/ PutBack(p)
  <2> DEFINE b0 == pass[p].batch
             back == IF DeletePosted(p) THEN {} ELSE Retained(b0)
  <2>1. pass[p] # NoPass /\ ~PassAt(p, "wait") /\ UNCHANGED <<wire, session, lastId, saves>>
        /\ GoesOn(p, pass[p].todo)
    BY <1>2 DEF DeletePosted, PutBack, PassAt, NoPass
  <2>2. b0 \in Batch /\ b0 \in Batches /\ pass[p].todo \in SUBSET Batches
    BY <1>0, <2>1, BatchesTyped
  <2>3. \A b \in Retained(b0) :
            b \in Batch /\ b.id = b0.id /\ b.sheet = b0.sheet /\ b.save = b0.save
    BY <2>2 DEF Retained, Batch
  <2>4. \E b \in Retained(b0) : TRUE
    BY DEF Retained
  <2>5. \A b, c \in Retained(b0) : b = c
    BY DEF Retained
  <2>6. queued' = {c \in queued : c.id # b0.id} \cup back
    BY <1>2 DEF DeletePosted, PutBack, Others
  <2>7. \A b, c \in queued' : b.id = c.id => b = c
    BY <1>0, <2>3, <2>5, <2>6 DEF IdsInv
  <2>8. SaveIsKept'
    <3>1. ASSUME NEW s \in Sheet \ outrun
          PROVE  session[s] = newest[s] \/ \E b \in Of(s, queued') : b.save = newest[s]
      <4>1. CASE b0.sheet # s
        <5>1. ASSUME NEW b \in Of(s, queued) PROVE b \in Of(s, queued')
          <6>1. b \in queued /\ b.sheet = s
            BY <5>1 DEF Of
          <6>2. b.id # b0.id
            BY <1>0, <2>2, <4>1, <6>1, BatchesTyped DEF IdsInv
          <6> QED BY <2>6, <6>1, <6>2 DEF Of
        <5> QED BY <1>0, <3>1, <5>1 DEF SaveIsKept
      <4>2. CASE b0.sheet = s /\ DeletePosted(p)
        BY <1>0, <3>1, <4>2 DEF DeletePosted, OnePost
      <4>3. CASE b0.sheet = s /\ ~DeletePosted(p)
        <5>1. PICK b \in Retained(b0) : TRUE
          BY <2>4
        <5>2. b.sheet = s /\ b.save = newest[s] /\ b \in queued'
          BY <1>0, <2>2, <2>3, <2>6, <3>1, <4>3, <5>1 DEF OneBatch
        <5> QED BY <5>2 DEF Of
      <4> QED BY <4>1, <4>2, <4>3
    <3> QED BY <2>1, <3>1 DEF SaveIsKept, Of, saves
  <2>9. /\ back \in SUBSET Batch
        /\ queued' \subseteq queued \cup back
        /\ \A b \in back : \E c \in Batches :
               b.id = c.id /\ b.sheet = c.sheet /\ b.save = c.save
    BY <2>2, <2>3, <2>6
  <2> HIDE DEF b0, back
  <2> QED BY <2>1, <2>2, <2>7, <2>8, <2>9, PassGoesOn
<1> QED BY <1>1, <1>2

LEMMA PostStep == ASSUME OutboxInv, NEW p \in Pass, Post(p) PROVE OutboxInv'
<1>0. OutboxTypeOK /\ IdsInv /\ WireInv /\ SaveIsKept
      /\ \A t \in Sheet \ outrun : OneBatch(t) /\ OnePost(t)
  BY DEF OutboxInv
<1> DEFINE b == pass[p].batch
           r0 == [by |-> p, sheet |-> b.sheet, save |-> b.save]
<1>1. pass[p] # NoPass /\ PassAt(p, "post") /\ Moves(p, "wait") /\ wire' = wire \cup {r0}
      /\ UNCHANGED <<queued, lastId, session, newest, outrun>>
  BY DEF Post, stores, saves, PassAt, NoPass
<1>2. /\ pass' \in [Pass -> {NoPass} \cup AtWork]
      /\ pass'[p].pc = "wait" /\ pass'[p].batch = b
      /\ \A q \in Pass \ {p} : pass'[q] = pass[q]
      /\ \A q \in Pass : Pending(q)' = Pending(q)
  BY <1>0, <1>1, MovesTo
<1>3. b \in Batch /\ b \in Batches
  BY <1>0, <1>1, BatchesTyped
<1>4. r0 \in Sent /\ r0.by = p /\ r0.sheet = b.sheet /\ r0.save = b.save
  BY <1>3 DEF Sent, Batch
<1> HIDE DEF b, r0
<1>5. OutboxTypeOK'
  BY <1>0, <1>1, <1>2, <1>4 DEF OutboxTypeOK
<1>6. Batches' = Batches
  BY <1>1, <1>2 DEF Batches
<1>7. IdsInv' /\ SaveIsKept'
  BY <1>0, <1>1, <1>6 DEF IdsInv, SaveIsKept
<1>8. WireInv'
  <2>1. \A r \in wire : r.by # p
    BY <1>0, <1>1, <1>4, OutboxAssumption DEF WireInv, PassAt
  <2>2. \A r \in wire' : r.by # Gone =>
            PassAt(r.by, "wait")' /\ pass'[r.by].batch.sheet = r.sheet
    BY <1>0, <1>1, <1>2, <1>4, <2>1 DEF WireInv, PassAt, OutboxTypeOK, Sent, b
  <2>3. \A r, q \in wire' : r.by = q.by /\ r.by # Gone => r = q
    BY <1>0, <1>1, <1>4, <2>1 DEF WireInv
  <2>4. \A q \in Pass : PassAt(q, "wait")' => \E r \in wire' : r.by = q
    BY <1>0, <1>1, <1>2, <1>4 DEF WireInv, PassAt
  <2> QED BY <2>2, <2>3, <2>4 DEF WireInv
<1>9. ASSUME NEW s \in Sheet \ outrun' PROVE OneBatch(s)' /\ OnePost(s)'
  <2>1. OneBatch(s) /\ OnePost(s)
    BY <1>0, <1>1, <1>9
  <2>2. OneBatch(s)'
    BY <1>1, <1>6, <2>1 DEF OneBatch
  <2>3. OnePost(s)'
    BY <1>1, <1>2, <1>3, <1>4, <2>1 DEF OneBatch, OnePost, PassAt
  <2> QED BY <2>2, <2>3
<1> QED BY <1>5, <1>7, <1>8, <1>9 DEF OutboxInv

LEMMA LandStep == ASSUME OutboxInv, NEW r \in wire, Land(r) PROVE OutboxInv'
<1>0. OutboxTypeOK /\ IdsInv /\ WireInv /\ SaveIsKept
      /\ \A t \in Sheet \ outrun : OneBatch(t) /\ OnePost(t)
  BY DEF OutboxInv
<1>1. session' = [session EXCEPT ![r.sheet] = r.save] /\ wire' = wire \ {r}
      /\ UNCHANGED <<queued, lastId, newest, outrun>>
      /\ r.sheet \in Sheet /\ r.save \in Nat /\ r.by \in Pass \cup {Gone}
  BY <1>0 DEF Land, stores, saves, OutboxTypeOK, Sent
<1>2. /\ pass' \in [Pass -> {NoPass} \cup AtWork]
      /\ \A q \in Pass : Pending(q)' = Pending(q) /\ pass'[q].batch = pass[q].batch
      /\ \A q \in Pass : q # r.by => pass'[q] = pass[q]
      /\ r.by # Gone => pass'[r.by].pc \in {"posted", "failed"}
  <2>1. CASE r.by = Gone
    BY <1>0, <2>1, OutboxAssumption DEF Land, OutboxTypeOK, Pending
  <2>2. CASE r.by # Gone
    <3>1. r.by \in Pass /\ pass[r.by] # NoPass
      BY <1>0, <1>1, <2>2 DEF WireInv, PassAt, NoPass
    <3>2. \E pc \in {"posted", "failed"} : Moves(r.by, pc)
      BY <2>2 DEF Land
    <3> QED BY <1>0, <2>2, <3>1, <3>2, MovesTo
  <2> QED BY <2>1, <2>2
<1>3. OutboxTypeOK'
  BY <1>0, <1>1, <1>2 DEF OutboxTypeOK
<1>4. Batches' = Batches
  BY <1>1, <1>2 DEF Batches
<1>5. IdsInv'
  BY <1>0, <1>1, <1>4 DEF IdsInv
<1>6. WireInv'
  <2>1. \A q \in wire' : q.by # Gone => q.by # r.by /\ q.by \in Pass
    BY <1>0, <1>1 DEF WireInv, OutboxTypeOK, Sent
  <2>2. \A q \in wire' : q.by # Gone => PassAt(q.by, "wait")' /\ pass'[q.by].batch.sheet = q.sheet
    BY <1>0, <1>1, <1>2, <2>1 DEF WireInv, PassAt
  <2>3. \A q \in Pass : PassAt(q, "wait")' => q # r.by /\ PassAt(q, "wait")
    BY <1>2, OutboxAssumption DEF PassAt
  <2> QED BY <1>0, <1>1, <2>2, <2>3 DEF WireInv
<1>7. ASSUME NEW s \in Sheet \ outrun' PROVE OneBatch(s)' /\ OnePost(s)'
  <2>1. OneBatch(s) /\ OnePost(s) /\ newest'[s] = newest[s]
    BY <1>0, <1>1, <1>7
  <2>2. OneBatch(s)'
    BY <1>1, <1>4, <2>1 DEF OneBatch
  <2>3. \A q \in wire' : q.sheet = s => q.save = newest'[s]
    BY <1>1, <2>1 DEF OnePost
  <2>4. CASE r.sheet = s
    <3>1. session'[s] = newest'[s]
      BY <1>0, <1>1, <2>1, <2>4 DEF OnePost, OutboxTypeOK
    <3> QED BY <2>2, <2>3, <3>1 DEF OnePost
  <2>5. CASE r.sheet # s
    <3>1. session'[s] = session[s]
      BY <1>0, <1>1, <2>5 DEF OutboxTypeOK
    <3>2. \A q \in Pass : pass[q].batch.sheet = s => q # r.by
      BY <1>0, <2>5, OutboxAssumption DEF WireInv
    <3> QED BY <1>2, <2>1, <2>2, <2>3, <3>1, <3>2 DEF OnePost, PassAt
  <2> QED BY <2>4, <2>5
<1>8. SaveIsKept'
  <2>1. ASSUME NEW s \in Sheet \ outrun
        PROVE  session'[s] = newest[s] \/ \E b \in Of(s, queued) : b.save = newest[s]
    <3>1. r.sheet = s => r.save = newest[s]
      BY <1>0, <2>1 DEF OnePost
    <3>2. session'[s] = IF s = r.sheet THEN r.save ELSE session[s]
      BY <1>0, <1>1 DEF OutboxTypeOK
    <3> QED BY <1>0, <2>1, <3>1, <3>2 DEF SaveIsKept
  <2> QED BY <1>1, <2>1 DEF SaveIsKept, Of
<1> QED BY <1>3, <1>5, <1>6, <1>7, <1>8 DEF OutboxInv

\* A pass lets go of its post: nobody waits for it any more, or it is lost.
LEMMA LetGo ==
    ASSUME OutboxInv, NEW p \in Pass,
           pass' \in [Pass -> {NoPass} \cup AtWork],
           Pending(p)' \subseteq Pending(p),
           \A q \in Pass \ {p} : pass'[q] = pass[q] /\ Pending(q)' = Pending(q),
           pass'[p].pc \in {"idle", "failed"},
           \A r \in wire' : \/ r \in wire /\ r.by # p
                            \/ \E q \in wire : /\ r.sheet = q.sheet /\ r.save = q.save
                                               /\ r.by = Gone /\ r \in Sent,
           \A r \in wire : r.by # p => r \in wire',
           UNCHANGED <<stores, session, saves>>
    PROVE  OutboxInv'
<1>0. OutboxTypeOK /\ IdsInv /\ WireInv /\ SaveIsKept
      /\ \A t \in Sheet \ outrun : OneBatch(t) /\ OnePost(t)
  BY DEF OutboxInv
<1>1. UNCHANGED <<queued, lastId, session, newest, outrun>>
  BY DEF stores, saves
<1>2. OutboxTypeOK'
  BY <1>0, <1>1 DEF OutboxTypeOK
<1>3. Batches' \subseteq Batches
  BY <1>1 DEF Batches
<1>4. IdsInv' /\ \A s \in Sheet \ outrun' : OneBatch(s)'
  <2>1. \A b, c \in queued' : b.id = c.id => b = c
    BY <1>0, <1>1 DEF IdsInv
  <2> QED BY <1>1, <1>3, <2>1, SameSaves
<1>5. WireInv'
  <2>1. \A r \in wire' : r.by # Gone => r \in wire /\ r.by \in Pass \ {p}
    BY <1>0 DEF OutboxTypeOK, Sent
  <2>2. \A r \in wire' : r.by # Gone =>
            PassAt(r.by, "wait")' /\ pass'[r.by].batch.sheet = r.sheet
    BY <1>0, <2>1 DEF WireInv, PassAt
  <2>3. \A q \in Pass : PassAt(q, "wait")' => q # p /\ PassAt(q, "wait")
    BY DEF PassAt
  <2>4. \A q \in Pass : PassAt(q, "wait")' => \E r \in wire' : r.by = q
    BY <1>0, <2>3 DEF WireInv
  <2>5. \A r, q \in wire' : r.by = q.by /\ r.by # Gone => r = q
    BY <1>0, <2>1 DEF WireInv
  <2> QED BY <2>2, <2>4, <2>5 DEF WireInv
<1>6. ASSUME NEW s \in Sheet \ outrun' PROVE OnePost(s)'
  BY <1>0, <1>1, <1>6 DEF OnePost, PassAt
<1>7. SaveIsKept'
  BY <1>0, <1>1 DEF SaveIsKept, Of
<1> QED BY <1>2, <1>4, <1>5, <1>6, <1>7 DEF OutboxInv

LEMMA FailStep == ASSUME OutboxInv, NEW p \in Pass, Fail(p) PROVE OutboxInv'
<1>0. OutboxTypeOK /\ WireInv
  BY DEF OutboxInv
<1> DEFINE r0 == CHOOSE q \in wire : q.by = p
           adrift == [r0 EXCEPT !.by = Gone]
<1>1. pass[p] # NoPass /\ PassAt(p, "wait") /\ Moves(p, "failed")
      /\ UNCHANGED <<stores, session, saves>>
      /\ wire' \in {wire \ {r0}, (wire \ {r0}) \cup {adrift}}
  BY DEF Fail, PassAt, NoPass
<1>2. r0 \in wire /\ r0.by = p
  BY <1>0, <1>1 DEF WireInv
<1>3. r0 \in Sent
  BY <1>0, <1>2 DEF OutboxTypeOK
<1>4. adrift \in Sent /\ adrift.by = Gone /\ adrift.sheet = r0.sheet /\ adrift.save = r0.save
  BY <1>3 DEF Sent
<1> HIDE DEF r0, adrift
<1>5. \A r \in wire : r.by = p => r = r0
  BY <1>0, <1>2, OutboxAssumption DEF WireInv
<1>6. /\ pass' \in [Pass -> {NoPass} \cup AtWork]
      /\ pass'[p].pc = "failed"
      /\ \A q \in Pass \ {p} : pass'[q] = pass[q]
      /\ \A q \in Pass : Pending(q)' = Pending(q)
  BY <1>0, <1>1, MovesTo
<1>7. \A r \in wire' : \/ r \in wire /\ r.by # p
                       \/ \E q \in wire : /\ r.sheet = q.sheet /\ r.save = q.save
                                          /\ r.by = Gone /\ r \in Sent
  BY <1>1, <1>2, <1>4, <1>5
<1>8. \A r \in wire : r.by # p => r \in wire'
  BY <1>1, <1>2
<1> QED BY <1>1, <1>6, <1>7, <1>8, LetGo

LEMMA CloseTabStep == ASSUME OutboxInv, NEW p \in Pass, CloseTab(p) PROVE OutboxInv'
<1>0. OutboxTypeOK
  BY DEF OutboxInv
<1>1. /\ pass' \in [Pass -> {NoPass} \cup AtWork]
      /\ Pending(p)' \subseteq Pending(p)
      /\ \A q \in Pass \ {p} : pass'[q] = pass[q] /\ Pending(q)' = Pending(q)
      /\ pass'[p].pc \in {"idle", "failed"}
  BY <1>0 DEF CloseTab, OutboxTypeOK, Pending, NoPass
<1>2. wire' = {IF r.by = p THEN [r EXCEPT !.by = Gone] ELSE r : r \in wire}
      /\ UNCHANGED <<stores, session, saves>>
  BY DEF CloseTab
<1>3. ASSUME NEW r \in wire
      PROVE  /\ [r EXCEPT !.by = Gone] \in Sent
             /\ [r EXCEPT !.by = Gone].by = Gone
             /\ [r EXCEPT !.by = Gone].sheet = r.sheet
             /\ [r EXCEPT !.by = Gone].save = r.save
  <2>1. r \in Sent
    BY <1>0 DEF OutboxTypeOK
  <2> QED BY <2>1 DEF Sent
<1>4. \A r \in wire' : \/ r \in wire /\ r.by # p
                       \/ \E q \in wire : /\ r.sheet = q.sheet /\ r.save = q.save
                                          /\ r.by = Gone /\ r \in Sent
  BY <1>2, <1>3
<1>5. \A r \in wire : r.by # p => r \in wire'
  BY <1>2
<1> QED BY <1>1, <1>2, <1>4, <1>5, LetGo

LEMMA OutboxStep == OutboxInv /\ [OutboxNext]_outboxVars => OutboxInv'
<1> SUFFICES ASSUME OutboxInv, [OutboxNext]_outboxVars PROVE OutboxInv'
  OBVIOUS
<1>1. ASSUME NEW s \in Sheet, QueueAttendance(s) \/ SaveAttendance(s) PROVE OutboxInv'
  BY <1>1, QueueAttendanceStep, SaveAttendanceStep
<1>2. ASSUME NEW p \in Pass, SyncAttendance(p) PROVE OutboxInv'
  BY <1>2, PassSteps, PostStep, FailStep, CloseTabStep DEF SyncAttendance
<1>3. ASSUME NEW r \in wire, Land(r) PROVE OutboxInv'
  BY <1>3, LandStep
<1>4. CASE UNCHANGED outboxVars
  BY <1>4 DEF outboxVars, OutboxInv, OutboxTypeOK, IdsInv, WireInv, SaveIsKept, OneBatch, OnePost,
              Batches, Pending, PassAt, Of, stores, saves
<1> QED BY <1>1, <1>2, <1>3, <1>4 DEF OutboxNext

\* The teacher's last save of a sheet is on the server or in the store, whatever
\* passes overlap and posts are lost, land late or lose their answers, unless it was
\* made while an older one could still be posted (offline-attendance.ts).
THEOREM SaveIsKeptHolds == OutboxSpec => []SaveIsKept
<1>1. OutboxInv => SaveIsKept
  BY DEF OutboxInv
<1> QED BY <1>1, OutboxInit0, OutboxStep, PTL DEF OutboxSpec

-----------------------------------------------------------------------------
(* The marks of an examination (Exams) *)

StageName == {"ENTRY", "SUBMITTED", "VERIFIED", "PUBLISHED"}
IsRow(r) == r = [marks |-> r.marks, absent |-> r.absent]

\* What a handler holds of its request.
Holds(r) ==
    \/ r = Idle
    \/ r.pc = "enter" /\ r = [pc |-> "enter", given |-> r.given, old |-> r.old]
       /\ r.given \in Lists(Given)
    \/ r.pc \in {"count", "advance"} /\ r = [pc |-> r.pc, to |-> r.to]
       /\ r.to \in StageName
    \/ r.pc = "sheet" /\ r = [pc |-> "sheet", sheet |-> r.sheet]
       /\ r.sheet \in Lists(Cell)
    \/ r.pc = "row" /\ r = [pc |-> "row", sheet |-> r.sheet, on |-> r.on, old |-> r.old]
       /\ r.sheet \in Lists(Cell) /\ r.on \in DOMAIN r.sheet
    \/ r.pc \in {"look", "queue"} /\ r = [pc |-> r.pc]

ExamsTypeOK ==
    /\ status \in StageName /\ past \subseteq StageName
    /\ result = [s \in Pupil |-> result[s]] /\ \A s \in Pupil : IsRow(result[s])
    /\ trail = [s \in Pupil |-> trail[s]]
    /\ notices \in 0 .. 2
    /\ req = [c \in Clerk |-> req[c]] /\ \A c \in Clerk : Holds(req[c])
    /\ late \subseteq Clerk /\ twoScans \in BOOLEAN

\* A status was reached from the one before it, and a request for one was read there.
Advancing(r) == r.pc \in {"count", "advance"}
Reached(r) ==
    /\ Advancing(r) /\ r.to = "VERIFIED" => "SUBMITTED" \in past
    /\ Advancing(r) /\ r.to = "PUBLISHED" => "VERIFIED" \in past
    /\ r.pc = "advance" /\ r.to = "PUBLISHED" => Entered # {}

StagesInv ==
    /\ status \in past
    /\ "VERIFIED" \in past => "SUBMITTED" \in past
    /\ "PUBLISHED" \in past => "VERIFIED" \in past /\ Entered # {}
    /\ \A c \in Clerk : Reached(req[c])
    /\ notices > 0 \/ (\E c \in Clerk : Scanning(c)) => "PUBLISHED" \in past

\* One scan at a time finds no notices and queues them once.
NoticesInv ==
    twoScans \/
       /\ notices <= 1
       /\ \A c, d \in Clerk : Scanning(c) /\ Scanning(d) => c = d
       /\ \A c \in Clerk : At(c, "queue") => notices = 0

\* Who writes marks while the results are out was writing when they came out.
LateInv == status = "PUBLISHED" => \A c \in Clerk : Writing(c) => c \in late

ExamsInv == ExamsTypeOK /\ StagesInv /\ NoticesInv /\ LateInv /\ TrailEndsAtMark

LEMMA ExamsInit0 == Init => ExamsInv
<1> SUFFICES ASSUME Init PROVE ExamsInv
  OBVIOUS
<1>1. \A c \in Clerk : req[c] = Idle /\ req[c].pc = "idle"
  BY DEF Init, Idle
<1>2. \A s \in Pupil : result[s] = NoResult /\ IsRow(result[s])
  BY DEF Init, NoResult, IsRow
<1>3. ExamsTypeOK
  <2>1. /\ result = [s \in Pupil |-> result[s]] /\ trail = [s \in Pupil |-> trail[s]]
        /\ req = [c \in Clerk |-> req[c]]
    BY Zenon DEF Init
  <2>2. \A c \in Clerk : Holds(req[c])
    BY <1>1 DEF Holds
  <2>3. status \in StageName /\ past \subseteq StageName
    BY DEF Init, StageName
  <2>4. notices \in 0 .. 2 /\ late \subseteq Clerk
    BY DEF Init
  <2>5. twoScans \in BOOLEAN
    BY Zenon DEF Init
  <2> QED BY <1>2, <2>1, <2>2, <2>3, <2>4, <2>5, Zenon DEF ExamsTypeOK
<1>4. StagesInv /\ NoticesInv /\ LateInv
  BY <1>1 DEF Init, StagesInv, Reached, Advancing, NoticesInv, LateInv, Scanning, At
<1>5. TrailEndsAtMark
  BY <1>2 DEF TrailEndsAtMark, Entered
<1> QED BY <1>3, <1>4, <1>5 DEF ExamsInv

\* Rows of marks are recognised, and a pupil given a mark has a result.
LEMMA Rows ==
    /\ \A v, a : IsRow([marks |-> v, absent |-> a])
    /\ \A m \in Given \cup Cell : IsRow(m) /\ (m.marks = NoMark \/ m.marks \in Nat)
    /\ \A m \in Cell : m.marks \in Nat
    /\ \A r : r.marks \in Nat => r # NoResult
<1>1. \A v, a : IsRow([marks |-> v, absent |-> a])
  BY DEF IsRow
<1>2. \A m \in Cell : IsRow(m) /\ m.marks \in Nat
  BY ExamsAssumption DEF Cell, Present, Absent, IsRow
<1>3. \A m \in Given : IsRow(m) /\ (m.marks = NoMark \/ m.marks \in Nat)
  BY ExamsAssumption DEF Given, Present, Absent, IsRow
<1>4. \A r : r.marks \in Nat => r # NoResult
  BY DEF NoResult, NoMark
<1> QED BY <1>1, <1>2, <1>3, <1>4

LEMMA ListsOf ==
    ASSUME NEW S, NEW f \in Lists(S)
    PROVE  DOMAIN f \subseteq Pupil /\ \A s \in DOMAIN f : f[s] \in S
BY DEF Lists

\* A handler moves on, with the marks it may have written.
LEMMA HandlerMoves ==
    ASSUME ExamsInv, NEW c \in Clerk, NEW r, Becomes(c, r), Holds(r),
           UNCHANGED <<status, notices, past>>,
           result' = [s \in Pupil |-> result'[s]], \A s \in Pupil : IsRow(result'[s]),
           trail' = [s \in Pupil |-> trail'[s]],
           Entered \subseteq Entered', TrailEndsAtMark',
           Reached(r),
           late' \in {late, late \ {c}},
           r.pc \in {"enter", "sheet", "row"} =>
               late' = late /\ (Writing(c) \/ status # "PUBLISHED"),
           r.pc \in {"look", "queue"} => "PUBLISHED" \in past,
           twoScans' \in BOOLEAN, twoScans => twoScans',
           ~twoScans' /\ r.pc \in {"look", "queue"} =>
               Scanning(c) \/ \A d \in Clerk : ~Scanning(d),
           r.pc = "queue" => notices = 0
    PROVE  ExamsInv'
<1>0. ExamsTypeOK /\ StagesInv /\ NoticesInv /\ LateInv
  BY DEF ExamsInv
<1>1. /\ req' = [d \in Clerk |-> req'[d]] /\ req'[c] = r
      /\ \A d \in Clerk \ {c} : req'[d] = req[d]
  BY <1>0 DEF Becomes, ExamsTypeOK
<1>2. ExamsTypeOK'
  BY <1>0, <1>1 DEF ExamsTypeOK
<1>3. \A d \in Clerk : Scanning(d)' => "PUBLISHED" \in past
  BY <1>0, <1>1 DEF StagesInv, Scanning
<1>4. StagesInv'
  <2>1. \A d \in Clerk : Reached(req[d]) /\ Reached(r)
    BY <1>0 DEF StagesInv
  <2>2. \A d \in Clerk : Reached(req'[d])
    BY <1>1, <2>1
  <2>3. \A d \in Clerk : Reached(req[d])'
    BY <2>2 DEF Reached
  <2> QED BY <1>0, <1>3, <2>3 DEF StagesInv
<1>5. NoticesInv'
  <2>1. ASSUME ~twoScans' PROVE NoticesInv'
    <3>1. notices <= 1 /\ \A d \in Clerk : At(d, "queue") => notices = 0
      BY <1>0, <2>1 DEF NoticesInv
    <3>2. \A d, e \in Clerk : Scanning(d) /\ Scanning(e) => d = e
      BY <1>0, <2>1 DEF NoticesInv
    <3>3. \A d, e \in Clerk : Scanning(d)' /\ Scanning(e)' => d = e
      BY <1>1, <2>1, <3>2 DEF Scanning
    <3>4. \A d \in Clerk : At(d, "queue")' => notices = 0
      BY <1>1, <3>1 DEF At
    <3> QED BY <3>1, <3>3, <3>4 DEF NoticesInv
  <2> QED BY <2>1 DEF NoticesInv
<1>6. LateInv'
  BY <1>0, <1>1 DEF LateInv, Writing
<1> QED BY <1>2, <1>4, <1>5, <1>6 DEF ExamsInv

\* The same when no mark is written.
LEMMA HandlerGoesOn ==
    ASSUME ExamsInv, NEW c \in Clerk, NEW r, Becomes(c, r), Holds(r), Reached(r),
           UNCHANGED <<rows, past, unlogged>>,
           late' \in {late, late \ {c}},
           r.pc \in {"enter", "sheet", "row"} =>
               late' = late /\ (Writing(c) \/ status # "PUBLISHED"),
           r.pc \in {"look", "queue"} => "PUBLISHED" \in past,
           twoScans' \in BOOLEAN, twoScans => twoScans',
           ~twoScans' /\ r.pc \in {"look", "queue"} =>
               Scanning(c) \/ \A d \in Clerk : ~Scanning(d),
           r.pc = "queue" => notices = 0
    PROVE  ExamsInv'
<1>1. UNCHANGED <<status, result, trail, notices, past, unlogged>>
  BY DEF rows
<1>2. /\ result' = [s \in Pupil |-> result'[s]] /\ \A s \in Pupil : IsRow(result'[s])
      /\ trail' = [s \in Pupil |-> trail'[s]]
  BY <1>1 DEF ExamsInv, ExamsTypeOK
<1>3. Entered' = Entered /\ TrailEndsAtMark'
  BY <1>1 DEF ExamsInv, Entered, TrailEndsAtMark
<1> QED BY <1>1, <1>2, <1>3, HandlerMoves

LEMMA EntryStep ==
    ASSUME ExamsInv, NEW c \in Clerk, EnterMarks(c) PROVE ExamsInv'
<1>0. ExamsTypeOK /\ StagesInv /\ TrailEndsAtMark /\ Holds(req[c])
  BY DEF ExamsInv, ExamsTypeOK
<1>1. ASSUME NEW given \in Lists(Given), StartEntry(c, given) PROVE ExamsInv'
  <2> DEFINE r == [pc |-> "enter", given |-> given, old |-> <<>>]
  <2>1. Holds(r) /\ Reached(r) /\ r.pc = "enter"
    BY <1>1 DEF Holds, Reached, Advancing
  <2>2. /\ Becomes(c, r) /\ status # "PUBLISHED" /\ UNCHANGED <<rows, past, unlogged>>
        /\ late' = late /\ twoScans' = twoScans
    BY <1>1 DEF StartEntry, ghosts
  <2> HIDE DEF r
  <2> QED BY <1>0, <2>1, <2>2, HandlerGoesOn DEF ExamsTypeOK
<1>2. ASSUME NEW s \in Pupil, ReadResult(c, s) PROVE ExamsInv'
  <2>1. \E old : Becomes(c, [req[c] EXCEPT !.old = old])
    BY <1>2, Zenon DEF ReadResult
  <2>2. PICK old : Becomes(c, [req[c] EXCEPT !.old = old])
    BY <2>1
  <2> DEFINE r == [req[c] EXCEPT !.old = old]
  <2>3. req[c].pc = "enter" /\ UNCHANGED <<rows, past, unlogged, late, twoScans>>
    BY <1>2 DEF ReadResult, At, ghosts
  <2>4. req[c] = [pc |-> "enter", given |-> req[c].given, old |-> req[c].old]
        /\ req[c].given \in Lists(Given)
    BY <1>0, <2>3 DEF Holds, Idle
  <2>5. r = [pc |-> "enter", given |-> req[c].given, old |-> old]
    BY <2>4
  <2>6. Holds(r) /\ Reached(r) /\ r.pc = "enter"
    BY <2>4, <2>5 DEF Holds, Reached, Advancing
  <2>7. Writing(c) /\ Becomes(c, r)
    BY <2>2, <2>3 DEF Writing
  <2> HIDE DEF r
  <2> QED BY <1>0, <2>3, <2>6, <2>7, HandlerGoesOn DEF ExamsTypeOK
<1>3. CASE CommitEntry(c)
  <2> DEFINE r == req[c]
             new == {s \in DOMAIN r.given : r.old[s] = NoResult}
             changed == new \cup {s \in DOMAIN r.given : Changed(r.old[s], r.given[s])}
  <2>1. /\ r.pc = "enter"
        /\ result' = [s \in Pupil |->
               IF s \in changed THEN Merged(r.old[s], r.given[s]) ELSE result[s]]
        /\ trail' = [s \in Pupil |->
               IF s \in changed THEN Kept(r.old[s], r.given[s]) ELSE trail[s]]
        /\ unlogged' = unlogged \ changed
        /\ Becomes(c, Idle) /\ late' = late \ {c}
        /\ UNCHANGED <<status, notices, past, twoScans>>
    BY <1>3 DEF CommitEntry, At
  <2>2. r.given \in Lists(Given)
    BY <1>0, <2>1 DEF Holds, Idle
  <2>3. changed \subseteq Pupil /\ \A s \in changed : r.given[s] \in Given
    BY <2>2, ListsOf
  <2>4. ASSUME NEW s \in changed
        PROVE  /\ IsRow(Merged(r.old[s], r.given[s]))
               /\ Merged(r.old[s], r.given[s]) # NoResult
               /\ Merged(r.old[s], r.given[s]).marks = Kept(r.old[s], r.given[s])
    <3> DEFINE m == r.given[s]
               k == Kept(r.old[s], m)
    <3>1. m = [marks |-> m.marks, absent |-> m.absent]
      BY <2>3, <2>4, Rows DEF IsRow
    <3>2. k # NoMark
      BY DEF Kept, NoMark
    <3>3. Merged(r.old[s], m) = [m EXCEPT !.marks = k]
      BY DEF Merged
    <3> HIDE DEF m, k
    <3>4. [m EXCEPT !.marks = k] = [marks |-> k, absent |-> m.absent]
      BY <3>1
    <3> QED BY <3>2, <3>3, <3>4 DEF IsRow, NoResult, m, k
  <2> HIDE DEF r, new, changed
  <2>5. /\ result' = [s \in Pupil |-> result'[s]] /\ trail' = [s \in Pupil |-> trail'[s]]
    BY <2>1, Zenon
  <2>6. \A s \in Pupil : IF s \in changed THEN /\ result'[s] = Merged(r.old[s], r.given[s])
                                               /\ trail'[s] = Kept(r.old[s], r.given[s])
                                          ELSE result'[s] = result[s] /\ trail'[s] = trail[s]
    BY <2>1
  <2>7. \A s \in Pupil : IsRow(result'[s])
    BY <1>0, <2>4, <2>6 DEF ExamsTypeOK
  <2>8. Entered \subseteq Entered'
    BY <2>4, <2>6 DEF Entered
  <2>9. TrailEndsAtMark'
    BY <1>0, <2>1, <2>4, <2>6 DEF TrailEndsAtMark, Entered
  <2>10. Holds(Idle) /\ Reached(Idle) /\ Idle.pc = "idle"
    BY DEF Holds, Reached, Advancing, Idle
  <2> QED BY <1>0, <2>1, <2>5, <2>7, <2>8, <2>9, <2>10, HandlerMoves DEF ExamsTypeOK
<1> QED BY <1>1, <1>2, <1>3 DEF EnterMarks

LEMMA AdvanceStep == ASSUME ExamsInv, NEW c \in Clerk, Advance(c) PROVE ExamsInv'
<1>0. ExamsTypeOK /\ StagesInv /\ NoticesInv /\ LateInv /\ TrailEndsAtMark
      /\ Holds(req[c]) /\ Reached(req[c])
  BY DEF ExamsInv, ExamsTypeOK, StagesInv
<1>1. ASSUME NEW to \in StageName \ {"ENTRY"}, StartAdvance(c, to) PROVE ExamsInv'
  <2> DEFINE r == [pc |-> IF to = "PUBLISHED" THEN "count" ELSE "advance", to |-> to]
  <2>1. Becomes(c, r) /\ UNCHANGED <<rows, past, unlogged, late, twoScans>> /\ to \in After(status)
    BY <1>1 DEF StartAdvance, ghosts
  <2>2. \E n \in 1 .. 3 : Stages[n] = status /\ to = Stages[n + 1]
    BY <2>1 DEF After
  <2>3. to = "VERIFIED" => "SUBMITTED" \in past
    BY <1>0, <2>2 DEF StagesInv, Stages
  <2>4. to = "PUBLISHED" => "VERIFIED" \in past
    BY <1>0, <2>2 DEF StagesInv, Stages
  <2>5. Holds(r)
    BY DEF Holds
  <2>6. Reached(r) /\ r.pc \in {"count", "advance"}
    BY <2>3, <2>4 DEF Reached, Advancing
  <2> HIDE DEF r
  <2> QED BY <1>0, <2>1, <2>5, <2>6, HandlerGoesOn DEF ExamsTypeOK
<1>2. CASE CountResults(c)
  <2>1. req[c].pc = "count" /\ UNCHANGED <<rows, past, unlogged, late, twoScans>>
    BY <1>2 DEF CountResults, At, ghosts
  <2>2. req[c] = [pc |-> "count", to |-> req[c].to] /\ req[c].to \in StageName
    BY <1>0, <2>1 DEF Holds, Idle
  <2>3. CASE Entered = {}
    <3>1. Becomes(c, Idle) /\ Holds(Idle) /\ Reached(Idle) /\ Idle.pc = "idle"
      BY <1>2, <2>3 DEF CountResults, Holds, Reached, Advancing, Idle
    <3> QED BY <1>0, <2>1, <3>1, HandlerGoesOn DEF ExamsTypeOK
  <2>4. CASE Entered # {}
    <3> DEFINE r == [req[c] EXCEPT !.pc = "advance"]
    <3>1. r = [pc |-> "advance", to |-> req[c].to]
      BY <2>2
    <3>2. Becomes(c, r)
      BY <1>2, <2>4 DEF CountResults
    <3>3. Holds(r) /\ r.pc = "advance"
      BY <2>2, <3>1 DEF Holds
    <3>4. Reached(r)
      BY <1>0, <2>1, <2>4, <3>1 DEF Reached, Advancing
    <3> HIDE DEF r
    <3> QED BY <1>0, <2>1, <3>2, <3>3, <3>4, HandlerGoesOn DEF ExamsTypeOK
  <2> QED BY <2>3, <2>4
<1>3. CASE SaveStatus(c)
  <2> DEFINE to == req[c].to
  <2>1. /\ req[c].pc = "advance" /\ status' = to /\ past' = past \cup {to}
        /\ late' = IF to = "PUBLISHED" /\ status # "PUBLISHED"
                   THEN {d \in Clerk : Writing(d)} ELSE late
        /\ Becomes(c, Idle)
        /\ UNCHANGED <<result, trail, notices, unlogged, twoScans>>
    BY <1>3 DEF SaveStatus, At
  <2>2. to \in StageName
    BY <1>0, <2>1 DEF Holds, Idle
  <2>3. /\ req' = [d \in Clerk |-> req'[d]] /\ req'[c] = Idle /\ req'[c].pc = "idle"
        /\ \A d \in Clerk \ {c} : req'[d] = req[d]
    BY <1>0, <2>1 DEF Becomes, ExamsTypeOK, Idle
  <2>4. Entered' = Entered
    BY <2>1 DEF Entered
  <2> HIDE DEF to
  <2>5. ExamsTypeOK'
    <3>1. \A d \in Clerk : Holds(req'[d])
      BY <1>0, <2>3 DEF ExamsTypeOK, Holds
    <3>2. late' \subseteq Clerk
      BY <1>0, <2>1 DEF ExamsTypeOK
    <3> QED BY <1>0, <2>1, <2>2, <2>3, <3>1, <3>2 DEF ExamsTypeOK
  <2>6. StagesInv'
    <3>1. \A d \in Clerk : Reached(req[d])
      BY <1>0 DEF StagesInv
    <3>2. \A d \in Clerk : Reached(req[d])'
      BY <2>1, <2>3, <2>4, <3>1 DEF Reached, Advancing
    <3>3. (to = "VERIFIED" => "SUBMITTED" \in past)
          /\ (to = "PUBLISHED" => "VERIFIED" \in past /\ Entered # {})
      BY <1>0, <2>1 DEF Reached, Advancing, to
    <3>4. notices' > 0 \/ (\E d \in Clerk : Scanning(d)') => "PUBLISHED" \in past'
      BY <1>0, <2>1, <2>3 DEF StagesInv, Scanning
    <3> QED BY <1>0, <2>1, <2>4, <3>2, <3>3, <3>4 DEF StagesInv
  <2>7. NoticesInv'
    BY <1>0, <2>1, <2>3 DEF NoticesInv, Scanning, At
  <2>8. LateInv'
    BY <1>0, <2>1, <2>3 DEF LateInv, Writing
  <2>9. TrailEndsAtMark'
    BY <1>0, <2>1, <2>4 DEF TrailEndsAtMark
  <2> QED BY <2>5, <2>6, <2>7, <2>8, <2>9 DEF ExamsInv
<1>4. \A n \in DOMAIN NextStage : NextStage[n] \in StageName \ {"ENTRY"}
  BY DEF NextStage, Stages, StageName
<1> QED BY <1>1, <1>2, <1>3, <1>4 DEF Advance

LEMMA NotifyStep == ASSUME ExamsInv, NEW c \in Clerk, Notify(c) PROVE ExamsInv'
<1>0. ExamsTypeOK /\ StagesInv /\ NoticesInv /\ LateInv /\ TrailEndsAtMark
      /\ Holds(req[c]) /\ Reached(req[c])
  BY DEF ExamsInv, ExamsTypeOK, StagesInv
<1>1. Holds(Idle) /\ Reached(Idle) /\ Idle.pc = "idle"
  BY DEF Holds, Reached, Advancing, Idle
<1>2. \A pc \in {"look", "queue"} : Holds([pc |-> pc]) /\ Reached([pc |-> pc])
  BY DEF Holds, Reached, Advancing
<1>3. CASE StartNotify(c)
  <2> DEFINE r == [pc |-> "look"]
  <2>1. /\ Becomes(c, r) /\ UNCHANGED <<rows, past, unlogged, late>> /\ status = "PUBLISHED"
        /\ (twoScans' <=> (twoScans \/ \E d \in Clerk : Scanning(d)))
        /\ twoScans' \in BOOLEAN
    BY <1>3, Zenon DEF StartNotify
  <2>2. Holds(r) /\ Reached(r) /\ r.pc = "look" /\ "PUBLISHED" \in past
    BY <1>0, <1>2, <2>1 DEF StagesInv
  <2> HIDE DEF r
  <2>3. late' \in {late, late \ {c}} /\ (twoScans => twoScans')
        /\ (~twoScans' => \A d \in Clerk : ~Scanning(d))
    BY <2>1
  <2>4. r.pc # "queue" /\ r.pc \notin {"enter", "sheet", "row"}
    BY <2>2
  <2> QED BY <2>1, <2>2, <2>3, <2>4, HandlerGoesOn
<1>4. CASE LookForNotices(c)
  <2> DEFINE r == IF notices = 0 THEN [pc |-> "queue"] ELSE Idle
  <2>1. Becomes(c, r) /\ UNCHANGED <<rows, past, unlogged, late, twoScans>> /\ Scanning(c)
    BY <1>4 DEF LookForNotices, ghosts, At, Scanning
  <2>2. Holds(r) /\ Reached(r) /\ r.pc \in {"idle", "queue"} /\ (r.pc = "queue" => notices = 0)
    BY <1>1, <1>2
  <2>3. "PUBLISHED" \in past
    BY <1>0, <2>1 DEF StagesInv
  <2> HIDE DEF r
  <2> QED BY <1>0, <2>1, <2>2, <2>3, HandlerGoesOn DEF ExamsTypeOK
<1>5. CASE QueueNotices(c)
  <2>1. /\ req[c].pc = "queue" /\ notices' = IF notices < 2 THEN notices + 1 ELSE notices
        /\ Becomes(c, Idle)
        /\ UNCHANGED <<status, result, trail, past, unlogged, late, twoScans>>
    BY <1>5 DEF QueueNotices, At, ghosts
  <2>2. /\ req' = [d \in Clerk |-> req'[d]] /\ req'[c] = Idle /\ req'[c].pc = "idle"
        /\ \A d \in Clerk \ {c} : req'[d] = req[d]
    BY <1>0, <2>1 DEF Becomes, ExamsTypeOK, Idle
  <2>3. Entered' = Entered
    BY <2>1 DEF Entered
  <2>4. Scanning(c) /\ "PUBLISHED" \in past
    BY <1>0, <2>1 DEF StagesInv, Scanning
  <2>5. ExamsTypeOK'
    <3>1. \A d \in Clerk : Holds(req'[d])
      BY <1>0, <1>1, <2>2 DEF ExamsTypeOK
    <3>2. notices' \in 0 .. 2
      BY <1>0, <2>1 DEF ExamsTypeOK
    <3> QED BY <1>0, <2>1, <2>2, <3>1, <3>2 DEF ExamsTypeOK
  <2>6. StagesInv'
    <3>1. \A d \in Clerk : Reached(req[d])
      BY <1>0 DEF StagesInv
    <3>2. \A d \in Clerk : Reached(req[d])'
      BY <2>1, <2>2, <2>3, <3>1 DEF Reached, Advancing
    <3> QED BY <1>0, <2>1, <2>3, <2>4, <3>2 DEF StagesInv
  <2>7. NoticesInv'
    <3>1. ASSUME ~twoScans PROVE notices = 0 /\ \A d \in Clerk : Scanning(d) => d = c
      BY <1>0, <2>1, <2>4, <3>1 DEF NoticesInv, At
    <3>2. \A d \in Clerk : Scanning(d)' => Scanning(d) /\ d # c
      BY <2>2 DEF Scanning
    <3>3. \A d \in Clerk : At(d, "queue")' => Scanning(d)'
      BY DEF At, Scanning
    <3>4. ASSUME ~twoScans PROVE notices' <= 1 /\ \A d \in Clerk : ~Scanning(d)'
      BY <2>1, <3>1, <3>2, <3>4
    <3> QED BY <2>1, <3>3, <3>4 DEF NoticesInv
  <2>8. LateInv' /\ TrailEndsAtMark'
    BY <1>0, <2>1, <2>2, <2>3 DEF LateInv, Writing, TrailEndsAtMark
  <2> QED BY <2>5, <2>6, <2>7, <2>8 DEF ExamsInv
<1> QED BY <1>3, <1>4, <1>5 DEF Notify

LEMMA ImportStep == ASSUME ExamsInv, NEW c \in Clerk, ImportMarks(c) PROVE ExamsInv'
<1>0. ExamsTypeOK /\ StagesInv /\ TrailEndsAtMark /\ Holds(req[c])
      /\ (\A s \in Pupil : IsRow(result[s]))
      /\ twoScans \in BOOLEAN
  BY DEF ExamsInv, ExamsTypeOK
<1>1. ASSUME NEW sheet \in Lists(Cell), StartImport(c, sheet) PROVE ExamsInv'
  <2> DEFINE r == [pc |-> "sheet", sheet |-> sheet]
  <2>1. Holds(r) /\ Reached(r) /\ r.pc = "sheet"
    BY <1>1 DEF Holds, Reached, Advancing
  <2>2. /\ Becomes(c, r) /\ status # "PUBLISHED"
        /\ UNCHANGED <<rows, past, unlogged, late, twoScans>>
    BY <1>1 DEF StartImport, ghosts
  <2> HIDE DEF r
  <2> QED BY <1>0, <2>1, <2>2, HandlerGoesOn
<1>2. ASSUME NEW s \in Pupil, ReadRow(c, s) PROVE ExamsInv'
  <2> DEFINE r == [pc |-> "row", sheet |-> req[c].sheet, on |-> s, old |-> result[s]]
  <2>1. /\ Becomes(c, r) /\ req[c].pc = "sheet" /\ s \in DOMAIN req[c].sheet
        /\ UNCHANGED <<rows, past, unlogged, late, twoScans>>
    BY <1>2 DEF ReadRow, At, ghosts
  <2>2. req[c].sheet \in Lists(Cell) /\ Writing(c)
    BY <1>0, <2>1 DEF Holds, Idle, Writing
  <2>3. Holds(r) /\ Reached(r) /\ r.pc = "row"
    BY <2>1, <2>2 DEF Holds, Reached, Advancing
  <2> HIDE DEF r
  <2> QED BY <1>0, <2>1, <2>2, <2>3, HandlerGoesOn
\* The row in hand, and what the handler holds once it is done.
<1>3. ASSUME req[c].pc = "row", NextRow(c)
      PROVE  /\ req[c].sheet \in Lists(Cell) /\ req[c].on \in Pupil
             /\ req[c].sheet[req[c].on] \in Cell
             /\ Writing(c)
             /\ \E r : /\ Becomes(c, r) /\ Holds(r) /\ Reached(r) /\ r.pc \in {"idle", "sheet"}
                       /\ late' \in {late, late \ {c}}
                       /\ r.pc = "sheet" => late' = late
  <2>1. req[c].sheet \in Lists(Cell) /\ req[c].on \in DOMAIN req[c].sheet
    BY <1>0, <1>3 DEF Holds, Idle
  <2>2. req[c].on \in Pupil /\ req[c].sheet[req[c].on] \in Cell
    BY <2>1, ListsOf
  <2> DEFINE rest == Restrict(req[c].sheet, DOMAIN req[c].sheet \ {req[c].on})
             done == rest = <<>>
             r == IF done THEN Idle ELSE [pc |-> "sheet", sheet |-> rest]
  <2>3. Becomes(c, r) /\ late' = IF done THEN late \ {c} ELSE late
    BY <1>3 DEF NextRow
  <2>4. CASE done
    BY <2>1, <2>2, <2>3, <2>4, <1>3 DEF Holds, Reached, Advancing, Idle, Writing
  <2>5. CASE ~done
    <3>1. rest \in Lists(Cell)
      <4> DEFINE P == DOMAIN req[c].sheet \ {req[c].on}
      <4>1. \A s \in P : req[c].sheet[s] \in Cell
        BY <2>1, ListsOf
      <4>2. P \subseteq Pupil
        BY <2>1, ListsOf
      <4>3. rest = [s \in P |-> req[c].sheet[s]]
        BY DEF Restrict
      <4>4. P # {}
        <5>1. SUFFICES ASSUME P = {} PROVE FALSE
          OBVIOUS
        <5>2. rest = [s \in {} |-> req[c].sheet[s]]
          BY <4>3, <5>1
        <5>3. [s \in {} |-> req[c].sheet[s]] = <<>>
          OBVIOUS
        <5> QED BY <2>5, <5>2, <5>3
      <4> HIDE DEF P
      <4>5. rest \in [P -> Cell]
        BY <4>1, <4>3
      <4> HIDE DEF rest
      <4> QED BY <4>2, <4>4, <4>5 DEF Lists
    <3> HIDE DEF rest
    <3>2. r = [pc |-> "sheet", sheet |-> rest] /\ late' = late
      BY <2>3, <2>5
    <3>3. Holds(r) /\ Reached(r) /\ r.pc = "sheet"
      BY <3>1, <3>2 DEF Holds, Reached, Advancing
    <3> HIDE DEF r
    <3> QED BY <2>1, <2>2, <2>3, <3>2, <3>3, <1>3 DEF Writing
  <2> QED BY <2>4, <2>5
<1>4. ASSUME SkipRow(c) PROVE ExamsInv'
  <2>1. req[c].pc = "row" /\ NextRow(c) /\ UNCHANGED <<rows, past, unlogged, twoScans>>
    BY <1>4 DEF SkipRow, At
  <2>2. PICK r : /\ Becomes(c, r) /\ Holds(r) /\ Reached(r) /\ r.pc \in {"idle", "sheet"}
                 /\ late' \in {late, late \ {c}}
                 /\ r.pc = "sheet" => late' = late
    BY <1>3, <2>1
  <2>3. Writing(c)
    BY <1>3, <2>1
  <2> QED BY <1>0, <2>1, <2>2, <2>3, HandlerGoesOn
\* A cell of the sheet becomes the pupil's row.
<1>5. ASSUME NEW s \in Pupil, NEW cell \in Cell, s = req[c].on, cell = req[c].sheet[s],
             InsertRow(c) \/ UpdateRow(c)
      PROVE  ExamsInv'
  <2>1. req[c].pc = "row" /\ NextRow(c) /\ UNCHANGED <<status, notices, past, twoScans>>
    BY <1>5 DEF InsertRow, UpdateRow, At
  <2>2. PICK r : /\ Becomes(c, r) /\ Holds(r) /\ Reached(r) /\ r.pc \in {"idle", "sheet"}
                 /\ late' \in {late, late \ {c}}
                 /\ r.pc = "sheet" => late' = late
    BY <1>3, <2>1
  <2>3. Writing(c)
    BY <1>3, <2>1
  <2>4. cell = [marks |-> cell.marks, absent |-> cell.absent] /\ cell.marks \in Nat
    BY Rows DEF IsRow
  <2>5. \/ /\ result' = [result EXCEPT ![s] = cell] /\ trail' = trail
           /\ unlogged' = unlogged \cup {s}
        \/ /\ result' = [result EXCEPT ![s].marks = cell.marks, ![s].absent = cell.absent]
           /\ trail' = [trail EXCEPT ![s] = cell.marks]
           /\ unlogged' = unlogged \ {s}
    BY <1>5 DEF InsertRow, UpdateRow
  <2>6. /\ result' = [t \in Pupil |-> result'[t]] /\ result'[s] = cell
        /\ \A t \in Pupil \ {s} : result'[t] = result[t]
    <3>1. result[s] = [marks |-> result[s].marks, absent |-> result[s].absent]
      BY <1>0, <2>3 DEF IsRow
    <3>2. result = [t \in Pupil |-> result[t]]
      BY <1>0 DEF ExamsTypeOK
    <3>3. CASE result' = [result EXCEPT ![s] = cell]
      BY <2>3, <3>2, <3>3
    <3>4. CASE result' = [result EXCEPT ![s].marks = cell.marks, ![s].absent = cell.absent]
      <4> DEFINE m == [result[s] EXCEPT !.marks = cell.marks]
                 n == [m EXCEPT !.absent = cell.absent]
      <4>1. m = [marks |-> cell.marks, absent |-> result[s].absent]
        BY <3>1
      <4>2. result' = [t \in Pupil |-> IF t = s THEN n ELSE result[t]]
        BY <2>3, <3>2, <3>4
      <4> HIDE DEF m
      <4>3. n = [marks |-> cell.marks, absent |-> cell.absent]
        BY <4>1
      <4> HIDE DEF n
      <4> QED BY <2>3, <2>4, <4>2, <4>3
    <3> QED BY <2>5, <3>3, <3>4
  <2>7. \A t \in Pupil : IsRow(result'[t])
    BY <1>0, <2>3, <2>6, Rows
  <2>8. result'[s] # NoResult
    BY <2>4, <2>6, Rows
  <2>9. Entered \subseteq Entered'
    BY <2>6, <2>8 DEF Entered
  <2>10. /\ trail' = [t \in Pupil |-> trail'[t]]
         /\ \A t \in Pupil \ {s} : trail'[t] = trail[t]
         /\ s \notin unlogged' => trail'[s] = cell.marks
    BY <1>0, <2>3, <2>5 DEF ExamsTypeOK
  <2>11. TrailEndsAtMark'
    <3>1. unlogged \subseteq unlogged' \cup {s}
      BY <2>5
    <3>2. ASSUME NEW t \in Pupil \ {s}, t \in Entered', t \notin unlogged'
          PROVE  trail'[t] = result'[t].marks
      <4>1. t \in Entered /\ t \notin unlogged
        BY <2>6, <3>1, <3>2 DEF Entered
      <4>2. trail[t] = result[t].marks
        BY <1>0, <4>1 DEF TrailEndsAtMark
      <4> QED BY <2>6, <2>10, <4>2
    <3> QED BY <2>6, <2>10, <3>2 DEF TrailEndsAtMark, Entered
  <2> QED BY <1>0, <2>1, <2>2, <2>3, <2>6, <2>7, <2>9, <2>10, <2>11, HandlerMoves
<1>6. ASSUME InsertRow(c) \/ UpdateRow(c) PROVE ExamsInv'
  <2>1. req[c].pc = "row" /\ NextRow(c)
    BY <1>6 DEF InsertRow, UpdateRow, At
  <2>2. req[c].on \in Pupil /\ req[c].sheet[req[c].on] \in Cell
    BY <1>3, <2>1
  <2> QED BY <1>5, <1>6, <2>2
<1> QED BY <1>1, <1>2, <1>4, <1>6 DEF ImportMarks

LEMMA DieStep == ASSUME ExamsInv, NEW c \in Clerk, Die(c) PROVE ExamsInv'
<1>1. Holds(Idle) /\ Reached(Idle) /\ Idle.pc = "idle"
  BY DEF Holds, Reached, Advancing, Idle
<1>2. Becomes(c, Idle) /\ late' = late \ {c} /\ UNCHANGED <<rows, past, unlogged, twoScans>>
  BY DEF Die
<1>3. twoScans \in BOOLEAN
  BY DEF ExamsInv, ExamsTypeOK
<1> QED BY <1>1, <1>2, <1>3, HandlerGoesOn

\* The routes of the other services write a mark and ask nothing.
LEMMA OtherRoutesStep ==
    ASSUME ExamsInv, NEW s \in Pupil, NEW v \in Score, TeacherMark(s, v) \/ MissingMark(s, v)
    PROVE  ExamsInv'
<1>0. ExamsTypeOK /\ StagesInv /\ NoticesInv /\ LateInv /\ TrailEndsAtMark
  BY DEF ExamsInv
<1>1. /\ UNCHANGED <<status, trail, notices, req, past, late, twoScans>>
      /\ unlogged' = unlogged \cup {s}
  BY DEF TeacherMark, MissingMark
<1>2. result[s] = [marks |-> result[s].marks, absent |-> result[s].absent]
      /\ result = [t \in Pupil |-> result[t]]
  BY <1>0 DEF ExamsTypeOK, IsRow
<1>3. \E a : result' = [t \in Pupil |->
                           IF t = s THEN [marks |-> v, absent |-> a] ELSE result[t]]
  <2>1. CASE TeacherMark(s, v)
    <3>1. [result[s] EXCEPT !.marks = v] = [marks |-> v, absent |-> result[s].absent]
      BY <1>2
    <3>2. result' = [t \in Pupil |->
                        IF t = s THEN [result[s] EXCEPT !.marks = v] ELSE result[t]]
      BY <1>2, <2>1 DEF TeacherMark
    <3> QED BY <3>1, <3>2
  <2>2. CASE MissingMark(s, v)
    BY <1>2, <2>2 DEF MissingMark, Present
  <2> QED BY <2>1, <2>2
<1>4. PICK a : result' = [t \in Pupil |->
                             IF t = s THEN [marks |-> v, absent |-> a] ELSE result[t]]
  BY <1>3
<1> DEFINE row == [marks |-> v, absent |-> a]
<1>5. IsRow(row) /\ row # NoResult
  BY ExamsAssumption, Rows
<1> HIDE DEF row
<1>6. result' = [t \in Pupil |-> result'[t]] /\ result'[s] = row
      /\ \A t \in Pupil \ {s} : result'[t] = result[t]
  BY <1>4 DEF row
<1>7. ExamsTypeOK'
  BY <1>0, <1>1, <1>5, <1>6 DEF ExamsTypeOK
<1>8. Entered \subseteq Entered'
  BY <1>5, <1>6 DEF Entered
<1>9. StagesInv'
  <2>1. \A c \in Clerk : Reached(req[c])'
    BY <1>0, <1>1, <1>8 DEF StagesInv, Reached
  <2> QED BY <1>0, <1>1, <1>8, <2>1 DEF StagesInv, Scanning
<1>10. NoticesInv' /\ LateInv'
  BY <1>0, <1>1 DEF NoticesInv, LateInv, Scanning, Writing, At
<1>11. TrailEndsAtMark'
  <2>1. ASSUME NEW t \in Entered', t \notin unlogged' PROVE trail'[t] = result'[t].marks
    <3>1. t \in Pupil /\ t # s /\ t \in Entered /\ t \notin unlogged
      BY <1>1, <1>6, <2>1 DEF Entered
    <3> QED BY <1>0, <1>1, <1>6, <3>1 DEF TrailEndsAtMark
  <2> QED BY <2>1 DEF TrailEndsAtMark
<1> QED BY <1>7, <1>9, <1>10, <1>11 DEF ExamsInv

LEMMA ExamsStep == ExamsInv /\ [Next]_vars => ExamsInv'
<1> SUFFICES ASSUME ExamsInv, [Next]_vars PROVE ExamsInv'
  OBVIOUS
<1>1. ASSUME NEW c \in Clerk,
             EnterMarks(c) \/ Advance(c) \/ ImportMarks(c) \/ Notify(c) \/ Die(c)
      PROVE  ExamsInv'
  BY <1>1, EntryStep, AdvanceStep, ImportStep, NotifyStep, DieStep
<1>2. ASSUME NEW s \in Pupil, NEW v \in Score, TeacherMark(s, v) \/ MissingMark(s, v)
      PROVE  ExamsInv'
  BY <1>2, OtherRoutesStep
<1>3. CASE UNCHANGED vars
  <2>1. UNCHANGED <<status, result, trail, notices, req, past, unlogged, late, twoScans>>
    BY <1>3 DEF vars, rows, ghosts
  <2>2. Entered' = Entered
    BY <2>1 DEF Entered
  <2>3. ExamsTypeOK' /\ NoticesInv' /\ LateInv' /\ TrailEndsAtMark'
    BY <2>1, <2>2 DEF ExamsInv, ExamsTypeOK, NoticesInv, LateInv, TrailEndsAtMark, Scanning,
                      Writing, At
  <2>4. StagesInv'
    BY <2>1, <2>2 DEF ExamsInv, StagesInv, Reached, Scanning
  <2> QED BY <2>3, <2>4 DEF ExamsInv
<1> QED BY <1>1, <1>2, <1>3 DEF Next

\* Results that are out or were announced are never an empty list and went through a
\* submission and a verification, guardians are told once unless scans overlapped, and
\* the audit trail ends at the mark (exam-service app.ts, marks.go).
THEOREM MarksAreReviewedHolds == Spec => []MarksAreReviewed
<1>1. ExamsInv => MarksAreReviewed
  <2> SUFFICES ASSUME ExamsInv PROVE MarksAreReviewed
    OBVIOUS
  <2>1. status = "PUBLISHED" \/ notices > 0 => "PUBLISHED" \in past
    BY DEF ExamsInv, StagesInv
  <2>2. PublishedAfterReview
    BY <2>1 DEF ExamsInv, StagesInv, NoticesInv, PublishedAfterReview
  <2> QED BY <2>2 DEF ExamsInv, MarksAreReviewed
<1> QED BY <1>1, ExamsInit0, ExamsStep, PTL DEF Spec

\* While the results are out a mark changes only by a request that was writing when
\* they came out, or through the routes that ask nothing.
THEOREM PublishedIsFrozenHolds == Spec => PublishedIsFrozen
<1> DEFINE Frozen ==
       \A s \in Pupil :
          status = "PUBLISHED" /\ result'[s] # result[s]
              => (\E c \in late : req'[c] # req[c]) \/ req' = req
<1>1. ExamsInv /\ [Next]_vars => [Frozen]_vars
  <2> SUFFICES ASSUME ExamsInv, Next PROVE Frozen
    OBVIOUS
  <2>1. ASSUME NEW c \in Clerk, Writing(c), req'[c].pc \in {"idle", "sheet"}, ~At(c, "sheet")
        PROVE  Frozen
    <3>1. req'[c] # req[c]
      BY <2>1 DEF Writing, At
    <3> QED BY <2>1, <3>1 DEF ExamsInv, LateInv
  <2>2. ASSUME NEW c \in Clerk, NEW r, Becomes(c, r) PROVE req'[c] = r
    BY <2>2 DEF Becomes, ExamsInv, ExamsTypeOK
  <2>3. ASSUME NEW c \in Clerk, CommitEntry(c) PROVE Frozen
    <3>1. At(c, "enter") /\ Becomes(c, Idle)
      BY <2>3 DEF CommitEntry
    <3>2. req'[c].pc = "idle"
      BY <2>2, <3>1 DEF Idle
    <3> QED BY <2>1, <3>1, <3>2 DEF At, Writing
  <2>4. ASSUME NEW c \in Clerk, InsertRow(c) \/ UpdateRow(c) PROVE Frozen
    <3>1. At(c, "row") /\ \E r : Becomes(c, r) /\ r.pc \in {"idle", "sheet"}
      BY <2>4 DEF InsertRow, UpdateRow, NextRow, Idle
    <3>2. req'[c].pc \in {"idle", "sheet"}
      BY <2>2, <3>1
    <3> QED BY <2>1, <3>1, <3>2 DEF At, Writing
  <2>5. ASSUME NEW s \in Pupil, NEW v \in Score, TeacherMark(s, v) \/ MissingMark(s, v)
        PROVE  Frozen
    BY <2>5 DEF TeacherMark, MissingMark
  <2>6. CASE UNCHANGED result
    BY <2>6
  <2> HIDE DEF Frozen
  <2>7. ASSUME NEW c \in Clerk, EnterMarks(c) PROVE Frozen
    BY <2>3, <2>6, <2>7 DEF EnterMarks, StartEntry, ReadResult, rows
  <2>8. ASSUME NEW c \in Clerk, ImportMarks(c) PROVE Frozen
    BY <2>4, <2>6, <2>8 DEF ImportMarks, StartImport, ReadRow, SkipRow, rows
  <2>9. ASSUME NEW c \in Clerk, Advance(c) \/ Notify(c) \/ Die(c) PROVE Frozen
    BY <2>6, <2>9 DEF Advance, Notify, Die, StartAdvance, CountResults, SaveStatus, StartNotify,
                      LookForNotices, QueueNotices, rows
  <2> QED BY <2>5, <2>7, <2>8, <2>9 DEF Next
<1> QED BY <1>1, ExamsInit0, ExamsStep, PTL DEF Spec, PublishedIsFrozen

-----------------------------------------------------------------------------
(* Staffing: rows of the staff-service, whose requests are statements apart. *)

Choice == Decision \cup {"CANCELLED"}
Photos == [new : Nat, old : Nat]
Payroll == [left : SUBSET Person, net : Net, keep : BOOLEAN]
TakenAlong == {Nothing} \cup Role \cup Choice \cup Photos \cup Payroll
OfficeAt == {"idle", "staff row", "swap", "grant", "lock", "photo row", "old photo",
             "claim", "tell", "decide", "payroll", "pay"}
Task == [at : OfficeAt, table : {"none", "account", "photo", "leave", "payroll", "salary"},
         who : Person \cup {Everyone}, with : TakenAlong]
Account == [login : {"none", "active", "inactive"}, post : {"none", "active", "inactive"},
            active : SUBSET Role, held : SUBSET Role, photo : Nat, asked : SUBSET Role,
            alone : BOOLEAN]
LeaveRow == [status : {"none", "PENDING"} \cup Choice, first : {"none"} \cup Choice,
             told : {"none"} \cup Choice]
SalaryRow == [status : {"none", "PENDING", "PAID"}, net : Net \cup {0}, paid : Nat]

StaffTypeOK ==
    /\ account \in [Person -> Account]
    /\ leave \in [Person -> LeaveRow]
    /\ salary \in [Person -> SalaryRow]
    /\ office \in [Office -> Task]
    /\ begun \in Nat

\* What a request keeps for the statement it is at.
Fits(t) ==
    /\ t.at \in {"staff row", "swap", "grant", "lock"} => t.table = "account" /\ t.who \in Person
    /\ t.at \in {"swap", "grant"} => t.with \in Role
    /\ t.at \in {"photo row", "old photo"} =>
           t.table = "photo" /\ t.who \in Person /\ t.with \in Photos
    /\ t.at \in {"claim", "tell", "decide"} =>
           t.table = "leave" /\ t.who \in Person /\ t.with \in Choice
    /\ t.at = "payroll" => t.table = "payroll" /\ t.with \in Payroll
    /\ t.at = "pay" => t.table = "salary" /\ t.who \in Person
TasksFit == \A o \in Office : Fits(office[o])

\* An account nobody is at work on; and what is still to do on one.
Follows(a) == a.alone \/ a.login = a.post
InOrder(a) == Follows(a) /\ a.active = a.asked
Midway(a, t) ==
    /\ t.at = "staff row" => a.login = "active" /\ a.active = a.asked
    /\ t.at = "swap" => Follows(a) /\ a.asked = {t.with}
    /\ t.at = "grant" => Follows(a) /\ a.asked = {t.with} /\ a.active = {}
    /\ t.at = "lock" => a.post = "inactive" /\ a.active = a.asked
AccountInv ==
    \A p \in Person : <<"account", p>> \notin spoiled =>
        /\ (\A o \in Office : ~Occupied(o, "account", p)) => InOrder(account[p])
        /\ \A o \in Office : Occupied(o, "account", p) =>
              /\ Midway(account[p], office[o])
              /\ \A v \in Office : Occupied(v, "account", p) => v = o

\* A file is one row's, or in the hands of the request that saved it.
Saving(o) == office[o].at = "photo row"
Dropping(o) == office[o].at = "old photo"
PhotoInv ==
    /\ \A p \in Person :
          /\ account[p].photo \in files \cup {0} /\ account[p].photo <= begun
          /\ \A q \in Person : account[p].photo = account[q].photo => p = q \/ account[p].photo = 0
    /\ \A o \in Office : Saving(o) \/ Dropping(o) =>
          /\ office[o].with.old <= begun
          /\ \A q \in Person \ {office[o].who} :
                account[q].photo # office[o].with.old \/ account[q].photo = 0
    /\ \A o \in Office : Dropping(o) => account[office[o].who].photo # office[o].with.old
    /\ \A o \in Office : Saving(o) =>
          /\ office[o].with.new \in files /\ office[o].with.new \in 1 .. begun
          /\ \A p \in Person : account[p].photo # office[o].with.new
          /\ \A v \in Office : /\ Saving(v) \/ Dropping(v) => office[v].with.old # office[o].with.new
                               /\ Saving(v) /\ v # o => office[v].with.new # office[o].with.new

\* What was decided first is what stands and what was told.
LeaveTells(r) ==
    /\ r.status \in {"none", "PENDING"} => r.first = "none"
    /\ r.status \notin {"none", "PENDING"} => r.first = r.status
    /\ r.told \in {"none", r.first}
LeaveInv ==
    \A p \in Person : <<"leave", p>> \notin spoiled =>
        /\ LeaveTells(leave[p])
        /\ \A o \in Office : office[o].at = "tell" /\ office[o].who = p =>
               office[o].with = leave[p].first

SalaryTells(r) == r.paid = IF r.status = "PAID" THEN 1 ELSE 0
SalaryInv == \A p \in Person : <<"salary", p>> \notin spoiled => SalaryTells(salary[p])

StaffInv == StaffTypeOK /\ TasksFit /\ AccountInv /\ PhotoInv /\ LeaveInv /\ SalaryInv

-----------------------------------------------------------------------------
(* The request that moves, and what it leaves alone *)

LEMMA Later == ASSUME NEW n \in Nat PROVE n + 1 \in Nat /\ n <= n /\ n <= n + 1 /\ n + 1 \in 1 .. (n + 1)
  OBVIOUS

LEMMA TaskMoves ==
    ASSUME StaffTypeOK, TasksFit, NEW o \in Office, NEW t \in Task, Fits(t),
           office' = [office EXCEPT ![o] = t]
    PROVE  /\ office' \in [Office -> Task] /\ TasksFit'
           /\ office'[o] = t /\ \A v \in Office \ {o} : office'[v] = office[v]
  <1>1. /\ office' \in [Office -> Task]
        /\ office'[o] = t /\ \A v \in Office \ {o} : office'[v] = office[v]
    BY DEF StaffTypeOK
  <1>2. \A v \in Office : Fits(office[v])
    BY DEF TasksFit
  <1>3. \A v \in Office : Fits(office'[v])
    BY <1>1, <1>2
  <1> QED BY <1>1, <1>3 DEF TasksFit, Fits

LEMMA VacantFits == Vacant \in Task /\ Fits(Vacant)
  BY DEF Vacant, Task, Fits, OfficeAt, TakenAlong, Everyone, Nothing

LEMMA Starts ==
    ASSUME StaffTypeOK, NEW o \in Office, NEW next \in OfficeAt,
           NEW table \in {"account", "photo", "leave", "salary"}, NEW p \in Person,
           NEW with \in TakenAlong, Begins(o, next, table, p, with)
    PROVE  /\ office[o].at = "idle" /\ begun' = begun + 1 /\ spoiled' = Crossing(table, p)
           /\ \E t \in Task : /\ t.at = next /\ t.table = table /\ t.who = p /\ t.with = with
                               /\ office' = [office EXCEPT ![o] = t]
  <1>1. [at |-> next, table |-> table, who |-> p, with |-> with] \in Task
    BY DEF Task
  <1> QED BY <1>1 DEF Begins

LEMMA TaskGoesOn ==
    ASSUME StaffTypeOK, NEW o \in Office, NEW at \in OfficeAt, Proceeds(o, at)
    PROVE  /\ begun' = begun /\ spoiled' = spoiled
           /\ \E t \in Task : /\ t.at = at /\ t.table = office[o].table
                               /\ t.who = office[o].who /\ t.with = office[o].with
                               /\ office' = [office EXCEPT ![o] = t]
  <1>1. PICK t : t = [office[o] EXCEPT !.at = at]
    OBVIOUS
  <1>2. office[o] \in Task
    BY DEF StaffTypeOK
  <1>3. /\ t \in Task /\ t.at = at /\ t.table = office[o].table
        /\ t.who = office[o].who /\ t.with = office[o].with
    BY <1>1, <1>2 DEF Task
  <1>4. office' = [office EXCEPT ![o] = t]
    BY <1>1 DEF Proceeds
  <1> QED BY <1>3, <1>4 DEF Proceeds

Spoils == spoiled \subseteq spoiled'
OnAccount(t) == t.at # "idle" /\ t.table = "account"
AccountStill ==
    /\ Spoils
    /\ \A p \in Person : /\ account'[p].login = account[p].login
                          /\ account'[p].post = account[p].post
                          /\ account'[p].active = account[p].active
                          /\ account'[p].asked = account[p].asked
                          /\ account'[p].alone = account[p].alone
    /\ \A v \in Office : office'[v] = office[v] \/ (~OnAccount(office[v]) /\ ~OnAccount(office'[v]))
PhotoStill ==
    /\ begun' \in Nat /\ begun <= begun' /\ files' = files
    /\ \A p \in Person : account'[p].photo = account[p].photo
    /\ \A v \in Office : office'[v] = office[v] \/ office'[v].at \notin {"photo row", "old photo"}
LeaveStill ==
    /\ Spoils /\ leave' = leave
    /\ \A v \in Office : office'[v] = office[v] \/ office'[v].at # "tell"
SalaryStill == Spoils /\ salary' = salary

LEMMA AccountsRest == AccountInv /\ AccountStill => AccountInv'
  <1> SUFFICES ASSUME AccountInv, AccountStill, NEW p \in Person, <<"account", p>> \notin spoiled'
               PROVE  /\ (\A o \in Office : ~Occupied(o, "account", p)') => InOrder(account'[p])
                      /\ \A o \in Office : Occupied(o, "account", p)' =>
                            /\ Midway(account'[p], office'[o])
                            /\ \A v \in Office : Occupied(v, "account", p)' => v = o
    BY DEF AccountInv, Occupied
  <1>1. /\ (\A o \in Office : ~Occupied(o, "account", p)) => InOrder(account[p])
        /\ \A o \in Office : Occupied(o, "account", p) =>
              /\ Midway(account[p], office[o])
              /\ \A v \in Office : Occupied(v, "account", p) => v = o
    BY DEF AccountInv, AccountStill, Spoils
  <1>2. \A o \in Office : Occupied(o, "account", p)' <=> Occupied(o, "account", p)
    BY DEF AccountStill, OnAccount, Occupied
  <1>3. \A o \in Office : Occupied(o, "account", p) => office'[o] = office[o]
    BY DEF AccountStill, OnAccount, Occupied
  <1>4. InOrder(account[p]) <=> InOrder(account'[p])
    BY DEF InOrder, Follows, AccountStill
  <1>5. \A t : Midway(account[p], t) <=> Midway(account'[p], t)
    BY DEF Midway, Follows, AccountStill
  <1> QED BY <1>1, <1>2, <1>3, <1>4, <1>5

LEMMA PhotosRest == StaffTypeOK /\ TasksFit /\ PhotoInv /\ PhotoStill => PhotoInv'
  <1> SUFFICES ASSUME StaffTypeOK, TasksFit, PhotoInv, PhotoStill PROVE PhotoInv'
    OBVIOUS
  <1>1. /\ \A p \in Person : account[p].photo \in Nat /\ account'[p].photo = account[p].photo
        /\ begun \in Nat /\ begun' \in Nat /\ begun <= begun'
    BY DEF StaffTypeOK, Account, PhotoStill
  <1>2. \A o \in Office : Saving(o)' \/ Dropping(o)' =>
           /\ office'[o] = office[o] /\ office[o].with.old \in Nat /\ office[o].with.new \in Nat
           /\ office[o].who \in Person /\ (Saving(o) \/ Dropping(o))
           /\ (Saving(o)' <=> Saving(o)) /\ (Dropping(o)' <=> Dropping(o))
    BY DEF PhotoStill, Saving, Dropping, TasksFit, Fits, Photos
  <1>3. \A p \in Person :
          /\ account'[p].photo \in files' \cup {0} /\ account'[p].photo <= begun'
          /\ \A q \in Person : account'[p].photo = account'[q].photo => p = q \/ account'[p].photo = 0
    <2>1. \A p \in Person :
            /\ account[p].photo \in files \cup {0} /\ account[p].photo <= begun
            /\ \A q \in Person : account[p].photo = account[q].photo => p = q \/ account[p].photo = 0
      BY DEF PhotoInv
    <2>2. files' = files
      BY DEF PhotoStill
    <2> QED BY <1>1, <2>1, <2>2
  <1>4. \A o \in Office : Saving(o)' \/ Dropping(o)' =>
          /\ office'[o].with.old <= begun'
          /\ \A q \in Person \ {office'[o].who} :
                account'[q].photo # office'[o].with.old \/ account'[q].photo = 0
    BY <1>1, <1>2 DEF PhotoInv
  <1>5. \A o \in Office : Dropping(o)' => account'[office'[o].who].photo # office'[o].with.old
    BY <1>1, <1>2 DEF PhotoInv
  <1>6. ASSUME NEW o \in Office, Saving(o)'
        PROVE  /\ office'[o].with.new \in files' /\ office'[o].with.new \in 1 .. begun'
               /\ \A p \in Person : account'[p].photo # office'[o].with.new
               /\ \A v \in Office : /\ Saving(v)' \/ Dropping(v)' => office'[v].with.old # office'[o].with.new
                                    /\ Saving(v)' /\ v # o => office'[v].with.new # office'[o].with.new
    <2>1. /\ office[o].with.new \in files /\ office[o].with.new \in 1 .. begun
          /\ \A p \in Person : account[p].photo # office[o].with.new
          /\ \A v \in Office : /\ Saving(v) \/ Dropping(v) => office[v].with.old # office[o].with.new
                               /\ Saving(v) /\ v # o => office[v].with.new # office[o].with.new
      BY <1>2, <1>6 DEF PhotoInv
    <2>2. office'[o] = office[o] /\ files' = files
      BY <1>2, <1>6 DEF PhotoStill
    <2> QED BY <1>1, <1>2, <2>1, <2>2
  <1> QED BY <1>3, <1>4, <1>5, <1>6 DEF PhotoInv, Saving, Dropping

LEMMA LeavesRest == LeaveInv /\ LeaveStill => LeaveInv'
  BY DEF LeaveInv, LeaveStill, LeaveTells, Spoils

LEMMA SalariesRest == SalaryInv /\ SalaryStill => SalaryInv'
  BY DEF SalaryInv, SalaryStill, SalaryTells, Spoils

-----------------------------------------------------------------------------
(* Accounts *)

\* A request starts on an account; if another is at work there, both crossed.
LEMMA AccountBegins ==
    ASSUME AccountInv, NEW o \in Office, NEW t, office[o].at = "idle",
           office'[o] = t, \A v \in Office \ {o} : office'[v] = office[v],
           NEW p \in Person, t.at # "idle", t.table = "account", t.who = p,
           spoiled' = Crossing("account", p),
           \A q \in Person \ {p} : account'[q] = account[q],
           InOrder(account[p]) => Midway(account'[p], t)
    PROVE  AccountInv'
  <1> SUFFICES ASSUME NEW q \in Person, <<"account", q>> \notin spoiled'
               PROVE  /\ (\A u \in Office : ~Occupied(u, "account", q)') => InOrder(account'[q])
                      /\ \A u \in Office : Occupied(u, "account", q)' =>
                            /\ Midway(account'[q], office'[u])
                            /\ \A v \in Office : Occupied(v, "account", q)' => v = u
    BY DEF AccountInv, Occupied
  <1>1. /\ (\A u \in Office : ~Occupied(u, "account", q)) => InOrder(account[q])
        /\ \A u \in Office : Occupied(u, "account", q) =>
              /\ Midway(account[q], office[u])
              /\ \A v \in Office : Occupied(v, "account", q) => v = u
    BY DEF AccountInv, Crossing
  <1>2. CASE q = p
    <2>1. \A v \in Office : ~Occupied(v, "account", p)
      BY <1>2 DEF Crossing
    <2>2. \A v \in Office : Occupied(v, "account", p)' <=> v = o
      BY <2>1 DEF Occupied
    <2>3. Midway(account'[p], t)
      BY <1>1, <1>2, <2>1
    <2> QED BY <1>2, <2>2, <2>3
  <1>3. CASE q # p
    <2>1. \A v \in Office : Occupied(v, "account", q)' <=> Occupied(v, "account", q)
      BY <1>3 DEF Occupied
    <2>2. \A v \in Office : Occupied(v, "account", q) => office'[v] = office[v]
      BY DEF Occupied
    <2>3. account'[q] = account[q]
      BY <1>3
    <2> QED BY <1>1, <2>1, <2>2, <2>3
  <1> QED BY <1>2, <1>3

\* The request at work on an account takes its next statement, or is through.
LEMMA AccountGoesOn ==
    ASSUME AccountInv, NEW o \in Office, NEW t,
           office'[o] = t, \A v \in Office \ {o} : office'[v] = office[v],
           NEW p \in Person, Occupied(o, "account", p), Spoils,
           \A q \in Person \ {p} : account'[q] = account[q],
           t.at # "idle" => t.table = "account" /\ t.who = p,
           \/ <<"account", p>> \in spoiled'
           \/ Midway(account[p], office[o]) =>
                  IF t.at = "idle" THEN InOrder(account'[p]) ELSE Midway(account'[p], t)
    PROVE  AccountInv'
  <1> SUFFICES ASSUME NEW q \in Person, <<"account", q>> \notin spoiled'
               PROVE  /\ (\A u \in Office : ~Occupied(u, "account", q)') => InOrder(account'[q])
                      /\ \A u \in Office : Occupied(u, "account", q)' =>
                            /\ Midway(account'[q], office'[u])
                            /\ \A v \in Office : Occupied(v, "account", q)' => v = u
    BY DEF AccountInv, Occupied
  <1>1. /\ (\A u \in Office : ~Occupied(u, "account", q)) => InOrder(account[q])
        /\ \A u \in Office : Occupied(u, "account", q) =>
              /\ Midway(account[q], office[u])
              /\ \A v \in Office : Occupied(v, "account", q) => v = u
    BY DEF AccountInv, Spoils
  <1>2. CASE q = p
    <2>1. /\ Midway(account[p], office[o])
          /\ \A v \in Office : Occupied(v, "account", p) => v = o
      BY <1>1, <1>2
    <2>2. \A v \in Office : Occupied(v, "account", p)' <=> v = o /\ t.at # "idle"
      BY <2>1 DEF Occupied
    <2>3. IF t.at = "idle" THEN InOrder(account'[p]) ELSE Midway(account'[p], t)
      BY <1>2, <2>1
    <2>4. office'[o].at = t.at
      OBVIOUS
    <2> QED BY <1>2, <2>2, <2>3, <2>4
  <1>3. CASE q # p
    <2>1. \A v \in Office : Occupied(v, "account", q)' <=> Occupied(v, "account", q)
      BY <1>3 DEF Occupied
    <2>2. \A v \in Office : Occupied(v, "account", q) => office'[v] = office[v]
      BY <1>3 DEF Occupied
    <2>3. account'[q] = account[q]
      BY <1>3
    <2> QED BY <1>1, <2>1, <2>2, <2>3
  <1> QED BY <1>2, <1>3

LEMMA NewUserFits ==
    ASSUME StaffTypeOK, NEW p \in Person, NEW roles \in SUBSET Role
    PROVE  LET a == NewUser(p, roles)
           IN  /\ a \in Account /\ a.photo = account[p].photo
               /\ a.login = "active" /\ a.active = roles /\ a.asked = roles
               /\ a.post = account[p].post
  <1>1. account[p] \in Account
    BY DEF StaffTypeOK
  <1> QED BY <1>1 DEF NewUser, Account

\* A request of one statement makes account `a` of one that was in order.
LEMMA AccountAtOnce ==
    ASSUME StaffInv, NEW p \in Person, AtOnce("account", p), UNCHANGED <<files, leave, salary>>,
           NEW a \in Account, account' = [account EXCEPT ![p] = a], a.photo = account[p].photo,
           InOrder(account[p]) => InOrder(a)
    PROVE  StaffInv'
  <1>1. /\ StaffTypeOK /\ TasksFit /\ UNCHANGED office
        /\ begun' = begun + 1 /\ spoiled' = Crossing("account", p)
    BY DEF StaffInv, AtOnce
  <1>2. /\ account' \in [Person -> Account] /\ account'[p] = a
        /\ \A q \in Person \ {p} : account'[q] = account[q]
    BY <1>1 DEF StaffTypeOK
  <1>3. StaffTypeOK' /\ TasksFit'
    <2>1. begun' \in Nat
      BY <1>1 DEF StaffTypeOK
    <2>2. TasksFit'
      BY <1>1 DEF TasksFit
    <2> QED BY <1>1, <1>2, <2>1, <2>2 DEF StaffTypeOK
  <1>4. Spoils
    BY <1>1 DEF Spoils, Crossing
  <1>5. AccountInv'
    <2> SUFFICES ASSUME NEW q \in Person, <<"account", q>> \notin spoiled'
                 PROVE  /\ (\A u \in Office : ~Occupied(u, "account", q)) => InOrder(account'[q])
                        /\ \A u \in Office : Occupied(u, "account", q) =>
                              /\ Midway(account'[q], office[u])
                              /\ \A v \in Office : Occupied(v, "account", q) => v = u
      BY <1>1 DEF AccountInv, Occupied
    <2>0. /\ (\A u \in Office : ~Occupied(u, "account", q)) => InOrder(account[q])
          /\ \A u \in Office : Occupied(u, "account", q) =>
                /\ Midway(account[q], office[u])
                /\ \A v \in Office : Occupied(v, "account", q) => v = u
      BY <1>4 DEF StaffInv, AccountInv, Spoils
    <2>1. CASE q = p
      <3>1. \A u \in Office : ~Occupied(u, "account", p)
        BY <1>1, <2>1 DEF Crossing
      <3> QED BY <1>2, <2>0, <2>1, <3>1
    <2>2. CASE q # p
      <3>1. account'[q] = account[q]
        BY <1>2, <2>2
      <3> QED BY <2>0, <3>1
    <2> QED BY <2>1, <2>2
  <1>6. PhotoStill /\ LeaveStill /\ SalaryStill
    BY <1>1, <1>2, <1>4 DEF PhotoStill, LeaveStill, SalaryStill, StaffTypeOK
  <1> QED BY <1>1, <1>3, <1>5, <1>6, PhotosRest, LeavesRest, SalariesRest DEF StaffInv

LEMMA HireKeeps ==
    ASSUME StaffInv, NEW p \in Person, NEW roles \in SUBSET Role, Hire(p, roles)
    PROVE  StaffInv'
  <1>1. PICK b : b = NewUser(p, roles)
    OBVIOUS
  <1>2. /\ b \in Account /\ b.photo = account[p].photo /\ b.login = "active" /\ b.active = b.asked
    BY <1>1, NewUserFits DEF StaffInv
  <1>3. PICK a : a = [b EXCEPT !.post = "active"]
    OBVIOUS
  <1>4. a \in Account /\ a.photo = account[p].photo /\ InOrder(a)
    BY <1>2, <1>3 DEF Account, InOrder, Follows
  <1>5. account' = [account EXCEPT ![p] = a]
    BY <1>1, <1>3 DEF Hire
  <1>6. AtOnce("account", p) /\ UNCHANGED <<files, leave, salary>>
    BY DEF Hire
  <1> QED BY <1>4, <1>5, <1>6, AccountAtOnce

\* What a statement for an account leaves alone.
LEMMA AccountStep ==
    ASSUME StaffInv, UNCHANGED <<files, leave, salary>>, begun' \in Nat, begun <= begun', Spoils,
           NEW o \in Office, NEW t \in Task, Fits(t), office' = [office EXCEPT ![o] = t],
           t.at \notin {"photo row", "old photo", "tell"},
           account' \in [Person -> Account],
           \A p \in Person : account'[p].photo = account[p].photo,
           AccountInv'
    PROVE  StaffInv'
  <1>1. /\ StaffTypeOK /\ TasksFit
        /\ office'[o] = t /\ \A v \in Office \ {o} : office'[v] = office[v]
        /\ office' \in [Office -> Task] /\ TasksFit'
    BY TaskMoves DEF StaffInv
  <1>2. StaffTypeOK'
    BY <1>1 DEF StaffTypeOK
  <1>3. PhotoStill /\ LeaveStill /\ SalaryStill
    BY <1>1 DEF PhotoStill, LeaveStill, SalaryStill
  <1> QED BY <1>1, <1>2, <1>3, PhotosRest, LeavesRest, SalariesRest DEF StaffInv

LEMMA AccountStarts ==
    ASSUME StaffInv, NEW o \in Office, NEW next \in {"staff row", "swap", "lock"}, NEW p \in Person,
           NEW with \in TakenAlong, next = "swap" => with \in Role,
           Begins(o, next, "account", p, with), UNCHANGED <<files, leave, salary>>,
           NEW a \in Account, account' = [account EXCEPT ![p] = a], a.photo = account[p].photo,
           NEW task, task.at = next, task.with = with,
           InOrder(account[p]) => Midway(a, task)
    PROVE  StaffInv'
  <1>1. StaffTypeOK /\ TasksFit /\ next \in OfficeAt /\ next # "idle"
    BY DEF StaffInv, OfficeAt
  <1>2. /\ office[o].at = "idle" /\ begun' = begun + 1 /\ spoiled' = Crossing("account", p)
        /\ \E t \in Task : /\ t.at = next /\ t.table = "account" /\ t.who = p /\ t.with = with
                            /\ office' = [office EXCEPT ![o] = t]
    <2>1. PICK t : t = [at |-> next, table |-> "account", who |-> p, with |-> with]
      OBVIOUS
    <2>2. t \in Task /\ t.at = next /\ t.table = "account" /\ t.who = p /\ t.with = with
      BY <1>1, <2>1 DEF Task
    <2> QED BY <2>1, <2>2 DEF Begins
  <1>3. PICK t \in Task : /\ t.at = next /\ t.table = "account" /\ t.who = p /\ t.with = with
                          /\ office' = [office EXCEPT ![o] = t]
    BY <1>2
  <1>4. Fits(t)
    BY <1>3 DEF Fits
  <1>5. office'[o] = t /\ \A v \in Office \ {o} : office'[v] = office[v]
    BY <1>1, <1>3, <1>4, TaskMoves
  <1>6. /\ account' \in [Person -> Account] /\ account'[p] = a
        /\ \A q \in Person \ {p} : account'[q] = account[q]
    BY <1>1 DEF StaffTypeOK
  <1>7. AccountInv'
    <2>1. AccountInv
      BY DEF StaffInv
    <2>2. InOrder(account[p]) => Midway(account'[p], t)
      BY <1>3, <1>6 DEF Midway
    <2>3. t.at # "idle"
      BY <1>1, <1>3
    <2> QED BY <1>2, <1>3, <1>5, <1>6, <2>1, <2>2, <2>3, AccountBegins
  <1>8. begun' \in Nat /\ begun <= begun' /\ Spoils
    <2>1. begun \in Nat
      BY <1>1 DEF StaffTypeOK
    <2>2. Spoils
      BY <1>2 DEF Spoils, Crossing
    <2> QED BY <1>2, <2>1, <2>2, Later
  <1>9. \A q \in Person : account'[q].photo = account[q].photo
    BY <1>6
  <1>10. t.at \notin {"photo row", "old photo", "tell"}
    BY <1>3
  <1> QED BY <1>3, <1>4, <1>6, <1>7, <1>8, <1>9, <1>10, AccountStep

LEMMA CreateUserKeeps ==
    ASSUME StaffInv, NEW o \in Office, NEW p \in Person, CreateUser(o, p)
    PROVE  StaffInv'
  <1>1. PICK a : a = NewUser(p, {BaseRole})
    OBVIOUS
  <1>2. {BaseRole} \in SUBSET Role
    BY StaffingAssumption
  <1>3. /\ a \in Account /\ a.photo = account[p].photo /\ a.login = "active" /\ a.active = a.asked
    BY <1>1, <1>2, NewUserFits DEF StaffInv
  <1>4. PICK t : t = [at |-> "staff row", with |-> Nothing]
    OBVIOUS
  <1>5. t.at = "staff row" /\ t.with = Nothing /\ Midway(a, t)
    BY <1>3, <1>4 DEF Midway
  <1>6. Nothing \in TakenAlong
    BY DEF TakenAlong
  <1> QED BY <1>1, <1>3, <1>5, <1>6, AccountStarts DEF CreateUser

LEMMA FieldsFit ==
    ASSUME StaffTypeOK, NEW p \in Person, NEW post \in {"active", "inactive"}
    PROVE  LET a == Fields(p, post)
           IN  /\ a \in Account /\ a.photo = account[p].photo
               /\ a.active = account[p].active /\ a.asked = account[p].asked
               /\ Follows(account[p]) => Follows(a)
  <1>1. account[p] \in Account
    BY DEF StaffTypeOK
  <1> QED BY <1>1 DEF Fields, Account, Follows

LEMMA EditStaffKeeps ==
    ASSUME StaffInv, NEW o \in Office, NEW p \in Person, NEW post \in {"active", "inactive"},
           NEW role \in Role, EditStaff(o, p, post, role)
    PROVE  StaffInv'
  <1>1. PICK b : b = Fields(p, post)
    OBVIOUS
  <1>2. /\ b \in Account /\ b.photo = account[p].photo
        /\ Follows(account[p]) => Follows(b)
    BY <1>1, FieldsFit DEF StaffInv
  <1>3. PICK a : a = [b EXCEPT !.asked = {role}]
    OBVIOUS
  <1>4. /\ a \in Account /\ a.photo = account[p].photo /\ a.asked = {role}
        /\ Follows(b) => Follows(a)
    BY <1>2, <1>3 DEF Account, Follows
  <1>5. account' = [account EXCEPT ![p] = a]
    BY <1>1, <1>3 DEF EditStaff
  <1>6. PICK t : t = [at |-> "swap", with |-> role]
    OBVIOUS
  <1>7. t.at = "swap" /\ t.with = role
    BY <1>6
  <1>8. InOrder(account[p]) => Midway(a, t)
    BY <1>2, <1>4, <1>7 DEF InOrder, Midway
  <1>9. role \in TakenAlong
    BY DEF TakenAlong
  <1>10. Begins(o, "swap", "account", p, role) /\ UNCHANGED <<files, leave, salary>>
    BY DEF EditStaff
  <1> QED BY <1>4, <1>5, <1>7, <1>8, <1>9, <1>10, AccountStarts

LEMMA EditFieldsKeeps ==
    ASSUME StaffInv, NEW p \in Person, NEW post \in {"active", "inactive"}, EditFields(p, post)
    PROVE  StaffInv'
  <1>1. PICK a : a = Fields(p, post)
    OBVIOUS
  <1>2. /\ a \in Account /\ a.photo = account[p].photo
        /\ InOrder(account[p]) => InOrder(a)
    BY <1>1, FieldsFit DEF StaffInv, InOrder
  <1>3. account' = [account EXCEPT ![p] = a]
    BY <1>1 DEF EditFields
  <1>4. AtOnce("account", p) /\ UNCHANGED <<files, leave, salary>>
    BY DEF EditFields
  <1> QED BY <1>2, <1>3, <1>4, AccountAtOnce

LEMMA RemoveStaffKeeps ==
    ASSUME StaffInv, NEW o \in Office, NEW p \in Person, RemoveStaff(o, p)
    PROVE  StaffInv'
  <1>1. PICK before \in Account : before = account[p]
    BY DEF StaffInv, StaffTypeOK
  <1>2. PICK a : a = [before EXCEPT !.post = "inactive"]
    OBVIOUS
  <1>3. /\ a \in Account /\ a.photo = account[p].photo /\ a.post = "inactive"
        /\ a.active = before.active /\ a.asked = before.asked
    BY <1>1, <1>2 DEF Account
  <1>4. account' = [account EXCEPT ![p] = a]
    BY <1>1, <1>2 DEF RemoveStaff
  <1>5. PICK t : t = [at |-> "lock", with |-> Nothing]
    OBVIOUS
  <1>6. t.at = "lock" /\ t.with = Nothing
    BY <1>5
  <1>7. InOrder(account[p]) => Midway(a, t)
    BY <1>1, <1>3, <1>6 DEF InOrder, Midway
  <1>8. Nothing \in TakenAlong
    BY DEF TakenAlong
  <1>9. Begins(o, "lock", "account", p, Nothing) /\ UNCHANGED <<files, leave, salary>>
    BY DEF RemoveStaff
  <1> QED BY <1>3, <1>4, <1>6, <1>7, <1>8, <1>9, AccountStarts

\* The next statement of a request for an account, which becomes `a`.
LEMMA AccountWrites ==
    ASSUME StaffInv, UNCHANGED <<files, leave, salary, begun>>, Spoils,
           NEW o \in Office, office[o].at \in {"staff row", "swap", "grant", "lock"},
           NEW t \in Task, office' = [office EXCEPT ![o] = t],
           t.at \in {"idle", "grant"},
           t.at # "idle" => t.table = "account" /\ t.who = office[o].who /\ t.with \in Role,
           NEW a \in Account, account' = [account EXCEPT ![office[o].who] = a],
           a.photo = account[office[o].who].photo,
           \/ <<"account", office[o].who>> \in spoiled'
           \/ Midway(account[office[o].who], office[o]) =>
                  IF t.at = "idle" THEN InOrder(a) ELSE Midway(a, t)
    PROVE  StaffInv'
  <1>1. StaffTypeOK /\ TasksFit /\ AccountInv
    BY DEF StaffInv
  <1>2. PICK p \in Person : p = office[o].who
    BY <1>1 DEF TasksFit, Fits
  <1>3. Occupied(o, "account", p)
    BY <1>1, <1>2 DEF Occupied, TasksFit, Fits
  <1>4. Fits(t)
    BY <1>2 DEF Fits
  <1>5. office'[o] = t /\ \A v \in Office \ {o} : office'[v] = office[v]
    BY <1>1, <1>4, TaskMoves
  <1>6. /\ account' \in [Person -> Account] /\ account'[p] = a
        /\ \A q \in Person \ {p} : account'[q] = account[q]
    BY <1>1, <1>2 DEF StaffTypeOK
  <1>7. AccountInv'
    <2>1. \/ <<"account", p>> \in spoiled'
          \/ Midway(account[p], office[o]) =>
                IF t.at = "idle" THEN InOrder(account'[p]) ELSE Midway(account'[p], t)
      BY <1>2, <1>6
    <2>2. t.at # "idle" => t.table = "account" /\ t.who = p
      BY <1>2
    <2> QED BY <1>1, <1>3, <1>5, <1>6, <2>1, <2>2, AccountGoesOn
  <1>8. begun' \in Nat /\ begun <= begun'
    <2>1. begun \in Nat /\ begun' = begun
      BY <1>1 DEF StaffTypeOK
    <2> QED BY <2>1, Later
  <1>9. \A q \in Person : account'[q].photo = account[q].photo
    BY <1>2, <1>6
  <1>10. t.at \notin {"photo row", "old photo", "tell"}
    OBVIOUS
  <1> QED BY <1>4, <1>6, <1>7, <1>8, <1>9, <1>10, AccountStep

LEMMA CreateStaffKeeps ==
    ASSUME StaffInv, NEW o \in Office, CreateStaff(o)
    PROVE  StaffInv'
  <1>1. /\ office[o].at = "staff row" /\ UNCHANGED <<files, leave, salary, begun>> /\ Spoils
        /\ office' = [office EXCEPT ![o] = Vacant]
    BY DEF CreateStaff, Doing, Ends, Spoils
  <1>2. office[o].who \in Person
    BY <1>1 DEF StaffInv, TasksFit, Fits
  <1>3. PICK before \in Account : before = account[office[o].who]
    BY <1>2 DEF StaffInv, StaffTypeOK
  <1>4. PICK a : a = [before EXCEPT !.post = "active"]
    OBVIOUS
  <1>5. /\ a \in Account /\ a.photo = before.photo /\ a.post = "active"
        /\ a.login = before.login /\ a.active = before.active /\ a.asked = before.asked
    BY <1>3, <1>4 DEF Account
  <1>6. account' = [account EXCEPT ![office[o].who] = a]
    BY <1>3, <1>4 DEF CreateStaff, Row
  <1>7. Midway(before, office[o]) => InOrder(a)
    BY <1>1, <1>5 DEF Midway, InOrder, Follows
  <1>8. Vacant.at = "idle"
    BY DEF Vacant
  <1> QED BY <1>1, <1>3, <1>5, <1>6, <1>7, <1>8, VacantFits, AccountWrites

LEMMA DropRolesKeeps ==
    ASSUME StaffInv, NEW o \in Office, DropRoles(o)
    PROVE  StaffInv'
  <1>1. StaffTypeOK /\ office[o].at = "swap" /\ UNCHANGED <<files, leave, salary>>
    BY DEF DropRoles, Doing, StaffInv
  <1>2. office[o].who \in Person /\ office[o].table = "account" /\ office[o].with \in Role
    BY <1>1 DEF StaffInv, TasksFit, Fits
  <1>3. /\ begun' = begun /\ spoiled' = spoiled
        /\ \E t \in Task : /\ t.at = "grant" /\ t.table = office[o].table
                            /\ t.who = office[o].who /\ t.with = office[o].with
                            /\ office' = [office EXCEPT ![o] = t]
    <2>1. Proceeds(o, "grant")
      BY DEF DropRoles
    <2>2. "grant" \in OfficeAt
      BY DEF OfficeAt
    <2> QED BY <1>1, <2>1, <2>2, TaskGoesOn
  <1>4. PICK t \in Task : /\ t.at = "grant" /\ t.table = "account"
                          /\ t.who = office[o].who /\ t.with \in Role /\ t.with = office[o].with
                          /\ office' = [office EXCEPT ![o] = t]
    BY <1>2, <1>3
  <1>5. PICK before \in Account : before = account[office[o].who]
    BY <1>1, <1>2 DEF StaffTypeOK
  <1>6. PICK a : a = [before EXCEPT !.active = {}]
    OBVIOUS
  <1>7. /\ a \in Account /\ a.photo = before.photo /\ a.post = before.post
        /\ a.login = before.login /\ a.active = {}
        /\ a.asked = before.asked /\ a.alone = before.alone
    BY <1>5, <1>6 DEF Account
  <1>8. account' = [account EXCEPT ![office[o].who] = a]
    BY <1>5, <1>6 DEF DropRoles, Row
  <1>9. Midway(before, office[o]) => Midway(a, t)
    BY <1>1, <1>4, <1>7 DEF Midway, Follows
  <1>10. Spoils
    BY <1>3 DEF Spoils
  <1> QED BY <1>1, <1>3, <1>4, <1>5, <1>7, <1>8, <1>9, <1>10, AccountWrites

LEMMA GrantRoleKeeps ==
    ASSUME StaffInv, NEW o \in Office, GrantRole(o)
    PROVE  StaffInv'
  <1>1. /\ StaffTypeOK /\ office[o].at = "grant" /\ UNCHANGED <<files, leave, salary, begun>> /\ Spoils
        /\ office' = [office EXCEPT ![o] = Vacant]
    BY DEF GrantRole, Doing, StaffInv, EndsStale, Spoils
  <1>2. office[o].who \in Person /\ office[o].table = "account" /\ office[o].with \in Role
    BY <1>1 DEF StaffInv, TasksFit, Fits
  <1>3. PICK before \in Account : before = account[office[o].who]
    BY <1>1, <1>2 DEF StaffTypeOK
  <1>4. Vacant.at = "idle"
    BY DEF Vacant
  <1>5. CASE office[o].with \in before.held
    <2>1. account' = [account EXCEPT ![office[o].who] = before]
      BY <1>1, <1>2, <1>3, <1>5 DEF GrantRole, Row, StaffTypeOK
    <2>2. <<"account", office[o].who>> \in spoiled'
      BY <1>2, <1>3, <1>5 DEF GrantRole, Row, EndsStale
    <2> QED BY <1>1, <1>3, <1>4, <2>1, <2>2, VacantFits, AccountWrites
  <1>6. CASE office[o].with \notin before.held
    <2>1. PICK a : a = [before EXCEPT !.active = @ \cup {office[o].with}, !.held = @ \cup {office[o].with}]
      OBVIOUS
    <2>2. /\ a \in Account /\ a.photo = before.photo /\ a.post = before.post
          /\ a.login = before.login /\ a.active = before.active \cup {office[o].with}
          /\ a.asked = before.asked /\ a.alone = before.alone
      BY <1>2, <1>3, <2>1 DEF Account
    <2>3. account' = [account EXCEPT ![office[o].who] = a]
      BY <1>1, <1>2, <1>3, <1>6, <2>1 DEF GrantRole, Row, StaffTypeOK
    <2>4. Midway(before, office[o]) => InOrder(a)
      BY <1>1, <1>2, <2>2 DEF Midway, InOrder, Follows
    <2> QED BY <1>1, <1>3, <1>4, <2>2, <2>3, <2>4, VacantFits, AccountWrites
  <1> QED BY <1>5, <1>6

LEMMA LockLoginKeeps ==
    ASSUME StaffInv, NEW o \in Office, LockLogin(o)
    PROVE  StaffInv'
  <1>1. /\ office[o].at = "lock" /\ UNCHANGED <<files, leave, salary, begun>> /\ Spoils
        /\ office' = [office EXCEPT ![o] = Vacant]
    BY DEF LockLogin, Doing, Ends, Spoils
  <1>2. office[o].who \in Person
    BY <1>1 DEF StaffInv, TasksFit, Fits
  <1>3. PICK before \in Account : before = account[office[o].who]
    BY <1>2 DEF StaffInv, StaffTypeOK
  <1>4. PICK a : a = [before EXCEPT !.login = "inactive"]
    OBVIOUS
  <1>5. /\ a \in Account /\ a.photo = before.photo /\ a.login = "inactive" /\ a.post = before.post
        /\ a.active = before.active /\ a.asked = before.asked
    BY <1>3, <1>4 DEF Account
  <1>6. account' = [account EXCEPT ![office[o].who] = a]
    BY <1>3, <1>4 DEF LockLogin, Row
  <1>7. Midway(before, office[o]) => InOrder(a)
    BY <1>1, <1>5 DEF Midway, InOrder, Follows
  <1>8. Vacant.at = "idle"
    BY DEF Vacant
  <1> QED BY <1>1, <1>3, <1>5, <1>6, <1>7, <1>8, VacantFits, AccountWrites

LEMMA CutShortKeeps ==
    ASSUME StaffInv, NEW o \in Office, CutShort(o)
    PROVE  StaffInv'
  <1>1. /\ StaffTypeOK /\ TasksFit /\ UNCHANGED <<account, files, leave, salary, begun>> /\ Spoils
        /\ office[o].at # "idle" /\ office' = [office EXCEPT ![o] = Vacant]
    BY DEF CutShort, Doing, StaffInv, Spoils
  <1>2. Vacant.at = "idle"
    BY DEF Vacant
  <1>3. office'[o] = Vacant /\ \A v \in Office \ {o} : office'[v] = office[v]
    BY <1>1, VacantFits, TaskMoves
  <1>4. AccountInv'
    <2>1. AccountInv
      BY DEF StaffInv
    <2>2. CASE office[o].table = "account"
      <3>1. office[o].who \in Person \/ office[o].who \notin Person
        OBVIOUS
      <3>2. <<"account", office[o].who>> \in spoiled'
        BY <2>2 DEF CutShort, Row
      <3>3. CASE office[o].who \in Person
        <4>1. PICK p \in Person : p = office[o].who
          BY <3>3
        <4>2. Occupied(o, "account", p)
          BY <1>1, <2>2, <4>1 DEF Occupied
        <4>3. \A q \in Person \ {p} : account'[q] = account[q]
          BY <1>1
        <4>4. <<"account", p>> \in spoiled'
          BY <3>2, <4>1
        <4> QED BY <1>1, <1>2, <1>3, <2>1, <4>2, <4>3, <4>4, AccountGoesOn
      <3>4. CASE office[o].who \notin Person
        <4>1. \A q \in Person : /\ account'[q] = account[q]
                                /\ \A v \in Office : Occupied(v, "account", q)' <=> Occupied(v, "account", q)
                                /\ \A v \in Office : Occupied(v, "account", q) => office'[v] = office[v]
          BY <1>1, <1>2, <1>3, <3>4 DEF Occupied
        <4> QED BY <1>1, <2>1, <4>1 DEF AccountInv, Spoils
      <3> QED BY <3>3, <3>4
    <2>3. CASE office[o].table # "account"
      <3>1. AccountStill
        BY <1>1, <1>2, <1>3, <2>3 DEF AccountStill, OnAccount
      <3> QED BY <2>1, <3>1, AccountsRest
    <2> QED BY <2>2, <2>3
  <1>5. account' \in [Person -> Account] /\ begun' \in Nat /\ begun <= begun'
    BY <1>1 DEF StaffTypeOK
  <1> QED BY <1>1, <1>2, <1>4, <1>5, VacantFits, AccountStep

-----------------------------------------------------------------------------
(* Photos *)

LEMMA PhotoStep ==
    ASSUME StaffInv, UNCHANGED <<leave, salary>>, begun' \in Nat, begun <= begun', Spoils,
           NEW o \in Office, NEW t \in Task, Fits(t), office' = [office EXCEPT ![o] = t],
           ~OnAccount(office[o]), ~OnAccount(t), t.at # "tell",
           account' \in [Person -> Account],
           \A p \in Person : /\ account'[p].login = account[p].login
                             /\ account'[p].post = account[p].post
                             /\ account'[p].active = account[p].active
                             /\ account'[p].asked = account[p].asked
                             /\ account'[p].alone = account[p].alone,
           PhotoInv'
    PROVE  StaffInv'
  <1>1. /\ StaffTypeOK /\ TasksFit
        /\ office'[o] = t /\ \A v \in Office \ {o} : office'[v] = office[v]
        /\ office' \in [Office -> Task] /\ TasksFit'
    BY TaskMoves DEF StaffInv
  <1>2. StaffTypeOK'
    BY <1>1 DEF StaffTypeOK
  <1>3. AccountStill /\ LeaveStill /\ SalaryStill
    BY <1>1 DEF AccountStill, LeaveStill, SalaryStill
  <1> QED BY <1>1, <1>2, <1>3, AccountsRest, LeavesRest, SalariesRest DEF StaffInv

LEMMA SavePhotoKeeps ==
    ASSUME StaffInv, NEW o \in Office, NEW p \in Person, SavePhoto(o, p)
    PROVE  StaffInv'
  <1>1. /\ StaffTypeOK /\ TasksFit /\ UNCHANGED <<account, leave, salary>> /\ office[o].at = "idle"
        /\ begun' = begun + 1 /\ Spoils /\ files' = files \cup {begun + 1}
    BY DEF SavePhoto, StaffInv, Begins, Spoils, Crossing
  <1>2. /\ begun \in Nat /\ begun' \in Nat /\ begun <= begun' /\ begun' \in 1 .. begun'
        /\ \A n \in Nat : n <= begun => n # begun' /\ n <= begun'
    <2>1. begun \in Nat
      BY <1>1 DEF StaffTypeOK
    <2>2. \A n \in Nat : n <= begun => n # begun + 1 /\ n <= begun + 1
      BY <2>1
    <2> QED BY <1>1, <2>1, <2>2, Later
  <1>3. account[p].photo \in Nat /\ \A q \in Person : account[q].photo \in Nat
    BY <1>1 DEF StaffTypeOK, Account
  <1>4. PICK keep \in Photos : keep = [new |-> begun', old |-> account[p].photo]
    BY <1>2, <1>3 DEF Photos
  <1>5. PICK t : t = [at |-> "photo row", table |-> "photo", who |-> p, with |-> keep]
    OBVIOUS
  <1>6. /\ t \in Task /\ t.at = "photo row" /\ t.table = "photo" /\ t.who = p
        /\ t.with \in Photos /\ t.with.new = begun' /\ t.with.old = account[p].photo
    BY <1>4, <1>5 DEF Task, OfficeAt, TakenAlong, Photos
  <1>7. office' = [office EXCEPT ![o] = t]
    BY <1>1, <1>4, <1>5 DEF SavePhoto, Begins
  <1>8. Fits(t)
    BY <1>6 DEF Fits
  <1>9. office'[o] = t /\ \A v \in Office \ {o} : office'[v] = office[v]
    BY <1>1, <1>6, <1>7, <1>8, TaskMoves
  <1>10. /\ \A v \in Office : Saving(v)' <=> Saving(v) \/ v = o
         /\ \A v \in Office : Dropping(v)' <=> Dropping(v)
         /\ ~Saving(o) /\ ~Dropping(o)
    BY <1>1, <1>6, <1>9 DEF Saving, Dropping
  <1>11. \A q \in Person :
            /\ account[q].photo \in files \cup {0} /\ account[q].photo <= begun
            /\ \A u \in Person : account[q].photo = account[u].photo => q = u \/ account[q].photo = 0
    BY DEF StaffInv, PhotoInv
  <1>12. \A v \in Office : Saving(v) \/ Dropping(v) =>
            /\ v # o /\ office'[v] = office[v]
            /\ office[v].with.old \in Nat /\ office[v].with.new \in Nat
            /\ office[v].with.old <= begun
            /\ \A q \in Person \ {office[v].who} :
                  account[q].photo # office[v].with.old \/ account[q].photo = 0
    BY <1>1, <1>9, <1>10 DEF StaffInv, PhotoInv, TasksFit, Fits, Photos, Saving, Dropping
  <1>13. \A v \in Office : Dropping(v) => account[office[v].who].photo # office[v].with.old
    BY DEF StaffInv, PhotoInv
  <1>14. \A v \in Office : Saving(v) =>
          /\ office[v].with.new \in files /\ office[v].with.new \in 1 .. begun
          /\ \A q \in Person : account[q].photo # office[v].with.new
          /\ \A u \in Office : /\ Saving(u) \/ Dropping(u) => office[u].with.old # office[v].with.new
                               /\ Saving(u) /\ u # v => office[u].with.new # office[v].with.new
    BY DEF StaffInv, PhotoInv
  <1>15. PhotoInv'
    <2>1. \A q \in Person :
            /\ account'[q].photo \in files' \cup {0} /\ account'[q].photo <= begun'
            /\ \A u \in Person : account'[q].photo = account'[u].photo => q = u \/ account'[q].photo = 0
      BY <1>1, <1>2, <1>3, <1>11
    <2>2. ASSUME NEW v \in Office, Saving(v)' \/ Dropping(v)'
          PROVE  /\ office'[v].with.old <= begun'
                 /\ \A q \in Person \ {office'[v].who} :
                       account'[q].photo # office'[v].with.old \/ account'[q].photo = 0
      <3>1. CASE v = o
        <4>1. office'[v].with.old = account[p].photo /\ office'[v].who = p
          BY <1>6, <1>9, <3>1
        <4>2. account[p].photo <= begun'
          BY <1>2, <1>3, <1>11
        <4> QED BY <1>1, <1>11, <4>1, <4>2
      <3>2. CASE v # o
        <4>1. Saving(v) \/ Dropping(v)
          BY <1>10, <2>2, <3>2
        <4>2. /\ office'[v] = office[v] /\ office[v].with.old \in Nat /\ office[v].with.old <= begun
              /\ \A q \in Person \ {office[v].who} :
                    account[q].photo # office[v].with.old \/ account[q].photo = 0
          BY <1>12, <4>1
        <4> QED BY <1>1, <1>2, <4>2
      <3> QED BY <3>1, <3>2
    <2>3. \A v \in Office : Dropping(v)' => account'[office'[v].who].photo # office'[v].with.old
      BY <1>1, <1>10, <1>12, <1>13
    <2>4. ASSUME NEW v \in Office, Saving(v)'
          PROVE  /\ office'[v].with.new \in files' /\ office'[v].with.new \in 1 .. begun'
                 /\ \A q \in Person : account'[q].photo # office'[v].with.new
                 /\ \A u \in Office :
                       /\ Saving(u)' \/ Dropping(u)' => office'[u].with.old # office'[v].with.new
                       /\ Saving(u)' /\ u # v => office'[u].with.new # office'[v].with.new
      <3>1. CASE v = o
        <4>1. office'[v].with.new = begun' /\ begun' \in files' /\ begun' \in 1 .. begun'
          BY <1>1, <1>2, <1>6, <1>9, <3>1
        <4>2. \A q \in Person : account'[q].photo # begun'
          BY <1>1, <1>2, <1>3, <1>11
        <4>3. ASSUME NEW u \in Office, Saving(u)' \/ Dropping(u)' PROVE office'[u].with.old # begun'
          <5>1. CASE u = o
            BY <1>2, <1>3, <1>6, <1>9, <1>11, <5>1
          <5>2. CASE u # o
            <6>1. /\ office'[u] = office[u] /\ office[u].with.old \in Nat
                  /\ office[u].with.old <= begun
              BY <1>10, <1>12, <4>3, <5>2
            <6> QED BY <1>2, <6>1
          <5> QED BY <5>1, <5>2
        <4>4. \A u \in Office : Saving(u)' /\ u # o => office'[u].with.new # begun'
          BY <1>2, <1>10, <1>12, <1>14
        <4> QED BY <3>1, <4>1, <4>2, <4>3, <4>4
      <3>2. CASE v # o
        <4>1. Saving(v) /\ office'[v] = office[v]
          BY <1>9, <1>10, <2>4, <3>2
        <4>2. /\ office[v].with.new \in files /\ office[v].with.new \in 1 .. begun
              /\ \A q \in Person : account[q].photo # office[v].with.new
              /\ \A u \in Office : /\ Saving(u) \/ Dropping(u) => office[u].with.old # office[v].with.new
                                   /\ Saving(u) /\ u # v => office[u].with.new # office[v].with.new
          BY <1>14, <4>1
        <4>3. office[v].with.new \in files' /\ office[v].with.new \in 1 .. begun' /\ office[v].with.new # begun'
          BY <1>1, <1>2, <4>2
        <4>4. \A u \in Office : Saving(u)' \/ Dropping(u)' => office'[u].with.old # office[v].with.new
          BY <1>6, <1>9, <1>10, <1>12, <4>2
        <4>5. \A u \in Office : Saving(u)' /\ u # v => office'[u].with.new # office[v].with.new
          BY <1>6, <1>9, <1>10, <1>12, <4>2, <4>3
        <4> QED BY <1>1, <4>1, <4>2, <4>3, <4>4, <4>5
      <3> QED BY <3>1, <3>2
    <2> QED BY <2>1, <2>2, <2>3, <2>4 DEF PhotoInv, Saving, Dropping
  <1>16. ~OnAccount(office[o]) /\ ~OnAccount(t)
    BY <1>1, <1>6 DEF OnAccount
  <1>17. account' \in [Person -> Account]
    BY <1>1 DEF StaffTypeOK
  <1> QED BY <1>1, <1>2, <1>6, <1>7, <1>8, <1>15, <1>16, <1>17, PhotoStep

\* The two statements after the file is written.
LEMMA MoveRowKeeps ==
    ASSUME StaffInv, NEW o \in Office, MoveRow(o)
    PROVE  StaffInv'
  <1>1. /\ StaffTypeOK /\ TasksFit /\ UNCHANGED <<files, leave, salary>> /\ office[o].at = "photo row"
        /\ Proceeds(o, "old photo")
    BY DEF MoveRow, Doing, StaffInv
  <1>2. office[o].table = "photo" /\ office[o].who \in Person /\ office[o].with \in Photos
    BY <1>1 DEF TasksFit, Fits
  <1>3. /\ begun' = begun /\ spoiled' = spoiled
        /\ \E t \in Task : /\ t.at = "old photo" /\ t.table = office[o].table
                            /\ t.who = office[o].who /\ t.with = office[o].with
                            /\ office' = [office EXCEPT ![o] = t]
    <2>1. "old photo" \in OfficeAt
      BY DEF OfficeAt
    <2> QED BY <1>1, <2>1, TaskGoesOn
  <1>4. PICK t \in Task : /\ t.at = "old photo" /\ t.table = "photo"
                          /\ t.who = office[o].who /\ t.with = office[o].with
                          /\ office' = [office EXCEPT ![o] = t]
    BY <1>2, <1>3
  <1>5. Fits(t)
    BY <1>2, <1>4 DEF Fits
  <1>6. office'[o] = t /\ \A v \in Office \ {o} : office'[v] = office[v]
    BY <1>1, <1>4, <1>5, TaskMoves
  <1>7. PICK p \in Person : p = office[o].who
    BY <1>2
  <1>8. PICK new \in Nat : new = office[o].with.new
    BY <1>2 DEF Photos
  <1>9. PICK before \in Account : before = account[p]
    BY <1>1 DEF StaffTypeOK
  <1>10. PICK a : a = [before EXCEPT !.photo = new]
    OBVIOUS
  <1>11. /\ a \in Account /\ a.photo = new /\ a.post = before.post
         /\ a.login = before.login /\ a.active = before.active
         /\ a.asked = before.asked /\ a.alone = before.alone
    BY <1>10 DEF Account
  <1>12. account' = [account EXCEPT ![p] = a]
    BY <1>7, <1>8, <1>9, <1>10 DEF MoveRow, Row
  <1>13. /\ account' \in [Person -> Account] /\ account'[p] = a
         /\ \A q \in Person \ {p} : account'[q] = account[q]
    BY <1>1, <1>11, <1>12 DEF StaffTypeOK
  <1>14. /\ \A v \in Office : Saving(v)' <=> Saving(v) /\ v # o
         /\ \A v \in Office : Dropping(v)' <=> Dropping(v) \/ v = o
         /\ \A v \in Office : office'[v].with = office[v].with /\ office'[v].who = office[v].who
         /\ Saving(o) /\ ~Dropping(o)
    BY <1>1, <1>4, <1>6 DEF Saving, Dropping
  <1>15. /\ new \in files /\ new \in 1 .. begun
         /\ \A q \in Person : account[q].photo # new
         /\ \A u \in Office : /\ Saving(u) \/ Dropping(u) => office[u].with.old # new
                              /\ Saving(u) /\ u # o => office[u].with.new # new
    BY <1>8, <1>14 DEF StaffInv, PhotoInv
  <1>16. PhotoInv'
    <2>1. ASSUME NEW q \in Person
          PROVE  /\ account'[q].photo \in files' \cup {0} /\ account'[q].photo <= begun'
                 /\ \A u \in Person : account'[q].photo = account'[u].photo => q = u \/ account'[q].photo = 0
      <3>1. /\ account[q].photo \in files \cup {0} /\ account[q].photo <= begun
            /\ \A u \in Person : account[q].photo = account[u].photo => q = u \/ account[q].photo = 0
        BY DEF StaffInv, PhotoInv
      <3>2. new <= begun
        BY <1>15
      <3>3. CASE q = p
        <4>1. account'[q].photo = new
          BY <1>11, <1>13, <3>3
        <4>2. \A u \in Person \ {p} : account'[u].photo # new
          BY <1>13, <1>15
        <4> QED BY <1>1, <1>3, <1>15, <3>2, <3>3, <4>1, <4>2
      <3>4. CASE q # p
        <4>1. account'[q].photo = account[q].photo /\ account'[p].photo = new
          BY <1>11, <1>13, <3>4
        <4>2. account'[q].photo # account'[p].photo
          BY <1>15, <4>1
        <4>3. \A u \in Person \ {p} : account'[u].photo = account[u].photo
          BY <1>13
        <4> QED BY <1>1, <1>3, <3>1, <4>1, <4>2, <4>3
      <3> QED BY <3>3, <3>4
    <2>2. ASSUME NEW v \in Office, Saving(v)' \/ Dropping(v)'
          PROVE  /\ office'[v].with.old <= begun'
                 /\ \A q \in Person \ {office'[v].who} :
                       account'[q].photo # office'[v].with.old \/ account'[q].photo = 0
      <3>1. Saving(v) \/ Dropping(v)
        BY <1>14, <2>2
      <3>2. /\ office[v].with.old <= begun
            /\ \A q \in Person \ {office[v].who} :
                  account[q].photo # office[v].with.old \/ account[q].photo = 0
        BY <3>1 DEF StaffInv, PhotoInv
      <3>3. office[v].with.old # new
        BY <1>15, <3>1
      <3>4. office'[v].with.old = office[v].with.old /\ office'[v].who = office[v].who /\ begun' = begun
        BY <1>3, <1>14
      <3>5. account'[p].photo = new /\ \A q \in Person \ {p} : account'[q].photo = account[q].photo
        BY <1>11, <1>13
      <3> QED BY <3>2, <3>3, <3>4, <3>5
    <2>3. ASSUME NEW v \in Office, Dropping(v)'
          PROVE  account'[office'[v].who].photo # office'[v].with.old
      <3>1. office[v].with.old # new
        BY <1>14, <1>15, <2>3
      <3>2. CASE office[v].who = p
        BY <1>11, <1>13, <1>14, <3>1, <3>2
      <3>3. CASE office[v].who # p
        <4>1. Dropping(v) /\ office[v].who \in Person
          BY <1>1, <1>7, <1>14, <2>3, <3>3 DEF TasksFit, Fits, Dropping
        <4>2. account[office[v].who].photo # office[v].with.old
          BY <4>1 DEF StaffInv, PhotoInv
        <4> QED BY <1>13, <1>14, <3>3, <4>1, <4>2
      <3> QED BY <3>2, <3>3
    <2>4. ASSUME NEW v \in Office, Saving(v)'
          PROVE  /\ office'[v].with.new \in files' /\ office'[v].with.new \in 1 .. begun'
                 /\ \A q \in Person : account'[q].photo # office'[v].with.new
                 /\ \A u \in Office :
                       /\ Saving(u)' \/ Dropping(u)' => office'[u].with.old # office'[v].with.new
                       /\ Saving(u)' /\ u # v => office'[u].with.new # office'[v].with.new
      <3>1. Saving(v) /\ v # o
        BY <1>14, <2>4
      <3>2. /\ office[v].with.new \in files /\ office[v].with.new \in 1 .. begun
            /\ \A q \in Person : account[q].photo # office[v].with.new
            /\ \A u \in Office : /\ Saving(u) \/ Dropping(u) => office[u].with.old # office[v].with.new
                                 /\ Saving(u) /\ u # v => office[u].with.new # office[v].with.new
        BY <3>1 DEF StaffInv, PhotoInv
      <3>3. office[v].with.new # new
        BY <1>15, <3>1
      <3>4. office'[v].with = office[v].with /\ files' = files /\ begun' = begun
        BY <1>1, <1>3, <1>14
      <3>5. \A q \in Person : account'[q].photo # office[v].with.new
        BY <1>11, <1>13, <3>2, <3>3
      <3>6. \A u \in Office : Saving(u)' \/ Dropping(u)' => office'[u].with.old # office[v].with.new
        BY <1>14, <3>2
      <3>7. \A u \in Office : Saving(u)' /\ u # v => office'[u].with.new # office[v].with.new
        BY <1>14, <3>2
      <3> QED BY <3>2, <3>4, <3>5, <3>6, <3>7
    <2> QED BY <2>1, <2>2, <2>3, <2>4 DEF PhotoInv, Saving, Dropping
  <1>17. ~OnAccount(office[o]) /\ ~OnAccount(t) /\ t.at # "tell"
    BY <1>2, <1>4 DEF OnAccount
  <1>18. begun' \in Nat /\ begun <= begun' /\ Spoils
    <2>1. begun \in Nat
      BY <1>1 DEF StaffTypeOK
    <2> QED BY <1>3, <2>1, Later DEF Spoils
  <1>19. \A q \in Person : /\ account'[q].login = account[q].login
                           /\ account'[q].post = account[q].post
                           /\ account'[q].active = account[q].active
                           /\ account'[q].asked = account[q].asked
                           /\ account'[q].alone = account[q].alone
    BY <1>9, <1>11, <1>13
  <1> QED BY <1>1, <1>4, <1>5, <1>13, <1>16, <1>17, <1>18, <1>19, PhotoStep

LEMMA DropOldPhotoKeeps ==
    ASSUME StaffInv, NEW o \in Office, DropOldPhoto(o)
    PROVE  StaffInv'
  <1>1. /\ StaffTypeOK /\ TasksFit /\ UNCHANGED <<account, leave, salary, begun>> /\ Spoils
        /\ office[o].at = "old photo" /\ office' = [office EXCEPT ![o] = Vacant]
        /\ files' = files \ {office[o].with.old}
    BY DEF DropOldPhoto, Doing, StaffInv, Ends, Spoils
  <1>2. office[o].table = "photo" /\ office[o].who \in Person /\ Dropping(o)
    BY <1>1 DEF TasksFit, Fits, Dropping
  <1>3. Vacant.at = "idle"
    BY DEF Vacant
  <1>4. office'[o] = Vacant /\ \A v \in Office \ {o} : office'[v] = office[v]
    BY <1>1, VacantFits, TaskMoves
  <1>5. \A v \in Office : Saving(v)' \/ Dropping(v)' =>
           /\ v # o /\ office'[v] = office[v] /\ (Saving(v)' <=> Saving(v)) /\ (Dropping(v)' <=> Dropping(v))
    BY <1>3, <1>4 DEF Saving, Dropping
  <1>6. PhotoInv'
    <2>1. ASSUME NEW q \in Person PROVE account'[q].photo \in files' \cup {0}
      <3>1. account[q].photo \in files \cup {0}
        BY DEF StaffInv, PhotoInv
      <3>2. account[q].photo # office[o].with.old \/ account[q].photo = 0
        BY <1>2 DEF StaffInv, PhotoInv
      <3> QED BY <1>1, <3>1, <3>2
    <2>2. \A q \in Person :
             /\ account'[q].photo <= begun'
             /\ \A u \in Person : account'[q].photo = account'[u].photo => q = u \/ account'[q].photo = 0
      BY <1>1 DEF StaffInv, PhotoInv
    <2>3. ASSUME NEW v \in Office, Saving(v)' \/ Dropping(v)'
          PROVE  /\ office'[v].with.old <= begun'
                 /\ \A q \in Person \ {office'[v].who} :
                       account'[q].photo # office'[v].with.old \/ account'[q].photo = 0
      <3>1. office'[v] = office[v] /\ (Saving(v) \/ Dropping(v))
        BY <1>5, <2>3
      <3>2. /\ office[v].with.old <= begun
            /\ \A q \in Person \ {office[v].who} :
                  account[q].photo # office[v].with.old \/ account[q].photo = 0
        BY <3>1 DEF StaffInv, PhotoInv
      <3> QED BY <1>1, <3>1, <3>2
    <2>4. \A v \in Office : Dropping(v)' => account'[office'[v].who].photo # office'[v].with.old
      BY <1>1, <1>5 DEF StaffInv, PhotoInv
    <2>5. ASSUME NEW v \in Office, Saving(v)'
          PROVE  /\ office'[v].with.new \in files' /\ office'[v].with.new \in 1 .. begun'
                 /\ \A q \in Person : account'[q].photo # office'[v].with.new
                 /\ \A u \in Office :
                       /\ Saving(u)' \/ Dropping(u)' => office'[u].with.old # office'[v].with.new
                       /\ Saving(u)' /\ u # v => office'[u].with.new # office'[v].with.new
      <3>1. Saving(v) /\ office'[v] = office[v]
        BY <1>5, <2>5
      <3>2. /\ office[v].with.new \in files /\ office[v].with.new \in 1 .. begun
            /\ \A q \in Person : account[q].photo # office[v].with.new
            /\ \A u \in Office : /\ Saving(u) \/ Dropping(u) => office[u].with.old # office[v].with.new
                                 /\ Saving(u) /\ u # v => office[u].with.new # office[v].with.new
        BY <3>1 DEF StaffInv, PhotoInv
      <3>3. office[o].with.old # office[v].with.new
        BY <1>2, <3>2
      <3>4. \A u \in Office : Saving(u)' \/ Dropping(u)' => office'[u].with.old # office[v].with.new
        BY <1>5, <3>2
      <3>5. \A u \in Office : Saving(u)' /\ u # v => office'[u].with.new # office[v].with.new
        BY <1>5, <3>2
      <3>6. files' = files \ {office[o].with.old} /\ begun' = begun /\ account' = account
        BY <1>1
      <3>7. office[v].with.new \in files'
        BY <3>2, <3>3, <3>6
      <3> QED BY <3>1, <3>2, <3>4, <3>5, <3>6, <3>7
    <2> QED BY <2>1, <2>2, <2>3, <2>4, <2>5 DEF PhotoInv, Saving, Dropping
  <1>7. ~OnAccount(office[o]) /\ ~OnAccount(Vacant) /\ Vacant.at # "tell"
    BY <1>2, <1>3 DEF OnAccount
  <1>8. begun' \in Nat /\ begun <= begun'
    <2>1. begun \in Nat
      BY <1>1 DEF StaffTypeOK
    <2> QED BY <1>1, <2>1, Later
  <1>9. account' \in [Person -> Account]
    BY <1>1 DEF StaffTypeOK
  <1> QED BY <1>1, <1>6, <1>7, <1>8, <1>9, VacantFits, PhotoStep

-----------------------------------------------------------------------------
(* Leave and pay *)

LEMMA DeskStep ==
    ASSUME StaffInv, UNCHANGED <<account, files>>, begun' \in Nat, begun <= begun', Spoils,
           office' \in [Office -> Task], TasksFit',
           \A v \in Office :
              \/ office'[v] = office[v]
              \/ /\ ~OnAccount(office[v]) /\ ~OnAccount(office'[v])
                 /\ office'[v].at \notin {"photo row", "old photo"},
           leave' \in [Person -> LeaveRow], LeaveInv',
           salary' \in [Person -> SalaryRow], SalaryInv'
    PROVE  StaffInv'
  <1>1. StaffTypeOK /\ TasksFit
    BY DEF StaffInv
  <1>2. StaffTypeOK'
    BY <1>1 DEF StaffTypeOK
  <1>3. AccountStill /\ PhotoStill
    BY DEF AccountStill, PhotoStill
  <1> QED BY <1>1, <1>2, <1>3, AccountsRest, PhotosRest DEF StaffInv

\* A request for a leave, a salary or the payroll goes from one task to another.
LEMMA DeskGoes ==
    ASSUME StaffInv, UNCHANGED <<account, files>>, begun' \in {begun, begun + 1}, Spoils,
           NEW o \in Office, NEW t \in Task, Fits(t), office' = [office EXCEPT ![o] = t],
           office[o].at \in {"idle", "claim", "tell", "decide", "payroll", "pay"},
           t.at \in {"idle", "claim", "tell", "decide", "payroll", "pay"},
           leave' \in [Person -> LeaveRow], LeaveInv',
           salary' \in [Person -> SalaryRow], SalaryInv'
    PROVE  StaffInv'
  <1>1. /\ StaffTypeOK /\ TasksFit
        /\ office'[o] = t /\ \A v \in Office \ {o} : office'[v] = office[v]
        /\ office' \in [Office -> Task] /\ TasksFit'
    BY TaskMoves DEF StaffInv
  <1>2. ~OnAccount(office[o]) /\ ~OnAccount(t)
    BY <1>1 DEF OnAccount, TasksFit, Fits
  <1>3. begun' \in Nat /\ begun <= begun'
    <2>1. begun \in Nat
      BY <1>1 DEF StaffTypeOK
    <2> QED BY <2>1, Later
  <1>4. \A v \in Office :
           \/ office'[v] = office[v]
           \/ /\ ~OnAccount(office[v]) /\ ~OnAccount(office'[v])
              /\ office'[v].at \notin {"photo row", "old photo"}
    BY <1>1, <1>2
  <1> QED BY <1>1, <1>3, <1>4, DeskStep

LEMMA LeaveMoves ==
    ASSUME StaffInv, Spoils, NEW p \in Person, NEW r \in LeaveRow,
           leave' = [leave EXCEPT ![p] = r],
           \/ <<"leave", p>> \in spoiled'
           \/ LeaveTells(leave[p]) => LeaveTells(r) /\ leave[p].first \in {"none", r.first},
           \A v \in Office :
              \/ office'[v] = office[v]
              \/ office'[v].at = "tell" =>
                    /\ office'[v].who = p
                    /\ <<"leave", p>> \in spoiled' \/
                         (LeaveTells(leave[p]) => office'[v].with = r.first)
    PROVE  leave' \in [Person -> LeaveRow] /\ LeaveInv'
  <1>1. /\ leave' \in [Person -> LeaveRow] /\ leave'[p] = r
        /\ \A q \in Person \ {p} : leave'[q] = leave[q]
    BY DEF StaffInv, StaffTypeOK
  <1>2. ASSUME NEW q \in Person, <<"leave", q>> \notin spoiled'
        PROVE  /\ LeaveTells(leave'[q])
               /\ \A o \in Office : office'[o].at = "tell" /\ office'[o].who = q =>
                      office'[o].with = leave'[q].first
    <2>1. /\ LeaveTells(leave[q])
          /\ \A o \in Office : office[o].at = "tell" /\ office[o].who = q =>
                 office[o].with = leave[q].first /\ office[o].with # "none"
      BY <1>2 DEF StaffInv, LeaveInv, Spoils, TasksFit, Fits, Choice, Decision
    <2>2. CASE q = p
      <3>1. LeaveTells(r) /\ leave[p].first \in {"none", r.first}
        BY <1>2, <2>1, <2>2
      <3>2. \A o \in Office : office'[o].at = "tell" /\ office'[o].who = p => office'[o].with = r.first
        BY <1>2, <2>1, <2>2, <3>1
      <3> QED BY <1>1, <2>2, <3>1, <3>2
    <2>3. CASE q # p
      <3>1. \A o \in Office : office'[o].at = "tell" /\ office'[o].who = q => office'[o] = office[o]
        BY <2>3
      <3> QED BY <1>1, <2>1, <2>3, <3>1
    <2> QED BY <2>2, <2>3
  <1> QED BY <1>1, <1>2 DEF LeaveInv, LeaveTells

\* Leave and pay rows that a step does not write.
LEMMA LeaveStays ==
    ASSUME StaffInv, LeaveStill
    PROVE  leave' \in [Person -> LeaveRow] /\ LeaveInv'
  BY LeavesRest DEF StaffInv, StaffTypeOK, LeaveStill
LEMMA SalaryStays ==
    ASSUME StaffInv, SalaryStill
    PROVE  salary' \in [Person -> SalaryRow] /\ SalaryInv'
  BY SalariesRest DEF StaffInv, StaffTypeOK, SalaryStill

\* What Decided writes.
LEMMA DecidedWrites ==
    ASSUME StaffInv, NEW p \in Person, NEW word \in Choice, Decided(p, word)
    PROVE  \E r \in LeaveRow :
              /\ leave' = [leave EXCEPT ![p] = r]
              /\ r.status = word /\ r.told = leave[p].told
              /\ r.first = IF leave[p].first = "none" THEN word ELSE leave[p].first
  <1>1. PICK before \in LeaveRow : before = leave[p]
    BY DEF StaffInv, StaffTypeOK
  <1>2. PICK r : r = [before EXCEPT !.status = word,
                                    !.first = IF @ = "none" THEN word ELSE @]
    OBVIOUS
  <1>3. /\ r \in LeaveRow /\ r.status = word /\ r.told = before.told
        /\ r.first = IF before.first = "none" THEN word ELSE before.first
    BY <1>1, <1>2 DEF LeaveRow
  <1>4. leave' = [leave EXCEPT ![p] = r]
    BY <1>1, <1>2 DEF Decided, StaffInv, StaffTypeOK
  <1> QED BY <1>1, <1>3, <1>4

\* A PENDING request that is decided has had no decision before.
LEMMA FirstDecided ==
    ASSUME NEW before, NEW r, NEW word \in Choice, before.status = "PENDING",
           r.status = word, r.told = before.told,
           r.first = IF before.first = "none" THEN word ELSE before.first,
           LeaveTells(before)
    PROVE  LeaveTells(r) /\ before.first \in {"none", r.first} /\ r.first = word
  BY DEF LeaveTells, Choice, Decision

LEMMA FileLeaveKeeps ==
    ASSUME StaffInv, NEW p \in Person, FileLeave(p)
    PROVE  StaffInv'
  <1>1. /\ UNCHANGED <<account, files, salary, office>> /\ begun' = begun + 1 /\ Spoils
        /\ leave[p].status = "none"
    BY DEF FileLeave, AtOnce, Spoils, Crossing
  <1>2. PICK before \in LeaveRow : before = leave[p]
    BY DEF StaffInv, StaffTypeOK
  <1>3. PICK r : r = [before EXCEPT !.status = "PENDING"]
    OBVIOUS
  <1>4. r \in LeaveRow /\ r.status = "PENDING" /\ r.first = before.first /\ r.told = before.told
    BY <1>2, <1>3 DEF LeaveRow
  <1>5. leave' = [leave EXCEPT ![p] = r]
    BY <1>2, <1>3 DEF FileLeave
  <1>6. LeaveTells(leave[p]) => LeaveTells(r) /\ leave[p].first \in {"none", r.first}
    BY <1>1, <1>2, <1>4 DEF LeaveTells
  <1>7. \A v \in Office : office'[v] = office[v]
    BY <1>1
  <1>8. leave' \in [Person -> LeaveRow] /\ LeaveInv'
    BY <1>1, <1>4, <1>5, <1>6, <1>7, LeaveMoves
  <1>9. SalaryStill
    BY <1>1 DEF SalaryStill
  <1>10. begun' \in Nat /\ begun <= begun'
    <2>1. begun \in Nat
      BY DEF StaffInv, StaffTypeOK
    <2> QED BY <1>1, <2>1, Later
  <1>11. office' \in [Office -> Task] /\ TasksFit'
    BY <1>1 DEF StaffInv, StaffTypeOK, TasksFit
  <1> QED BY <1>1, <1>7, <1>8, <1>9, <1>10, <1>11, SalaryStays, DeskStep

\* PATCH writes what it is given, and the row no longer counts.
LEMMA OverwriteLeaveKeeps ==
    ASSUME StaffInv, NEW p \in Person, NEW word \in Choice, OverwriteLeave(p, word)
    PROVE  StaffInv'
  <1>1. /\ UNCHANGED <<account, files, salary, office>> /\ begun' = begun + 1 /\ Spoils
        /\ <<"leave", p>> \in spoiled'
    BY DEF OverwriteLeave, Spoils
  <1>2. PICK before \in LeaveRow : before = leave[p]
    BY DEF StaffInv, StaffTypeOK
  <1>3. PICK r : r = [before EXCEPT !.status = word]
    OBVIOUS
  <1>4. r \in LeaveRow
    BY <1>2, <1>3 DEF LeaveRow
  <1>5. leave' = [leave EXCEPT ![p] = r]
    BY <1>2, <1>3 DEF OverwriteLeave
  <1>6. \A v \in Office : office'[v] = office[v]
    BY <1>1
  <1>7. leave' \in [Person -> LeaveRow] /\ LeaveInv'
    BY <1>1, <1>4, <1>5, <1>6, LeaveMoves
  <1>8. SalaryStill
    BY <1>1 DEF SalaryStill
  <1>9. begun' \in Nat /\ begun <= begun'
    <2>1. begun \in Nat
      BY DEF StaffInv, StaffTypeOK
    <2> QED BY <1>1, <2>1, Later
  <1>10. office' \in [Office -> Task] /\ TasksFit'
    BY <1>1 DEF StaffInv, StaffTypeOK, TasksFit
  <1> QED BY <1>1, <1>6, <1>7, <1>8, <1>9, <1>10, SalaryStays, DeskStep

\* Reading a leave request, or checking it or a salary, writes nothing.
LEMMA LooksKeep ==
    ASSUME StaffInv, NEW o \in Office, NEW next \in {"claim", "decide", "pay"}, NEW p \in Person,
           NEW table \in {"leave", "salary"}, table = IF next = "pay" THEN "salary" ELSE "leave",
           NEW with \in TakenAlong, next # "pay" => with \in Choice,
           Begins(o, next, table, p, with), UNCHANGED <<account, files, leave, salary>>
    PROVE  StaffInv'
  <1>1. PICK t : t = [at |-> next, table |-> table, who |-> p, with |-> with]
    OBVIOUS
  <1>2. t \in Task /\ t.at = next /\ t.table = table /\ t.who = p /\ t.with = with
    BY <1>1 DEF Task, OfficeAt
  <1>3. /\ office' = [office EXCEPT ![o] = t] /\ office[o].at = "idle"
        /\ begun' = begun + 1 /\ Spoils
    BY <1>1 DEF Begins, Spoils, Crossing
  <1>4. Fits(t)
    BY <1>2 DEF Fits
  <1>5. StaffTypeOK /\ TasksFit
    BY DEF StaffInv
  <1>6. office'[o] = t /\ \A v \in Office \ {o} : office'[v] = office[v]
    BY <1>2, <1>3, <1>4, <1>5, TaskMoves
  <1>7. LeaveStill /\ SalaryStill
    BY <1>2, <1>3, <1>6 DEF LeaveStill, SalaryStill
  <1>8. /\ leave' \in [Person -> LeaveRow] /\ LeaveInv'
        /\ salary' \in [Person -> SalaryRow] /\ SalaryInv'
    BY <1>7, LeaveStays, SalaryStays
  <1> QED BY <1>2, <1>3, <1>4, <1>8, DeskGoes

LEMMA LookKeeps ==
    ASSUME StaffInv, NEW o \in Office, NEW p \in Person, NEW word \in Choice,
           ReadLeave(o, p, word) \/ CheckLeave(o, p, word) \/ CheckSalary(o, p)
    PROVE  StaffInv'
  <1>1. word \in TakenAlong /\ Nothing \in TakenAlong
    BY DEF TakenAlong
  <1>2. CASE ReadLeave(o, p, word)
    BY <1>1, <1>2, LooksKeep DEF ReadLeave
  <1>3. CASE CheckLeave(o, p, word)
    BY <1>1, <1>3, LooksKeep DEF CheckLeave
  <1>4. CASE CheckSalary(o, p)
    BY <1>1, <1>4, LooksKeep DEF CheckSalary
  <1> QED BY <1>2, <1>3, <1>4

LEMMA ClaimLeaveKeeps ==
    ASSUME StaffInv, NEW o \in Office, ClaimLeave(o)
    PROVE  StaffInv'
  <1>1. /\ StaffTypeOK /\ TasksFit /\ UNCHANGED <<account, files, salary>> /\ office[o].at = "claim"
    BY DEF ClaimLeave, Doing, StaffInv
  <1>2. office[o].table = "leave" /\ office[o].who \in Person /\ office[o].with \in Choice
    BY <1>1 DEF TasksFit, Fits
  <1>3. PICK p \in Person : p = office[o].who
    BY <1>2
  <1>4. CASE leave[p].status # "PENDING"
    <2>1. /\ office' = [office EXCEPT ![o] = Vacant] /\ begun' = begun /\ Spoils
          /\ leave' = leave
      BY <1>3, <1>4 DEF ClaimLeave, Row, Ends, Spoils
    <2>2. Vacant.at = "idle"
      BY DEF Vacant
    <2>3. office'[o] = Vacant /\ \A v \in Office \ {o} : office'[v] = office[v]
      BY <1>1, <2>1, VacantFits, TaskMoves
    <2>4. LeaveStill /\ SalaryStill
      BY <1>1, <2>1, <2>2, <2>3 DEF LeaveStill, SalaryStill
    <2>5. /\ leave' \in [Person -> LeaveRow] /\ LeaveInv'
          /\ salary' \in [Person -> SalaryRow] /\ SalaryInv'
      BY <2>4, LeaveStays, SalaryStays
    <2> QED BY <1>1, <2>1, <2>2, <2>5, VacantFits, DeskGoes
  <1>5. CASE leave[p].status = "PENDING"
    <2>1. PICK word \in Choice : word = office[o].with
      BY <1>2
    <2>2. Decided(p, word) /\ Proceeds(o, "tell")
      BY <1>3, <1>5, <2>1 DEF ClaimLeave, Row
    <2>3. /\ begun' = begun /\ spoiled' = spoiled
          /\ \E t \in Task : /\ t.at = "tell" /\ t.table = office[o].table
                              /\ t.who = office[o].who /\ t.with = office[o].with
                              /\ office' = [office EXCEPT ![o] = t]
      <3>1. "tell" \in OfficeAt
        BY DEF OfficeAt
      <3> QED BY <1>1, <2>2, <3>1, TaskGoesOn
    <2>4. PICK t \in Task : /\ t.at = "tell" /\ t.table = "leave" /\ t.who = p /\ t.with = word
                            /\ office' = [office EXCEPT ![o] = t]
      BY <1>2, <1>3, <2>1, <2>3
    <2>5. Fits(t)
      BY <2>4 DEF Fits
    <2>6. office'[o] = t /\ \A v \in Office \ {o} : office'[v] = office[v]
      BY <1>1, <2>4, <2>5, TaskMoves
    <2>7. PICK r \in LeaveRow :
              /\ leave' = [leave EXCEPT ![p] = r]
              /\ r.status = word /\ r.told = leave[p].told
              /\ r.first = IF leave[p].first = "none" THEN word ELSE leave[p].first
      BY <2>2, DecidedWrites
    <2>8. LeaveTells(leave[p]) =>
             LeaveTells(r) /\ leave[p].first \in {"none", r.first} /\ r.first = word
      BY <1>5, <2>7, FirstDecided
    <2>9. Spoils
      BY <2>3 DEF Spoils
    <2>10. leave' \in [Person -> LeaveRow] /\ LeaveInv'
      <3>1. \A v \in Office :
              \/ office'[v] = office[v]
              \/ office'[v].at = "tell" =>
                    /\ office'[v].who = p
                    /\ <<"leave", p>> \in spoiled' \/
                         (LeaveTells(leave[p]) => office'[v].with = r.first)
        BY <2>4, <2>6, <2>8
      <3> QED BY <2>7, <2>8, <2>9, <3>1, LeaveMoves
    <2>11. SalaryStill
      BY <1>1, <2>9 DEF SalaryStill
    <2> QED BY <1>1, <2>3, <2>4, <2>5, <2>9, <2>10, <2>11, SalaryStays, DeskGoes
  <1> QED BY <1>4, <1>5

LEMMA NotifyStaffUserKeeps ==
    ASSUME StaffInv, NEW o \in Office, NotifyStaffUser(o)
    PROVE  StaffInv'
  <1>1. /\ StaffTypeOK /\ TasksFit /\ UNCHANGED <<account, files, salary, begun>> /\ Spoils
        /\ office[o].at = "tell" /\ office' = [office EXCEPT ![o] = Vacant]
    BY DEF NotifyStaffUser, Doing, StaffInv, Ends, Spoils
  <1>2. office[o].table = "leave" /\ office[o].who \in Person /\ office[o].with \in Choice
    BY <1>1 DEF TasksFit, Fits
  <1>3. PICK p \in Person : p = office[o].who
    BY <1>2
  <1>4. PICK word \in Choice : word = office[o].with
    BY <1>2
  <1>5. Vacant.at = "idle"
    BY DEF Vacant
  <1>6. office'[o] = Vacant /\ \A v \in Office \ {o} : office'[v] = office[v]
    BY <1>1, VacantFits, TaskMoves
  <1>7. PICK before \in LeaveRow : before = leave[p]
    BY <1>1 DEF StaffTypeOK
  <1>8. PICK r : r = [before EXCEPT !.told = word]
    OBVIOUS
  <1>9. r \in LeaveRow /\ r.status = before.status /\ r.first = before.first /\ r.told = word
    BY <1>7, <1>8 DEF LeaveRow
  <1>10. leave' = [leave EXCEPT ![p] = r]
    BY <1>3, <1>4, <1>7, <1>8 DEF NotifyStaffUser, Row
  <1>11. \/ <<"leave", p>> \in spoiled'
         \/ LeaveTells(leave[p]) => LeaveTells(r) /\ leave[p].first \in {"none", r.first}
    <2>1. <<"leave", p>> \notin spoiled' => word = leave[p].first
      BY <1>1, <1>3, <1>4 DEF StaffInv, LeaveInv, Spoils
    <2> QED BY <1>7, <1>9, <2>1 DEF LeaveTells
  <1>12. \A v \in Office : office'[v] = office[v] \/ office'[v].at # "tell"
    BY <1>5, <1>6
  <1>13. leave' \in [Person -> LeaveRow] /\ LeaveInv'
    BY <1>1, <1>9, <1>10, <1>11, <1>12, LeaveMoves
  <1>14. SalaryStill
    BY <1>1 DEF SalaryStill
  <1> QED BY <1>1, <1>5, <1>13, <1>14, SalaryStays, VacantFits, DeskGoes

LEMMA DecideLeaveKeeps ==
    ASSUME StaffInv, NEW o \in Office, DecideLeave(o)
    PROVE  StaffInv'
  <1>1. /\ StaffTypeOK /\ TasksFit /\ UNCHANGED <<account, files, salary, begun>> /\ Spoils
        /\ office[o].at = "decide" /\ office' = [office EXCEPT ![o] = Vacant]
    BY DEF DecideLeave, Doing, StaffInv, EndsStale, Spoils
  <1>2. office[o].table = "leave" /\ office[o].who \in Person /\ office[o].with \in Choice
    BY <1>1 DEF TasksFit, Fits
  <1>3. PICK p \in Person : p = office[o].who
    BY <1>2
  <1>4. PICK word \in Choice : word = office[o].with
    BY <1>2
  <1>5. Vacant.at = "idle"
    BY DEF Vacant
  <1>6. office'[o] = Vacant /\ \A v \in Office \ {o} : office'[v] = office[v]
    BY <1>1, VacantFits, TaskMoves
  <1>7. Decided(p, word)
    BY <1>3, <1>4 DEF DecideLeave, Row
  <1>8. PICK r \in LeaveRow :
            /\ leave' = [leave EXCEPT ![p] = r]
            /\ r.status = word /\ r.told = leave[p].told
            /\ r.first = IF leave[p].first = "none" THEN word ELSE leave[p].first
    BY <1>7, DecidedWrites
  <1>9. \/ <<"leave", p>> \in spoiled'
        \/ LeaveTells(leave[p]) => LeaveTells(r) /\ leave[p].first \in {"none", r.first}
    <2>1. CASE leave[p].status = "PENDING"
      BY <1>8, <2>1, FirstDecided
    <2>2. CASE leave[p].status # "PENDING"
      BY <1>2, <1>3, <2>2 DEF DecideLeave, EndsStale, Row
    <2> QED BY <2>1, <2>2
  <1>10. \A v \in Office : office'[v] = office[v] \/ office'[v].at # "tell"
    BY <1>5, <1>6
  <1>11. leave' \in [Person -> LeaveRow] /\ LeaveInv'
    BY <1>1, <1>8, <1>9, <1>10, LeaveMoves
  <1>12. SalaryStill
    BY <1>1 DEF SalaryStill
  <1> QED BY <1>1, <1>5, <1>11, <1>12, SalaryStays, VacantFits, DeskGoes

LEMMA SalaryMoves ==
    ASSUME StaffInv, Spoils, NEW p \in Person, NEW r \in SalaryRow,
           salary' = [salary EXCEPT ![p] = r],
           \/ <<"salary", p>> \in spoiled'
           \/ SalaryTells(salary[p]) => SalaryTells(r)
    PROVE  salary' \in [Person -> SalaryRow] /\ SalaryInv'
  <1>1. /\ salary' \in [Person -> SalaryRow] /\ salary'[p] = r
        /\ \A q \in Person \ {p} : salary'[q] = salary[q]
    BY DEF StaffInv, StaffTypeOK
  <1>2. \A q \in Person : <<"salary", q>> \notin spoiled' => SalaryTells(salary[q])
    BY DEF StaffInv, SalaryInv, Spoils
  <1>3. \A q \in Person : <<"salary", q>> \notin spoiled' => SalaryTells(salary'[q])
    BY <1>1, <1>2
  <1> QED BY <1>1, <1>3 DEF SalaryInv, SalaryTells

LEMMA StartPayrollKeeps ==
    ASSUME StaffInv, NEW o \in Office, NEW net \in Net, NEW keep \in BOOLEAN,
           StartPayroll(o, net, keep)
    PROVE  StaffInv'
  <1>1. /\ StaffTypeOK /\ TasksFit /\ UNCHANGED <<account, files, leave, salary>> /\ Spoils
        /\ office[o].at = "idle" /\ begun' = begun + 1
    BY DEF StartPayroll, StaffInv, Spoils
  <1>2. PICK list \in Payroll :
           list = [left |-> {p \in Person : account[p].post = "active"}, net |-> net, keep |-> keep]
    BY DEF Payroll
  <1>3. PICK t : t = [at |-> "payroll", table |-> "payroll", who |-> Everyone, with |-> list]
    OBVIOUS
  <1>4. t \in Task /\ t.at = "payroll" /\ t.table = "payroll" /\ t.with = list
    BY <1>3 DEF Task, OfficeAt, TakenAlong
  <1>5. office' = [office EXCEPT ![o] = t]
    BY <1>2, <1>3 DEF StartPayroll
  <1>6. Fits(t)
    BY <1>4 DEF Fits
  <1>7. office'[o] = t /\ \A v \in Office \ {o} : office'[v] = office[v]
    BY <1>1, <1>4, <1>5, <1>6, TaskMoves
  <1>8. LeaveStill /\ SalaryStill
    BY <1>1, <1>4, <1>7 DEF LeaveStill, SalaryStill
  <1>9. /\ leave' \in [Person -> LeaveRow] /\ LeaveInv'
        /\ salary' \in [Person -> SalaryRow] /\ SalaryInv'
    BY <1>8, LeaveStays, SalaryStays
  <1> QED BY <1>1, <1>4, <1>5, <1>6, <1>9, DeskGoes

LEMMA UpsertSalaryKeeps ==
    ASSUME StaffInv, NEW o \in Office, NEW p \in Person, UpsertSalary(o, p)
    PROVE  StaffInv'
  <1>1. /\ StaffTypeOK /\ TasksFit /\ UNCHANGED <<account, files, leave, begun>> /\ Spoils
        /\ office[o].at = "payroll"
    BY DEF UpsertSalary, Doing, StaffInv, Spoils
  <1>2. PICK list \in Payroll : list = office[o].with
    BY <1>1 DEF TasksFit, Fits
  <1>3. list.net \in Net /\ list.keep \in BOOLEAN
    BY DEF Payroll
  <1>4. PICK before \in SalaryRow : before = salary[p]
    BY <1>1 DEF StaffTypeOK
  <1>5. PICK r : r = Upserted(before, list.net, list.keep)
    OBVIOUS
  <1>6. /\ r \in SalaryRow /\ r.paid = before.paid
        /\ r.status = before.status \/ (before.status = "none" /\ r.status = "PENDING")
    <2>1. PICK net \in Net : net = list.net
      BY <1>3
    <2>2. \/ r = before \/ r = [before EXCEPT !.net = net]
          \/ before.status = "none" /\ r = [before EXCEPT !.status = "PENDING", !.net = net]
      BY <1>5, <2>1 DEF Upserted
    <2> QED BY <1>4, <2>2 DEF SalaryRow
  <1>7. salary' = [salary EXCEPT ![p] = r]
    BY <1>2, <1>4, <1>5 DEF UpsertSalary
  <1>8. SalaryTells(salary[p]) => SalaryTells(r)
    BY <1>4, <1>6 DEF SalaryTells
  <1>9. salary' \in [Person -> SalaryRow] /\ SalaryInv'
    BY <1>1, <1>6, <1>7, <1>8, SalaryMoves
  <1>10. PICK rest \in Payroll : rest = [list EXCEPT !.left = @ \ {p}]
    BY DEF Payroll
  <1>11. PICK old \in Task : old = office[o] /\ old.at = "payroll" /\ old.table = "payroll"
    BY <1>1 DEF StaffTypeOK, TasksFit, Fits
  <1>12. PICK more : more = [old EXCEPT !.with = rest]
    OBVIOUS
  <1>13. /\ more \in Task /\ more.at = "payroll" /\ more.table = "payroll" /\ more.with = rest
    BY <1>10, <1>11, <1>12 DEF Task, TakenAlong
  <1>14. PICK t \in {Vacant, more} : office' = [office EXCEPT ![o] = t]
    BY <1>2, <1>10, <1>11, <1>12 DEF UpsertSalary
  <1>15. t \in Task /\ Fits(t) /\ t.at \in {"idle", "payroll"}
    <2>1. Vacant.at = "idle"
      BY DEF Vacant
    <2>2. Fits(more)
      BY <1>13 DEF Fits
    <2>3. CASE t = Vacant
      BY <2>1, <2>3, VacantFits
    <2>4. CASE t = more
      BY <1>13, <2>2, <2>4
    <2> QED BY <1>14, <2>3, <2>4
  <1>16. office'[o] = t /\ \A v \in Office \ {o} : office'[v] = office[v]
    BY <1>1, <1>14, <1>15, TaskMoves
  <1>17. LeaveStill
    BY <1>1, <1>15, <1>16 DEF LeaveStill
  <1> QED BY <1>1, <1>9, <1>14, <1>15, <1>17, LeaveStays, DeskGoes

LEMMA PaySalaryKeeps ==
    ASSUME StaffInv, NEW o \in Office, PaySalary(o)
    PROVE  StaffInv'
  <1>1. /\ StaffTypeOK /\ TasksFit /\ UNCHANGED <<account, files, leave, begun>> /\ Spoils
        /\ office[o].at = "pay" /\ office' = [office EXCEPT ![o] = Vacant]
    BY DEF PaySalary, Doing, StaffInv, EndsStale, Spoils
  <1>2. office[o].table = "salary" /\ office[o].who \in Person
    BY <1>1 DEF TasksFit, Fits
  <1>3. PICK p \in Person : p = office[o].who
    BY <1>2
  <1>4. Vacant.at = "idle"
    BY DEF Vacant
  <1>5. office'[o] = Vacant /\ \A v \in Office \ {o} : office'[v] = office[v]
    BY <1>1, VacantFits, TaskMoves
  <1>6. PICK before \in SalaryRow : before = salary[p]
    BY <1>1 DEF StaffTypeOK
  <1>7. PICK r : r = [before EXCEPT !.status = "PAID", !.paid = @ + 1]
    OBVIOUS
  <1>8. r \in SalaryRow /\ r.status = "PAID" /\ r.paid = before.paid + 1
    <2>1. before.paid \in Nat /\ before.net \in Net \cup {0}
      BY <1>6 DEF SalaryRow
    <2>2. PICK sum \in Nat : sum = before.paid + 1
      BY <2>1, Later
    <2>3. r = [before EXCEPT !.status = "PAID", !.paid = sum]
      BY <1>7, <2>2
    <2> QED BY <1>6, <2>2, <2>3 DEF SalaryRow
  <1>9. salary' = [salary EXCEPT ![p] = r]
    BY <1>3, <1>6, <1>7, <1>1 DEF PaySalary, Row, StaffTypeOK
  <1>10. <<"salary", p>> \in spoiled' \/ (SalaryTells(salary[p]) => SalaryTells(r))
    <2>1. CASE before.status = "PAID"
      BY <1>2, <1>3, <1>6, <2>1 DEF PaySalary, EndsStale, Row
    <2>2. CASE before.status # "PAID"
      BY <1>6, <1>8, <2>2 DEF SalaryTells
    <2> QED BY <2>1, <2>2
  <1>11. salary' \in [Person -> SalaryRow] /\ SalaryInv'
    BY <1>1, <1>8, <1>9, <1>10, SalaryMoves
  <1>12. LeaveStill
    BY <1>1, <1>4, <1>5 DEF LeaveStill
  <1> QED BY <1>1, <1>4, <1>11, <1>12, LeaveStays, VacantFits, DeskGoes

-----------------------------------------------------------------------------
LEMMA StaffStarts == StaffInit => StaffInv
  <1> SUFFICES ASSUME StaffInit PROVE StaffInv
    OBVIOUS
  <1>1. \A o \in Office : office[o] = Vacant
    BY DEF StaffInit
  <1>2. Vacant.at = "idle"
    BY DEF Vacant
  <1>3. StaffTypeOK
    <2>1. NoAccount \in Account /\ NoLeave \in LeaveRow /\ NoSalary \in SalaryRow
      BY DEF NoAccount, Account, NoLeave, LeaveRow, NoSalary, SalaryRow
    <2> QED BY <2>1, VacantFits DEF StaffTypeOK, StaffInit
  <1>4. TasksFit
    BY <1>1, VacantFits DEF TasksFit
  <1>5. AccountInv
    <2>1. InOrder(NoAccount)
      BY DEF InOrder, Follows, NoAccount
    <2> QED BY <1>1, <1>2, <2>1 DEF AccountInv, Occupied, StaffInit
  <1>6. PhotoInv
    <2>1. \A p \in Person : account[p].photo = 0
      BY DEF StaffInit, NoAccount
    <2>2. begun = 0
      BY DEF StaffInit
    <2>3. \A o \in Office : ~Saving(o) /\ ~Dropping(o)
      BY <1>1, <1>2 DEF Saving, Dropping
    <2>4. \A p \in Person : /\ account[p].photo \in files \cup {0} /\ account[p].photo <= begun
                            /\ \A q \in Person : account[p].photo = account[q].photo =>
                                                  p = q \/ account[p].photo = 0
      <3>1. 0 <= 0
        OBVIOUS
      <3> QED BY <2>1, <2>2, <3>1
    <2> QED BY <2>3, <2>4 DEF PhotoInv
  <1>7. LeaveInv
    <2>1. LeaveTells(NoLeave)
      BY DEF LeaveTells, NoLeave
    <2> QED BY <1>1, <1>2, <2>1 DEF LeaveInv, StaffInit
  <1>8. SalaryInv
    BY DEF SalaryInv, SalaryTells, StaffInit, NoSalary
  <1> QED BY <1>3, <1>4, <1>5, <1>6, <1>7, <1>8 DEF StaffInv

LEMMA StaffKeeps == StaffInv /\ [StaffNext]_staffVars => StaffInv'
  <1> SUFFICES ASSUME StaffInv, [StaffNext]_staffVars PROVE StaffInv'
    OBVIOUS
  <1>1. ASSUME NEW o \in Office, NEW p \in Person, Accounts(o, p) PROVE StaffInv'
    BY <1>1, HireKeeps, CreateUserKeeps, EditStaffKeeps, EditFieldsKeeps, RemoveStaffKeeps, SavePhotoKeeps
       DEF Accounts
  <1>2. ASSUME NEW o \in Office, NEW p \in Person, Leaves(o, p) PROVE StaffInv'
    <2>1. \A d \in Decision : d \in Choice
      BY DEF Choice
    <2>2. ASSUME NEW d \in Decision, ReadLeave(o, p, d) \/ OverwriteLeave(p, d) PROVE StaffInv'
      BY <2>1, <2>2, LookKeeps, OverwriteLeaveKeeps
    <2>3. ASSUME NEW d \in Decision \cup {"CANCELLED"}, CheckLeave(o, p, d) PROVE StaffInv'
      BY <2>3, LookKeeps DEF Choice
    <2> QED BY <1>2, <2>2, <2>3, FileLeaveKeeps DEF Leaves
  <1>3. ASSUME NEW o \in Office, NEW p \in Person, CheckSalary(o, p) PROVE StaffInv'
    BY <1>3, LookKeeps DEF Choice
  <1>4. ASSUME NEW o \in Office, Statement(o) PROVE StaffInv'
    BY <1>4, CreateStaffKeeps, DropRolesKeeps, GrantRoleKeeps, LockLoginKeeps, MoveRowKeeps,
       DropOldPhotoKeeps, ClaimLeaveKeeps, NotifyStaffUserKeeps, DecideLeaveKeeps,
       UpsertSalaryKeeps, PaySalaryKeeps DEF Statement
  <1>5. CASE UNCHANGED staffVars
    <2>1. UNCHANGED <<account, files, leave, salary, office, begun, spoiled>>
      BY <1>5 DEF staffVars
    <2>2. Spoils /\ TasksFit /\ StaffTypeOK
      BY <2>1 DEF Spoils, StaffInv
    <2>3. begun' \in Nat /\ begun <= begun'
      <3>1. begun \in Nat
        BY <2>2 DEF StaffTypeOK
      <3> QED BY <2>1, <3>1, Later
    <2>4. LeaveStill /\ SalaryStill
      BY <2>1, <2>2 DEF LeaveStill, SalaryStill
    <2>5. office' \in [Office -> Task] /\ TasksFit'
      BY <2>1, <2>2 DEF StaffTypeOK, TasksFit
    <2> QED BY <2>1, <2>2, <2>3, <2>4, <2>5, LeaveStays, SalaryStays, DeskStep
  <1> QED BY <1>1, <1>2, <1>3, <1>4, <1>5, StartPayrollKeeps, CutShortKeeps DEF StaffNext

\* The staff-service, for any people, roles, salaries and requests whose
\* statements fall between each other's or fail: whoever has left cannot log in,
\* unless isActive was once written by itself, and everyone has the roles last
\* asked for, but for what crossed or was cut short; a photo is on the disk; the
\* first decision about a leave stands and was told; and a salary is paid once.
THEOREM StaffAgreesHolds == StaffSpec => []StaffAgrees
  <1>1. StaffInv => StaffAgrees
    <2> SUFFICES ASSUME StaffInv PROVE StaffAgrees
      OBVIOUS
    <2>1. LoginFollowsPost
      <3> SUFFICES ASSUME NEW p \in Person, Settled("account", p)
                   PROVE  /\ account[p].active = account[p].asked
                          /\ account[p].alone \/ account[p].login = account[p].post
        BY DEF LoginFollowsPost
      <3>1. InOrder(account[p])
        BY DEF StaffInv, AccountInv, Settled
      <3> QED BY <3>1 DEF InOrder, Follows
    <2>2. PhotoIsKept
      BY DEF StaffInv, PhotoInv, PhotoIsKept
    <2>3. FirstDecisionStands
      <3> SUFFICES ASSUME NEW p \in Person, <<"leave", p>> \notin spoiled
                   PROVE  /\ leave[p].status \in {"none", "PENDING", leave[p].first}
                          /\ leave[p].told \in {"none", leave[p].first}
        BY DEF FirstDecisionStands
      <3>1. LeaveTells(leave[p])
        BY DEF StaffInv, LeaveInv
      <3> QED BY <3>1 DEF LeaveTells
    <2>4. PaidOnce
      BY DEF StaffInv, SalaryInv, SalaryTells, PaidOnce
    <2> QED BY <2>1, <2>2, <2>3, <2>4 DEF StaffAgrees
  <1> QED BY <1>1, StaffStarts, StaffKeeps, PTL DEF StaffSpec

-----------------------------------------------------------------------------
(* Pupils: admission under the lock of the sequence, consents, erasures. *)

Late == {"roll", "login", "commit"}
Admitting == {"number", "create"} \cup Late
ErrandAt == {"idle", "photo", "withdraw", "audit", "contact", "papers", "mark"} \cup Admitting
Errands == [at : ErrandAt, kind : {"none", "admission", "photo", "consent", "erasure"},
            p : Child \cup {Nobody}, own : Nat, no : Nat, roll : Nat, login : Nat,
            line : {"none", "GRANTED", "WITHDRAWN"}, action : {"none", "COMPLETED", "REJECTED"}]
Part == {"none", "given", "erased", "again"}
FileRow == [row : {"none", "live", "gone"}, no : Nat, minted : BOOLEAN, roll : Nat, login : Nat,
            contact : Part, photo : Part, papers : Part]
ConsentRow == [status : {"none", "GRANTED", "WITHDRAWN"}, line : {"none", "GRANTED", "WITHDRAWN"}]

PupilTypeOK ==
    /\ file \in [Child -> FileRow]
    /\ counter \in Nat
    /\ holder \in Desk \cup {Nobody}
    /\ IsFiniteSet(seats) /\ seats \subseteq Nat
    /\ consent \in [Child -> ConsentRow]
    /\ erasure \in [Child -> {"none", "PENDING", "COMPLETED", "REJECTED"}]
    /\ desk \in [Desk -> Errands]

\* What a request is about, by the statement it is at.
ErrandFits(e) ==
    /\ e.at = "idle" => e.kind = "none"
    /\ e.at # "idle" => e.p \in Child
    /\ e.at \in Admitting <=> e.kind = "admission"
    /\ e.at = "create" => e.own = 0
    /\ e.at = "photo" => e.kind = "photo"
    /\ e.at \in {"withdraw", "audit"} <=> e.kind = "consent"
    /\ e.at = "withdraw" => e.line = "WITHDRAWN"
    /\ e.at = "audit" => e.line # "none"
    /\ e.at \in {"contact", "papers", "mark"} <=> e.kind = "erasure"
    /\ e.kind = "erasure" => e.action # "none"
    /\ e.at \in {"contact", "papers"} => e.action = "COMPLETED"
ErrandsFit == \A d \in Desk : ErrandFits(desk[d])

Has(d, kind, p) == desk[d].kind = kind /\ desk[d].p = p

\* Numbers are minted one at a time: whoever holds the row of the sequence has
\* the next number, a roll nobody with a minted number has, and a free login
\* unless a pupil with another number came in between.
Minted == {p \in Admitted : file[p].minted}
SmallRolls == \A r \in Rolls : r < 10
AllMinted == \A p \in Admitted : file[p].minted
AdmissionInv ==
    /\ \A d \in Desk : holder = d <=> desk[d].at \in Late /\ desk[d].own = 0
    /\ \A d \in Desk : holder = d => desk[d].no = counter + 1
    /\ \A p \in Minted : file[p].no <= counter
    /\ SmallRolls => \A p, q \in Minted : p # q => file[p].roll # file[q].roll
    /\ SmallRolls => \A d \in Desk : holder = d /\ desk[d].at \in {"login", "commit"} =>
                         \A q \in Minted : file[q].roll # desk[d].roll
    /\ AllMinted => \A d \in Desk : holder = d /\ desk[d].at = "commit" =>
                        desk[d].login \notin Logins
    /\ refused # {} => ~AllMinted
    /\ \A d \in Desk : desk[d].kind = "admission" =>
          /\ file[desk[d].p].row = "none"
          /\ \A e \in Desk : desk[e].kind = "admission" /\ desk[e].p = desk[d].p => e = d

\* A consent and its newest line agree, but for what a request has yet to write.
ConsentOf(p) ==
    <<"consent", p>> \notin blurred =>
        /\ (\A d \in Desk : ~Has(d, "consent", p)) => consent[p].line = consent[p].status
        /\ \A d \in Desk : Has(d, "consent", p) =>
              /\ desk[d].at = "audit" => desk[d].line = consent[p].status
              /\ desk[d].at = "withdraw" => consent[p].line = consent[p].status
              /\ \A e \in Desk : Has(e, "consent", p) => e = d
ConsentInv == \A p \in Child : ConsentOf(p)

\* What a completed request took away, and a rejected one left.
Intact(f) == f.contact = "given" /\ f.papers = "given"
Taken(f) == f.contact # "given" /\ f.photo # "given"
Erases(d, p) == Has(d, "erasure", p)
ErasureOf(p) ==
    /\ erasure[p] # "none" => file[p].row # "none"
    /\ erasure[p] = "COMPLETED" => Taken(file[p]) /\ file[p].papers # "given"
    /\ \A d \in Desk : Erases(d, p) =>
          /\ erasure[p] # "none"
          /\ desk[d].at \in {"papers", "mark"} /\ desk[d].action = "COMPLETED" => Taken(file[p])
          /\ desk[d].at = "mark" /\ desk[d].action = "COMPLETED" => file[p].papers # "given"
    /\ <<"erasure", p>> \notin blurred =>
          /\ (\A d \in Desk : ~Erases(d, p)) /\ file[p].row # "none"
                /\ erasure[p] \in {"none", "PENDING"} => Intact(file[p])
          /\ erasure[p] = "REJECTED" => Intact(file[p])
          /\ \A d \in Desk : Erases(d, p) =>
                /\ erasure[p] = "PENDING"
                /\ desk[d].action = "REJECTED" => Intact(file[p])
                /\ desk[d].at = "contact" => desk[d].action = "COMPLETED"
                /\ \A e \in Desk : Erases(e, p) => e = d
ErasureInv == \A p \in Child : ErasureOf(p)

PupilInv == PupilTypeOK /\ ErrandsFit /\ AdmissionInv /\ ConsentInv /\ ErasureInv

-----------------------------------------------------------------------------
(* Finite sets of numbers *)

LEMMA FilesAreFew ==
    ASSUME NEW S, NEW f, IsFiniteSet(S)
    PROVE  IsFiniteSet({f[x] : x \in S})
  <1> DEFINE T == {f[x] : x \in S}
             g == [x \in S |-> f[x]]
  <1>1. g \in Surjection(S, T)
    BY DEF Surjection
  <1> HIDE DEF g
  <1>2. IsFiniteSet(T)
    BY <1>1, FS_Surjection
  <1> QED BY <1>2

LEMMA GreatestNumber ==
    ASSUME NEW S, IsFiniteSet(S), S # {}, S \subseteq Int
    PROVE  /\ Max(S) \in S /\ \A x \in S : x <= Max(S)
           /\ Min(S) \in S /\ \A x \in S : Min(S) <= x
  <1>1. \E m \in S : \A x \in S : x <= m
    <2> DEFINE f == [x \in S |-> x]
    <2>1. \A x \in S : f[x] \in Int /\ f[x] = x
      OBVIOUS
    <2> HIDE DEF f
    <2>2. \E m \in S : \A x \in S : f[x] <= f[m]
      BY <2>1, Greatest
    <2> QED BY <2>1, <2>2
  <1>2. \E m \in S : \A x \in S : m <= x
    <2> DEFINE f == [x \in S |-> -x]
    <2>1. \A x \in S : f[x] \in Int /\ f[x] = -x
      OBVIOUS
    <2> HIDE DEF f
    <2>2. PICK m \in S : \A x \in S : f[x] <= f[m]
      BY <2>1, Greatest
    <2>3. \A x \in S : -x <= -m /\ x \in Int /\ m \in Int
      BY <2>1, <2>2
    <2>4. \A x \in S : m <= x
      BY <2>3
    <2> QED BY <2>4
  <1>3. \E m \in S : \A x \in S : m >= x
    BY <1>1
  <1>4. Max(S) \in S /\ \A x \in S : Max(S) >= x
    BY <1>3, Zenon DEF Max
  <1>5. Min(S) \in S /\ \A x \in S : Min(S) <= x
    BY <1>2, Zenon DEF Min
  <1> QED BY <1>4, <1>5

Before(m, n) == First(m) < First(n) \/ (First(m) = First(n) /\ Second(m) < Second(n))

LEMMA TextOrders ==
    /\ \A n \in Nat : First(n) \in Nat /\ Second(n) \in Nat
    /\ \A n, m \in Nat : First(m) = First(n) /\ Second(m) = Second(n) => m = n
  <1>1. \A k \in Nat : /\ k < 10 => First(k) = k /\ Second(k) = 0
                       /\ k >= 10 => First(k) = k \div 10 /\ Second(k) = 1 + (k % 10)
    BY DEF First, Second
  <1>2. \A k \in Nat : k \div 10 \in Nat /\ k % 10 \in 0 .. 9 /\ k = 10 * (k \div 10) + (k % 10)
    OBVIOUS
  <1>3. \A n, m \in Nat : n \div 10 = m \div 10 /\ n % 10 = m % 10 => m = n
    BY <1>2
  <1>4. \A k \in Nat : First(k) \in Nat /\ Second(k) \in Nat
    BY <1>1, <1>2
  <1>5. ASSUME NEW n \in Nat, NEW m \in Nat, First(m) = First(n), Second(m) = Second(n)
        PROVE  m = n
    <2>1. CASE n < 10 /\ m < 10
      BY <1>1, <1>5, <2>1
    <2>2. CASE n >= 10 /\ m >= 10
      <3>1. m \div 10 = n \div 10 /\ 1 + (m % 10) = 1 + (n % 10)
        BY <1>1, <1>5, <2>2
      <3>2. m % 10 = n % 10
        BY <1>2, <3>1
      <3> QED BY <1>3, <3>1, <3>2
    <2>3. CASE n < 10 /\ m >= 10
      BY <1>1, <1>2, <1>5, <2>3
    <2>4. CASE n >= 10 /\ m < 10
      BY <1>1, <1>2, <1>5, <2>4
    <2> QED BY <2>1, <2>2, <2>3, <2>4
  <1> QED BY <1>4, <1>5

LEMMA LastIsThere ==
    ASSUME NEW S, IsFiniteSet(S), S # {}, S \subseteq Nat
    PROVE  LastInText(S) \in S /\ \A m \in S \ {LastInText(S)} : Before(m, LastInText(S))
  <1> DEFINE f == [x \in S |-> First(x)]
             g == [x \in S |-> Second(x)]
  <1>1. \A x \in S : /\ f[x] \in Int /\ f[x] = First(x)
                     /\ g[x] \in Int /\ g[x] = Second(x)
    BY TextOrders
  <1> HIDE DEF f, g
  <1>2. PICK t \in S : \A x \in S : f[x] <= f[t]
    BY <1>1, Greatest
  <1>3. PICK T : T = {x \in S : f[x] = f[t]}
    OBVIOUS
  <1>4. IsFiniteSet(T) /\ T # {} /\ \A x \in T : g[x] \in Int
    BY <1>1, <1>2, <1>3, FS_Subset
  <1>5. PICK n \in T : \A x \in T : g[x] <= g[n]
    BY <1>4, Greatest
  <1>6. ASSUME NEW m \in S, m # n
        PROVE  First(m) < First(n) \/ (First(m) = First(n) /\ Second(m) < Second(n))
    <2>1. f[m] <= f[n] /\ f[m] \in Int /\ f[n] \in Int /\ f[m] = First(m) /\ f[n] = First(n)
      BY <1>1, <1>2, <1>3, <1>5
    <2>2. CASE f[m] = f[n]
      <3>1. g[m] <= g[n] /\ g[m] \in Int /\ g[n] \in Int /\ g[m] = Second(m) /\ g[n] = Second(n)
        BY <1>1, <1>3, <1>5, <2>2
      <3>2. Second(m) # Second(n)
        BY <1>3, <1>5, <1>6, <2>1, <2>2, TextOrders
      <3> QED BY <2>1, <2>2, <3>1, <3>2
    <2>3. CASE f[m] # f[n]
      BY <2>1, <2>3
    <2> QED BY <2>2, <2>3
  <1>7. n \in S /\ \A m \in S \ {n} : First(m) < First(n) \/ (First(m) = First(n) /\ Second(m) < Second(n))
    BY <1>3, <1>5, <1>6
  <1> QED BY <1>7, Zenon DEF LastInText, Before

\* The next roll number is new as long as all have one digit.
LEMMA RollIsNew ==
    ASSUME NEW S, IsFiniteSet(S), S \subseteq Nat
    PROVE  /\ RollAfter(S) \in Nat
           /\ (\A r \in S : r < 10) => RollAfter(S) \notin S
  <1>1. CASE S = {}
    BY <1>1 DEF RollAfter
  <1>2. CASE S # {}
    <2>0. PICK n : n = LastInText(S)
      OBVIOUS
    <2>1. n \in S /\ \A m \in S \ {n} : Before(m, n)
      BY <1>2, <2>0, LastIsThere
    <2>2. RollAfter(S) = n + 1
      BY <1>2, <2>0 DEF RollAfter
    <2>3. n \in Nat /\ n + 1 \in Nat
      BY <2>1
    <2>4. ASSUME \A r \in S : r < 10, n + 1 \in S PROVE FALSE
      <3>1. n < 10 /\ n + 1 < 10 /\ n + 1 # n
        BY <2>1, <2>3, <2>4
      <3>2. First(n) = n /\ First(n + 1) = n + 1 /\ Second(n) = 0 /\ Second(n + 1) = 0
        BY <3>1 DEF First, Second
      <3>3. First(n + 1) < First(n) \/ Second(n + 1) < Second(n)
        BY <2>1, <2>4, <3>1 DEF Before
      <3> QED BY <2>3, <3>2, <3>3
    <2> QED BY <2>2, <2>3, <2>4
  <1> QED BY <1>1, <1>2

\* The first login nobody has.
LEMMA LoginIsNew ==
    ASSUME NEW S, IsFiniteSet(S), S \subseteq Nat
    PROVE  LET n == Min((1 .. Cardinality(S) + 1) \ S) IN n \in Nat /\ n \notin S
  <1> DEFINE k == Cardinality(S) + 1
             T == 1 .. k
  <1>1. Cardinality(S) \in Nat /\ k \in Nat
    BY FS_CardinalityType
  <1>2. IsFiniteSet(T) /\ Cardinality(T) = k
    <2>1. 1 \in Int /\ k \in Int /\ ~(1 > k)
      BY <1>1
    <2> QED BY <1>1, <2>1, FS_Interval
  <1>3. T \ S # {}
    <2> SUFFICES ASSUME T \subseteq S PROVE FALSE
      OBVIOUS
    <2>1. Cardinality(T) <= Cardinality(S)
      BY FS_Subset
    <2> QED BY <1>1, <1>2, <2>1
  <1>4. IsFiniteSet(T \ S) /\ T \ S \subseteq Int
    BY <1>1, <1>2, FS_Subset
  <1>5. Min(T \ S) \in T \ S
    BY <1>3, <1>4, GreatestNumber
  <1> QED BY <1>1, <1>5

LEMMA TheRolls ==
    ASSUME PupilTypeOK
    PROVE  /\ IsFiniteSet(Rolls) /\ Rolls \subseteq Nat
           /\ IsFiniteSet(Logins) /\ Logins \subseteq Nat
  <1>1. IsFiniteSet(Admitted)
    <2>1. Admitted \in SUBSET Child
      BY DEF Admitted
    <2> QED BY <2>1, PupilsAssumption, FS_Subset
  <1> DEFINE r == [p \in Admitted |-> file[p].roll]
             l == [p \in Admitted |-> file[p].login]
  <1>2. IsFiniteSet({r[p] : p \in Admitted}) /\ IsFiniteSet({l[p] : p \in Admitted})
    BY <1>1, FilesAreFew
  <1>3. \A p \in Admitted : file[p].roll \in Nat /\ file[p].login \in Nat
    BY DEF PupilTypeOK, Admitted, FileRow
  <1>4. IsFiniteSet({file[p].roll : p \in Admitted}) /\ IsFiniteSet({file[p].login : p \in Admitted})
    BY <1>2
  <1>5. IsFiniteSet(Rolls)
    BY <1>4, FS_Union DEF Rolls, PupilTypeOK
  <1> QED BY <1>3, <1>4, <1>5 DEF Rolls, Logins, PupilTypeOK

-----------------------------------------------------------------------------
(* The request that moves, and what it leaves alone *)

LEMMA ErrandMoves ==
    ASSUME PupilTypeOK, ErrandsFit, NEW d \in Desk, NEW e \in Errands, ErrandFits(e),
           desk' = [desk EXCEPT ![d] = e]
    PROVE  /\ desk' \in [Desk -> Errands] /\ ErrandsFit'
           /\ desk'[d] = e /\ \A o \in Desk \ {d} : desk'[o] = desk[o]
  <1>1. /\ desk' \in [Desk -> Errands]
        /\ desk'[d] = e /\ \A o \in Desk \ {d} : desk'[o] = desk[o]
    BY DEF PupilTypeOK
  <1>2. \A o \in Desk : ErrandFits(desk[o])
    BY DEF ErrandsFit
  <1>3. \A o \in Desk : ErrandFits(desk'[o])
    BY <1>1, <1>2
  <1> QED BY <1>1, <1>3 DEF ErrandsFit, ErrandFits

LEMMA RestingFits == Resting \in Errands /\ ErrandFits(Resting) /\ Resting.at = "idle" /\ Resting.kind = "none"
  BY DEF Resting, Errands, ErrandFits, ErrandAt, Admitting, Late

\* Nothing of an admission is touched.
AdmissionStill ==
    /\ UNCHANGED sequence
    /\ \A p \in Child : /\ file'[p].row = "none" <=> file[p].row = "none"
                        /\ file'[p].no = file[p].no /\ file'[p].minted = file[p].minted
                        /\ file'[p].roll = file[p].roll /\ file'[p].login = file[p].login
    /\ \A o \in Desk : desk'[o] = desk[o] \/ (desk[o].kind # "admission" /\ desk'[o].kind # "admission")

\* Nothing of the consent, or of the erasure, of one pupil.
ConsentStill(p) ==
    <<"consent", p>> \notin blurred' =>
        /\ <<"consent", p>> \notin blurred /\ consent'[p] = consent[p]
        /\ \A o \in Desk : desk'[o] = desk[o] \/ ~(Has(o, "consent", p) \/ Has(o, "consent", p)')
ErasureStill(p) ==
    /\ erasure'[p] = erasure[p]
    /\ file'[p].row = "none" <=> file[p].row = "none"
    /\ file'[p].contact = "given" <=> file[p].contact = "given"
    /\ file'[p].photo = "given" <=> file[p].photo = "given"
    /\ file'[p].papers = "given" <=> file[p].papers = "given"
    /\ \A o \in Desk : desk'[o] = desk[o] \/ ~Erases(o, p)'
    /\ <<"erasure", p>> \notin blurred' =>
           /\ <<"erasure", p>> \notin blurred
           /\ \A o \in Desk : desk'[o] = desk[o] \/ ~Erases(o, p)

LEMMA AdmissionsRest == ErrandsFit /\ ErrandsFit' /\ AdmissionInv /\ AdmissionStill => AdmissionInv'
  <1> SUFFICES ASSUME ErrandsFit, ErrandsFit', AdmissionInv, AdmissionStill PROVE AdmissionInv'
    OBVIOUS
  <1>1. counter' = counter /\ holder' = holder /\ seats' = seats /\ refused' = refused
    BY DEF AdmissionStill, sequence
  <1>2. /\ Admitted' = Admitted
        /\ \A p \in Child : /\ file'[p].no = file[p].no /\ file'[p].minted = file[p].minted
                            /\ file'[p].roll = file[p].roll /\ file'[p].login = file[p].login
    BY DEF AdmissionStill, Admitted
  <1>3. Minted' = Minted /\ Minted \subseteq Child /\ Admitted \subseteq Child
    BY <1>2 DEF Minted, Admitted
  <1>4. Rolls' = Rolls /\ Logins' = Logins
    BY <1>1, <1>2, <1>3 DEF Rolls, Logins
  <1>5. (SmallRolls' <=> SmallRolls) /\ (AllMinted' <=> AllMinted)
    BY <1>2, <1>3, <1>4 DEF SmallRolls, AllMinted
  <1>6. \A o \in Desk : /\ desk[o].at \in Late <=> desk'[o].at \in Late
                        /\ desk'[o].at \in Late \/ desk'[o].kind = "admission" => desk'[o] = desk[o]
                        /\ desk[o].kind = "admission" => desk'[o] = desk[o]
                        /\ desk[o].kind = "admission" => desk[o].p \in Child
    BY DEF AdmissionStill, ErrandsFit, ErrandFits, Admitting, Late
  <1>7. /\ \A d \in Desk : holder' = d <=> desk'[d].at \in Late /\ desk'[d].own = 0
        /\ \A d \in Desk : holder' = d => desk'[d].no = counter' + 1
    BY <1>1, <1>6 DEF AdmissionInv
  <1>8. /\ \A p \in Minted' : file'[p].no <= counter'
        /\ SmallRolls' => \A p, q \in Minted' : p # q => file'[p].roll # file'[q].roll
    BY <1>1, <1>2, <1>3, <1>5 DEF AdmissionInv
  <1>9. SmallRolls' => \A d \in Desk : holder' = d /\ desk'[d].at \in {"login", "commit"} =>
                          \A q \in Minted' : file'[q].roll # desk'[d].roll
    BY <1>1, <1>2, <1>3, <1>5, <1>6 DEF AdmissionInv, Late
  <1>10. AllMinted' => \A d \in Desk : holder' = d /\ desk'[d].at = "commit" =>
                          desk'[d].login \notin Logins'
    BY <1>1, <1>4, <1>5, <1>6 DEF AdmissionInv, Late
  <1>11. refused' # {} => ~AllMinted'
    BY <1>1, <1>5 DEF AdmissionInv
  <1>12. \A d \in Desk : desk'[d].kind = "admission" =>
            /\ file'[desk'[d].p].row = "none"
            /\ \A e \in Desk : desk'[e].kind = "admission" /\ desk'[e].p = desk'[d].p => e = d
    BY <1>6 DEF AdmissionInv, AdmissionStill
  <1> QED BY <1>7, <1>8, <1>9, <1>10, <1>11, <1>12 DEF AdmissionInv

LEMMA ConsentsRest ==
    ASSUME NEW p \in Child, ConsentOf(p), ConsentStill(p)
    PROVE  ConsentOf(p)'
  <1> SUFFICES ASSUME <<"consent", p>> \notin blurred'
               PROVE  /\ (\A d \in Desk : ~Has(d, "consent", p)') => consent'[p].line = consent'[p].status
                      /\ \A d \in Desk : Has(d, "consent", p)' =>
                            /\ desk'[d].at = "audit" => desk'[d].line = consent'[p].status
                            /\ desk'[d].at = "withdraw" => consent'[p].line = consent'[p].status
                            /\ \A e \in Desk : Has(e, "consent", p)' => e = d
    BY DEF ConsentOf, Has
  <1>1. /\ (\A d \in Desk : ~Has(d, "consent", p)) => consent[p].line = consent[p].status
        /\ \A d \in Desk : Has(d, "consent", p) =>
              /\ desk[d].at = "audit" => desk[d].line = consent[p].status
              /\ desk[d].at = "withdraw" => consent[p].line = consent[p].status
              /\ \A e \in Desk : Has(e, "consent", p) => e = d
    BY DEF ConsentOf, ConsentStill
  <1>2. consent'[p] = consent[p]
    BY DEF ConsentStill
  <1>3. \A o \in Desk : /\ Has(o, "consent", p)' <=> Has(o, "consent", p)
                        /\ Has(o, "consent", p) => desk'[o] = desk[o]
    BY DEF ConsentStill, Has
  <1> QED BY <1>1, <1>2, <1>3

LEMMA ErasuresRest ==
    ASSUME NEW p \in Child, ErasureOf(p), ErasureStill(p)
    PROVE  ErasureOf(p)'
  <1>1. /\ erasure'[p] = erasure[p]
        /\ file'[p].row = "none" <=> file[p].row = "none"
        /\ Taken(file'[p]) <=> Taken(file[p])
        /\ file'[p].papers = "given" <=> file[p].papers = "given"
        /\ Intact(file'[p]) <=> Intact(file[p])
    BY DEF ErasureStill, Taken, Intact
  <1>2. \A o \in Desk : Erases(o, p)' => Erases(o, p) /\ desk'[o] = desk[o]
    BY DEF ErasureStill, Erases, Has
  <1>3. \A d \in Desk : Erases(d, p)' =>
          /\ erasure'[p] # "none"
          /\ desk'[d].at \in {"papers", "mark"} /\ desk'[d].action = "COMPLETED" => Taken(file'[p])
          /\ desk'[d].at = "mark" /\ desk'[d].action = "COMPLETED" => file'[p].papers # "given"
    BY <1>1, <1>2 DEF ErasureOf
  <1>4. ASSUME <<"erasure", p>> \notin blurred'
        PROVE  /\ (\A d \in Desk : ~Erases(d, p)') /\ file'[p].row # "none"
                     /\ erasure'[p] \in {"none", "PENDING"} => Intact(file'[p])
               /\ erasure'[p] = "REJECTED" => Intact(file'[p])
               /\ \A d \in Desk : Erases(d, p)' =>
                     /\ erasure'[p] = "PENDING"
                     /\ desk'[d].action = "REJECTED" => Intact(file'[p])
                     /\ desk'[d].at = "contact" => desk'[d].action = "COMPLETED"
                     /\ \A e \in Desk : Erases(e, p)' => e = d
    <2>1. <<"erasure", p>> \notin blurred
          /\ \A o \in Desk : Erases(o, p) => desk'[o] = desk[o]
      BY <1>4 DEF ErasureStill
    <2>2. /\ (\A d \in Desk : ~Erases(d, p)) /\ file[p].row # "none"
                   /\ erasure[p] \in {"none", "PENDING"} => Intact(file[p])
          /\ erasure[p] = "REJECTED" => Intact(file[p])
          /\ \A d \in Desk : Erases(d, p) =>
                   /\ erasure[p] = "PENDING"
                   /\ desk[d].action = "REJECTED" => Intact(file[p])
                   /\ desk[d].at = "contact" => desk[d].action = "COMPLETED"
                   /\ \A e \in Desk : Erases(e, p) => e = d
      BY <2>1 DEF ErasureOf
    <2>3. \A o \in Desk : Erases(o, p)' <=> Erases(o, p)
      BY <1>2, <2>1 DEF Erases, Has
    <2> QED BY <1>1, <1>2, <2>2, <2>3
  <1>5. /\ erasure'[p] # "none" => file'[p].row # "none"
        /\ erasure'[p] = "COMPLETED" => Taken(file'[p]) /\ file'[p].papers # "given"
    BY <1>1 DEF ErasureOf
  <1> QED BY <1>3, <1>4, <1>5 DEF ErasureOf, Erases, Has, Taken, Intact

LEMMA ErrandBegins ==
    ASSUME PupilTypeOK, ErrandsFit, NEW d \in Desk, NEW e \in Errands, ErrandFits(e),
           e.kind # "none", Asks(d, e)
    PROVE  /\ desk' \in [Desk -> Errands] /\ ErrandsFit'
           /\ desk'[d] = e /\ \A o \in Desk \ {d} : desk'[o] = desk[o]
           /\ desk[d].at = "idle" /\ desk[d].kind = "none" /\ blurred \subseteq blurred'
           /\ <<e.kind, e.p>> \notin blurred' => \A o \in Desk : ~Has(o, e.kind, e.p)
  <1>1. desk[d].at = "idle" /\ desk' = [desk EXCEPT ![d] = e]
    BY DEF Asks, Stage
  <1>2. desk[d].kind = "none"
    BY <1>1 DEF ErrandsFit, ErrandFits
  <1>3. blurred \subseteq blurred'
    BY DEF Asks
  <1>4. ASSUME <<e.kind, e.p>> \notin blurred', NEW o \in Desk, Has(o, e.kind, e.p) PROVE FALSE
    <2>1. desk[o].at # "idle"
      BY <1>4 DEF ErrandsFit, ErrandFits, Has
    <2>2. Engaged(e.kind, e.p)
      BY <1>4, <2>1 DEF Engaged, Has, Stage
    <2> QED BY <1>4, <2>2 DEF Asks
  <1> QED BY <1>1, <1>2, <1>3, <1>4, ErrandMoves

LEMMA ErrandTurns ==
    ASSUME PupilTypeOK, NEW d \in Desk, NEW pc \in ErrandAt, Turns(d, pc)
    PROVE  /\ blurred' = blurred
           /\ \E e \in Errands : /\ e.at = pc /\ e.kind = desk[d].kind /\ e.p = desk[d].p
                                 /\ e.line = desk[d].line /\ e.action = desk[d].action
                                 /\ desk' = [desk EXCEPT ![d] = e]
  <1>1. PICK e : e = [desk[d] EXCEPT !.at = pc]
    OBVIOUS
  <1>2. desk[d] \in Errands
    BY DEF PupilTypeOK
  <1>3. /\ e \in Errands /\ e.at = pc /\ e.kind = desk[d].kind /\ e.p = desk[d].p
        /\ e.line = desk[d].line /\ e.action = desk[d].action
    BY <1>1, <1>2 DEF Errands
  <1>4. desk' = [desk EXCEPT ![d] = e]
    BY <1>1 DEF Turns
  <1> QED BY <1>3, <1>4 DEF Turns

\* An errand that concerns no admission, no consent, and no erasure but p's.
Aside(e, p) == e.kind \notin {"admission", "consent"} /\ (e.kind = "erasure" => e.p = p)

LEMMA FileStep ==
    ASSUME PupilInv, UNCHANGED <<sequence, consent>>, blurred \subseteq blurred',
           file' \in [Child -> FileRow],
           erasure' \in [Child -> {"none", "PENDING", "COMPLETED", "REJECTED"}],
           desk' \in [Desk -> Errands], ErrandsFit', NEW p \in Child,
           \A o \in Desk : desk'[o] = desk[o] \/ (Aside(desk[o], p) /\ Aside(desk'[o], p)),
           \A q \in Child \ {p} : file'[q] = file[q] /\ erasure'[q] = erasure[q],
           file'[p].row = "none" <=> file[p].row = "none",
           file'[p].no = file[p].no, file'[p].minted = file[p].minted,
           file'[p].roll = file[p].roll, file'[p].login = file[p].login,
           ErasureOf(p)'
    PROVE  PupilInv'
  <1>1. PupilTypeOK /\ ErrandsFit /\ AdmissionInv /\ ConsentInv /\ ErasureInv
    BY DEF PupilInv
  <1>2. PupilTypeOK'
    BY <1>1 DEF PupilTypeOK, sequence
  <1>3. AdmissionStill
    BY DEF AdmissionStill, Aside
  <1>4. \A q \in Child : ConsentStill(q)
    BY DEF ConsentStill, Has, Aside
  <1>5. \A q \in Child \ {p} : ErasureStill(q)
    BY DEF ErasureStill, Erases, Has, Aside
  <1>6. ASSUME NEW q \in Child PROVE ConsentOf(q)'
    BY <1>1, <1>4, ConsentsRest DEF ConsentInv
  <1>7. ASSUME NEW q \in Child PROVE ErasureOf(q)'
    BY <1>1, <1>5, ErasuresRest DEF ErasureInv
  <1>8. AdmissionInv'
    BY <1>1, <1>3, AdmissionsRest
  <1> QED BY <1>2, <1>6, <1>7, <1>8 DEF PupilInv, ConsentInv, ErasureInv

LEMMA ConsentStep ==
    ASSUME PupilInv, UNCHANGED <<sequence, file, erasure>>, blurred \subseteq blurred',
           consent' \in [Child -> ConsentRow], NEW p \in Child,
           NEW d \in Desk, NEW e \in Errands, ErrandFits(e),
           desk'[d] = e, \A o \in Desk \ {d} : desk'[o] = desk[o],
           desk' \in [Desk -> Errands], ErrandsFit',
           desk[d].kind = "none" \/ Has(d, "consent", p),
           e.kind = "none" \/ (e.kind = "consent" /\ e.p = p),
           \A q \in Child \ {p} : consent'[q] = consent[q],
           ConsentOf(p)'
    PROVE  PupilInv'
  <1>1. PupilTypeOK /\ ErrandsFit /\ AdmissionInv /\ ConsentInv /\ ErasureInv
    BY DEF PupilInv
  <1>2. PupilTypeOK'
    BY <1>1 DEF PupilTypeOK, sequence
  <1>3. AdmissionStill
    BY DEF AdmissionStill, Has
  <1>4. \A q \in Child \ {p} : ConsentStill(q)
    BY DEF ConsentStill, Has
  <1>5. \A q \in Child : ErasureStill(q)
    BY DEF ErasureStill, Erases, Has
  <1>6. ASSUME NEW q \in Child PROVE ConsentOf(q)'
    BY <1>1, <1>4, ConsentsRest DEF ConsentInv
  <1>7. ASSUME NEW q \in Child PROVE ErasureOf(q)'
    BY <1>1, <1>5, ErasuresRest DEF ErasureInv
  <1>8. AdmissionInv'
    BY <1>1, <1>3, AdmissionsRest
  <1> QED BY <1>2, <1>6, <1>7, <1>8 DEF PupilInv, ConsentInv, ErasureInv

-----------------------------------------------------------------------------
(* Edits and photos *)

LEMMA EditPupilKeeps ==
    ASSUME PupilInv, NEW p \in Child, EditPupil(p)
    PROVE  PupilInv'
  <1>1. /\ UNCHANGED <<sequence, consent, erasure, desk, blurred>>
        /\ PupilTypeOK /\ ErrandsFit /\ ErasureInv
    BY DEF EditPupil, records, PupilInv
  <1>2. PICK before \in FileRow : before = file[p]
    BY <1>1 DEF PupilTypeOK
  <1>3. PICK after : after = [before EXCEPT !.contact = Written(before.contact)]
    OBVIOUS
  <1>4. /\ after \in FileRow /\ after.row = before.row /\ after.no = before.no
        /\ after.minted = before.minted /\ after.roll = before.roll /\ after.login = before.login
        /\ (after.contact = "given" <=> before.contact = "given")
        /\ after.photo = before.photo /\ after.papers = before.papers
    BY <1>3 DEF FileRow, Written, Part
  <1>5. file' = [file EXCEPT ![p] = after]
    BY <1>2, <1>3 DEF EditPupil
  <1>6. /\ file' \in [Child -> FileRow] /\ file'[p] = after
        /\ \A q \in Child \ {p} : file'[q] = file[q]
    BY <1>1, <1>4, <1>5 DEF PupilTypeOK
  <1>7. ErasureOf(p)'
    <2>1. ErasureStill(p)
      BY <1>1, <1>2, <1>4, <1>6 DEF ErasureStill
    <2> QED BY <1>1, <2>1, ErasuresRest DEF ErasureInv
  <1>8. /\ desk' \in [Desk -> Errands] /\ ErrandsFit' /\ blurred \subseteq blurred'
        /\ erasure' \in [Child -> {"none", "PENDING", "COMPLETED", "REJECTED"}]
    BY <1>1 DEF PupilTypeOK, ErrandsFit
  <1> QED BY <1>1, <1>2, <1>4, <1>6, <1>7, <1>8, FileStep

LEMMA RemovePupilKeeps ==
    ASSUME PupilInv, NEW p \in Child, RemovePupil(p)
    PROVE  PupilInv'
  <1>1. /\ UNCHANGED <<sequence, consent, erasure, desk, blurred>>
        /\ PupilTypeOK /\ ErrandsFit /\ ErasureInv
    BY DEF RemovePupil, records, PupilInv
  <1>2. PICK before \in FileRow : before = file[p] /\ before.row = "live"
    BY <1>1 DEF PupilTypeOK, RemovePupil
  <1>3. PICK after : after = [before EXCEPT !.row = "gone"]
    OBVIOUS
  <1>4. /\ after \in FileRow /\ after.row = "gone" /\ after.no = before.no
        /\ after.minted = before.minted /\ after.roll = before.roll /\ after.login = before.login
        /\ after.contact = before.contact
        /\ after.photo = before.photo /\ after.papers = before.papers
    BY <1>3 DEF FileRow
  <1>5. file' = [file EXCEPT ![p] = after]
    BY <1>2, <1>3 DEF RemovePupil
  <1>6. /\ file' \in [Child -> FileRow] /\ file'[p] = after
        /\ \A q \in Child \ {p} : file'[q] = file[q]
    BY <1>1, <1>4, <1>5 DEF PupilTypeOK
  <1>7. ErasureOf(p)'
    <2>1. ErasureStill(p)
      BY <1>1, <1>2, <1>4, <1>6 DEF ErasureStill
    <2> QED BY <1>1, <2>1, ErasuresRest DEF ErasureInv
  <1>8. /\ desk' \in [Desk -> Errands] /\ ErrandsFit' /\ blurred \subseteq blurred'
        /\ erasure' \in [Child -> {"none", "PENDING", "COMPLETED", "REJECTED"}]
    BY <1>1 DEF PupilTypeOK, ErrandsFit
  <1> QED BY <1>1, <1>2, <1>4, <1>6, <1>7, <1>8, FileStep

LEMMA StartPhotoKeeps ==
    ASSUME PupilInv, NEW d \in Desk, NEW p \in Child, StartPhoto(d, p)
    PROVE  PupilInv'
  <1>1. /\ UNCHANGED <<sequence, consent, erasure, file>>
        /\ PupilTypeOK /\ ErrandsFit /\ ErasureInv
    BY DEF StartPhoto, records, PupilInv
  <1>2. PICK e : e = Errand("photo", "photo", p)
    OBVIOUS
  <1>3. e \in Errands /\ e.kind = "photo" /\ ErrandFits(e)
    BY <1>2 DEF Errand, Resting, Errands, ErrandAt, Admitting, Late, ErrandFits
  <1>4. /\ desk' \in [Desk -> Errands] /\ ErrandsFit'
        /\ desk'[d] = e /\ \A o \in Desk \ {d} : desk'[o] = desk[o]
        /\ desk[d].at = "idle" /\ desk[d].kind = "none" /\ blurred \subseteq blurred'
    BY <1>1, <1>2, <1>3, ErrandBegins DEF StartPhoto
  <1>5. ErasureOf(p)'
    <2>1. ErasureStill(p)
      BY <1>1, <1>3, <1>4 DEF ErasureStill, Erases, Has
    <2> QED BY <1>1, <2>1, ErasuresRest DEF ErasureInv
  <1>6. \A o \in Desk : desk'[o] = desk[o] \/ (Aside(desk[o], p) /\ Aside(desk'[o], p))
    BY <1>3, <1>4 DEF Aside
  <1>7. /\ file' \in [Child -> FileRow]
        /\ erasure' \in [Child -> {"none", "PENDING", "COMPLETED", "REJECTED"}]
    BY <1>1 DEF PupilTypeOK
  <1> QED BY <1>1, <1>4, <1>5, <1>6, <1>7, FileStep

LEMMA MovePhotoKeeps ==
    ASSUME PupilInv, NEW d \in Desk, MovePhoto(d)
    PROVE  PupilInv'
  <1>1. /\ UNCHANGED <<sequence, consent, erasure, blurred>>
        /\ PupilTypeOK /\ ErrandsFit /\ ErasureInv
        /\ desk[d].at = "photo" /\ desk' = [desk EXCEPT ![d] = Resting]
    BY DEF MovePhoto, Stage, Rests, records, PupilInv
  <1>2. PICK p \in Child : p = desk[d].p
    BY <1>1 DEF ErrandsFit, ErrandFits
  <1>3. desk[d].kind = "photo"
    BY <1>1 DEF ErrandsFit, ErrandFits
  <1>4. /\ desk' \in [Desk -> Errands] /\ ErrandsFit'
        /\ desk'[d] = Resting /\ \A o \in Desk \ {d} : desk'[o] = desk[o]
    BY <1>1, RestingFits, ErrandMoves
  <1>5. PICK before \in FileRow : before = file[p]
    BY <1>1 DEF PupilTypeOK
  <1>6. PICK after : after = [before EXCEPT !.photo = Written(before.photo)]
    OBVIOUS
  <1>7. /\ after \in FileRow /\ after.row = before.row /\ after.no = before.no
        /\ after.minted = before.minted /\ after.roll = before.roll /\ after.login = before.login
        /\ after.contact = before.contact /\ after.papers = before.papers
        /\ (after.photo = "given" <=> before.photo = "given")
    BY <1>6 DEF FileRow, Written, Part
  <1>8. file' = [file EXCEPT ![p] = after]
    BY <1>2, <1>5, <1>6 DEF MovePhoto, Subject
  <1>9. /\ file' \in [Child -> FileRow] /\ file'[p] = after
        /\ \A q \in Child \ {p} : file'[q] = file[q]
    BY <1>1, <1>7, <1>8 DEF PupilTypeOK
  <1>10. ErasureOf(p)'
    <2>1. ErasureStill(p)
      BY <1>1, <1>3, <1>4, <1>5, <1>7, <1>9, RestingFits DEF ErasureStill, Erases, Has
    <2> QED BY <1>1, <2>1, ErasuresRest DEF ErasureInv
  <1>11. \A o \in Desk : desk'[o] = desk[o] \/ (Aside(desk[o], p) /\ Aside(desk'[o], p))
    BY <1>3, <1>4, RestingFits DEF Aside
  <1>12. /\ erasure' \in [Child -> {"none", "PENDING", "COMPLETED", "REJECTED"}]
         /\ blurred \subseteq blurred'
    BY <1>1 DEF PupilTypeOK
  <1> QED BY <1>1, <1>4, <1>5, <1>7, <1>9, <1>10, <1>11, <1>12, FileStep

-----------------------------------------------------------------------------
(* Consents *)

LEMMA GrantConsentKeeps ==
    ASSUME PupilInv, NEW d \in Desk, NEW p \in Child, GrantConsent(d, p)
    PROVE  PupilInv'
  <1>1. UNCHANGED <<sequence, file, erasure>> /\ PupilTypeOK /\ ErrandsFit
    BY DEF GrantConsent, PupilInv
  <1>2. PICK e : e = [Errand("audit", "consent", p) EXCEPT !.line = "GRANTED"]
    OBVIOUS
  <1>3. /\ e \in Errands /\ e.kind = "consent" /\ e.at = "audit" /\ e.p = p /\ e.line = "GRANTED"
        /\ ErrandFits(e)
    BY <1>2 DEF Errand, Resting, Errands, ErrandAt, Admitting, Late, ErrandFits
  <1>4. Asks(d, e)
    BY <1>2 DEF GrantConsent
  <1>5. /\ desk' \in [Desk -> Errands] /\ ErrandsFit'
        /\ desk'[d] = e /\ \A o \in Desk \ {d} : desk'[o] = desk[o]
        /\ desk[d].at = "idle" /\ desk[d].kind = "none" /\ blurred \subseteq blurred'
        /\ <<"consent", p>> \notin blurred' => \A o \in Desk : ~Has(o, "consent", p)
    BY <1>1, <1>3, <1>4, ErrandBegins
  <1>6. PICK before \in ConsentRow : before = consent[p]
    BY <1>1 DEF PupilTypeOK
  <1>7. PICK after : after = [before EXCEPT !.status = "GRANTED"]
    OBVIOUS
  <1>8. after \in ConsentRow /\ after.status = "GRANTED"
    BY <1>7 DEF ConsentRow
  <1>9. consent' = [consent EXCEPT ![p] = after]
    BY <1>6, <1>7 DEF GrantConsent
  <1>10. /\ consent' \in [Child -> ConsentRow] /\ consent'[p] = after
         /\ \A q \in Child \ {p} : consent'[q] = consent[q]
    BY <1>1, <1>8, <1>9 DEF PupilTypeOK
  <1>11. ConsentOf(p)'
    BY <1>3, <1>5, <1>8, <1>10 DEF ConsentOf, Has
  <1> QED BY <1>1, <1>3, <1>5, <1>10, <1>11, ConsentStep

LEMMA CheckConsentKeeps ==
    ASSUME PupilInv, NEW d \in Desk, NEW p \in Child, CheckConsent(d, p)
    PROVE  PupilInv'
  <1>1. UNCHANGED <<sequence, file, consent, erasure>> /\ PupilTypeOK /\ ErrandsFit /\ ConsentInv
    BY DEF CheckConsent, PupilInv, records
  <1>2. PICK e : e = [Errand("withdraw", "consent", p) EXCEPT !.line = "WITHDRAWN"]
    OBVIOUS
  <1>3. /\ e \in Errands /\ e.kind = "consent" /\ e.at = "withdraw" /\ e.p = p /\ ErrandFits(e)
    BY <1>2 DEF Errand, Resting, Errands, ErrandAt, Admitting, Late, ErrandFits
  <1>4. Asks(d, e)
    BY <1>2 DEF CheckConsent
  <1>5. /\ desk' \in [Desk -> Errands] /\ ErrandsFit'
        /\ desk'[d] = e /\ \A o \in Desk \ {d} : desk'[o] = desk[o]
        /\ desk[d].at = "idle" /\ desk[d].kind = "none" /\ blurred \subseteq blurred'
        /\ <<"consent", p>> \notin blurred' => \A o \in Desk : ~Has(o, "consent", p)
    BY <1>1, <1>3, <1>4, ErrandBegins
  <1>6. ConsentOf(p)
    BY <1>1 DEF ConsentInv
  <1>7. ConsentOf(p)'
    BY <1>1, <1>3, <1>5, <1>6 DEF ConsentOf, Has
  <1>8. consent' \in [Child -> ConsentRow]
    BY <1>1 DEF PupilTypeOK
  <1> QED BY <1>1, <1>3, <1>5, <1>7, <1>8, ConsentStep

LEMMA WithdrawConsentKeeps ==
    ASSUME PupilInv, NEW d \in Desk, WithdrawConsent(d)
    PROVE  PupilInv'
  <1>1. /\ UNCHANGED <<sequence, file, erasure>> /\ PupilTypeOK /\ ErrandsFit /\ ConsentInv
        /\ desk[d].at = "withdraw"
    BY DEF WithdrawConsent, Stage, PupilInv
  <1>2. PICK p \in Child : p = desk[d].p
    BY <1>1 DEF ErrandsFit, ErrandFits
  <1>3. desk[d].kind = "consent" /\ desk[d].line = "WITHDRAWN" /\ Has(d, "consent", p)
    BY <1>1, <1>2 DEF ErrandsFit, ErrandFits, Has
  <1>4. blurred' = blurred /\ \E e \in Errands : /\ e.at = "audit" /\ e.kind = desk[d].kind
                                                  /\ e.p = desk[d].p /\ e.line = desk[d].line
                                                  /\ e.action = desk[d].action
                                                  /\ desk' = [desk EXCEPT ![d] = e]
    <2>1. Turns(d, "audit") /\ "audit" \in ErrandAt
      BY DEF WithdrawConsent, ErrandAt
    <2> QED BY <1>1, <2>1, ErrandTurns
  <1>5. PICK e \in Errands : /\ e.at = "audit" /\ e.kind = "consent" /\ e.p = p
                             /\ e.line = "WITHDRAWN" /\ desk' = [desk EXCEPT ![d] = e]
    BY <1>2, <1>3, <1>4
  <1>6. ErrandFits(e)
    BY <1>2, <1>5 DEF ErrandFits, Admitting, Late
  <1>7. /\ desk' \in [Desk -> Errands] /\ ErrandsFit'
        /\ desk'[d] = e /\ \A o \in Desk \ {d} : desk'[o] = desk[o]
    BY <1>1, <1>5, <1>6, ErrandMoves
  <1>8. PICK before \in ConsentRow : before = consent[p]
    BY <1>1 DEF PupilTypeOK
  <1>9. PICK after : after = [before EXCEPT !.status = "WITHDRAWN"]
    OBVIOUS
  <1>10. after \in ConsentRow /\ after.status = "WITHDRAWN"
    BY <1>9 DEF ConsentRow
  <1>11. consent' = [consent EXCEPT ![p] = after]
    BY <1>2, <1>8, <1>9 DEF WithdrawConsent, Subject
  <1>12. /\ consent' \in [Child -> ConsentRow] /\ consent'[p] = after
         /\ \A q \in Child \ {p} : consent'[q] = consent[q]
    BY <1>1, <1>10, <1>11 DEF PupilTypeOK
  <1>13. ConsentOf(p)
    BY <1>1 DEF ConsentInv
  <1>14. ConsentOf(p)'
    BY <1>3, <1>4, <1>5, <1>7, <1>10, <1>12, <1>13 DEF ConsentOf, Has
  <1>15. blurred \subseteq blurred'
    BY <1>4
  <1> QED BY <1>1, <1>3, <1>5, <1>6, <1>7, <1>12, <1>14, <1>15, ConsentStep

LEMMA AuditKeeps ==
    ASSUME PupilInv, NEW d \in Desk, Audit(d)
    PROVE  PupilInv'
  <1>1. /\ UNCHANGED <<sequence, file, erasure, blurred>> /\ PupilTypeOK /\ ErrandsFit /\ ConsentInv
        /\ desk[d].at = "audit" /\ desk' = [desk EXCEPT ![d] = Resting]
    BY DEF Audit, Stage, Rests, PupilInv
  <1>2. PICK p \in Child : p = desk[d].p
    BY <1>1 DEF ErrandsFit, ErrandFits
  <1>3. desk[d].kind = "consent" /\ Has(d, "consent", p)
    BY <1>1, <1>2 DEF ErrandsFit, ErrandFits, Has
  <1>4. /\ desk' \in [Desk -> Errands] /\ ErrandsFit'
        /\ desk'[d] = Resting /\ \A o \in Desk \ {d} : desk'[o] = desk[o]
    BY <1>1, RestingFits, ErrandMoves
  <1>5. PICK before \in ConsentRow : before = consent[p]
    BY <1>1 DEF PupilTypeOK
  <1>6. PICK line \in {"none", "GRANTED", "WITHDRAWN"} : line = desk[d].line
    BY <1>1 DEF PupilTypeOK, Errands
  <1>7. PICK after : after = [before EXCEPT !.line = line]
    OBVIOUS
  <1>8. after \in ConsentRow /\ after.status = before.status /\ after.line = line
    BY <1>7 DEF ConsentRow
  <1>9. consent' = [consent EXCEPT ![p] = after]
    BY <1>2, <1>5, <1>6, <1>7 DEF Audit, Subject
  <1>10. /\ consent' \in [Child -> ConsentRow] /\ consent'[p] = after
         /\ \A q \in Child \ {p} : consent'[q] = consent[q]
    BY <1>1, <1>8, <1>9 DEF PupilTypeOK
  <1>11. ConsentOf(p)
    BY <1>1 DEF ConsentInv
  <1>12. ConsentOf(p)'
    <2>1. <<"consent", p>> \notin blurred' => \A o \in Desk : ~Has(o, "consent", p)'
      BY <1>1, <1>3, <1>4, <1>11, RestingFits DEF ConsentOf, Has
    <2>2. <<"consent", p>> \notin blurred' => consent'[p].line = consent'[p].status
      BY <1>1, <1>3, <1>5, <1>6, <1>8, <1>10, <1>11 DEF ConsentOf
    <2> QED BY <2>1, <2>2 DEF ConsentOf, Has
  <1>13. blurred \subseteq blurred'
    BY <1>1
  <1> QED BY <1>1, <1>3, <1>4, <1>10, <1>12, <1>13, RestingFits, ConsentStep

-----------------------------------------------------------------------------
(* Erasures *)

LEMMA FileErasureKeeps ==
    ASSUME PupilInv, NEW p \in Child, FileErasure(p)
    PROVE  PupilInv'
  <1>1. /\ UNCHANGED <<sequence, consent, file, desk, blurred>>
        /\ PupilTypeOK /\ ErrandsFit /\ ErasureInv
        /\ file[p].row # "none" /\ erasure[p] = "none"
        /\ erasure' = [erasure EXCEPT ![p] = "PENDING"]
    BY DEF FileErasure, PupilInv
  <1>2. /\ erasure' \in [Child -> {"none", "PENDING", "COMPLETED", "REJECTED"}]
        /\ erasure'[p] = "PENDING" /\ \A q \in Child \ {p} : erasure'[q] = erasure[q]
    BY <1>1 DEF PupilTypeOK
  <1>3. /\ desk' \in [Desk -> Errands] /\ ErrandsFit' /\ blurred \subseteq blurred'
        /\ file' \in [Child -> FileRow]
    BY <1>1 DEF PupilTypeOK, ErrandsFit
  <1>4. ErasureOf(p)'
    BY <1>1, <1>2 DEF ErasureInv, ErasureOf, Erases, Has
  <1> QED BY <1>1, <1>2, <1>3, <1>4, FileStep

LEMMA CheckErasureKeeps ==
    ASSUME PupilInv, NEW d \in Desk, NEW p \in Child, NEW action \in {"COMPLETED", "REJECTED"},
           CheckErasure(d, p, action)
    PROVE  PupilInv'
  <1>1. /\ UNCHANGED <<sequence, consent, erasure, file>>
        /\ PupilTypeOK /\ ErrandsFit /\ ErasureInv /\ erasure[p] = "PENDING"
    BY DEF CheckErasure, records, PupilInv
  <1>2. PICK pc : pc = IF action = "COMPLETED" THEN "contact" ELSE "mark"
    OBVIOUS
  <1>3. PICK e : e = [Errand(pc, "erasure", p) EXCEPT !.action = action]
    OBVIOUS
  <1>4. /\ e \in Errands /\ e.kind = "erasure" /\ e.at = pc /\ e.p = p /\ e.action = action
        /\ ErrandFits(e)
    BY <1>2, <1>3 DEF Errand, Resting, Errands, ErrandAt, Admitting, Late, ErrandFits
  <1>5. Asks(d, e)
    BY <1>2, <1>3 DEF CheckErasure
  <1>6. /\ desk' \in [Desk -> Errands] /\ ErrandsFit'
        /\ desk'[d] = e /\ \A o \in Desk \ {d} : desk'[o] = desk[o]
        /\ desk[d].at = "idle" /\ desk[d].kind = "none" /\ blurred \subseteq blurred'
        /\ <<"erasure", p>> \notin blurred' => \A o \in Desk : ~Has(o, "erasure", p)
    BY <1>1, <1>4, <1>5, ErrandBegins
  <1>7. ErasureOf(p)
    BY <1>1 DEF ErasureInv
  <1>8. ErasureOf(p)'
    BY <1>1, <1>2, <1>4, <1>6, <1>7 DEF ErasureOf, Erases, Has
  <1>9. \A o \in Desk : desk'[o] = desk[o] \/ (Aside(desk[o], p) /\ Aside(desk'[o], p))
    BY <1>4, <1>6 DEF Aside
  <1>10. /\ file' \in [Child -> FileRow]
         /\ erasure' \in [Child -> {"none", "PENDING", "COMPLETED", "REJECTED"}]
    BY <1>1 DEF PupilTypeOK
  <1> QED BY <1>1, <1>6, <1>8, <1>9, <1>10, FileStep

LEMMA EraseContactKeeps ==
    ASSUME PupilInv, NEW d \in Desk, EraseContact(d)
    PROVE  PupilInv'
  <1>1. /\ UNCHANGED <<sequence, consent, erasure>> /\ PupilTypeOK /\ ErrandsFit /\ ErasureInv
        /\ desk[d].at = "contact"
    BY DEF EraseContact, Stage, records, PupilInv
  <1>2. PICK p \in Child : p = desk[d].p
    BY <1>1 DEF ErrandsFit, ErrandFits
  <1>3. desk[d].kind = "erasure" /\ desk[d].action = "COMPLETED" /\ Erases(d, p)
    BY <1>1, <1>2 DEF ErrandsFit, ErrandFits, Erases, Has
  <1>4. blurred' = blurred /\ \E e \in Errands : /\ e.at = "papers" /\ e.kind = desk[d].kind
                                                  /\ e.p = desk[d].p /\ e.line = desk[d].line
                                                  /\ e.action = desk[d].action
                                                  /\ desk' = [desk EXCEPT ![d] = e]
    <2>1. Turns(d, "papers") /\ "papers" \in ErrandAt
      BY DEF EraseContact, ErrandAt
    <2> QED BY <1>1, <2>1, ErrandTurns
  <1>5. PICK e \in Errands : /\ e.at = "papers" /\ e.kind = "erasure" /\ e.p = p
                             /\ e.action = "COMPLETED" /\ desk' = [desk EXCEPT ![d] = e]
    BY <1>2, <1>3, <1>4
  <1>6. ErrandFits(e)
    BY <1>2, <1>5 DEF ErrandFits, Admitting, Late
  <1>7. /\ desk' \in [Desk -> Errands] /\ ErrandsFit'
        /\ desk'[d] = e /\ \A o \in Desk \ {d} : desk'[o] = desk[o]
    BY <1>1, <1>5, <1>6, ErrandMoves
  <1>8. PICK before \in FileRow : before = file[p]
    BY <1>1 DEF PupilTypeOK
  <1>9. PICK after : after = [before EXCEPT !.contact = "erased", !.photo = "erased"]
    OBVIOUS
  <1>10. /\ after \in FileRow /\ after.row = before.row /\ after.no = before.no
         /\ after.minted = before.minted /\ after.roll = before.roll /\ after.login = before.login
         /\ after.contact = "erased" /\ after.photo = "erased" /\ after.papers = before.papers
    BY <1>9 DEF FileRow, Part
  <1>11. file' = [file EXCEPT ![p] = after]
    BY <1>2, <1>8, <1>9 DEF EraseContact, Subject
  <1>12. /\ file' \in [Child -> FileRow] /\ file'[p] = after
         /\ \A q \in Child \ {p} : file'[q] = file[q]
    BY <1>1, <1>10, <1>11 DEF PupilTypeOK
  <1>13. ErasureOf(p)'
    <2>1. ErasureOf(p)
      BY <1>1 DEF ErasureInv
    <2>2. \A o \in Desk : Erases(o, p)' <=> Erases(o, p)
      BY <1>3, <1>5, <1>7 DEF Erases, Has
    <2>3. /\ Taken(file'[p])
          /\ (file'[p].papers = "given" => file[p].papers = "given")
          
      BY <1>1, <1>3, <1>8, <1>10, <1>12, <2>1 DEF Taken, ErasureOf
    <2>4. /\ erasure'[p] # "none" => file'[p].row # "none"
          /\ erasure'[p] = "COMPLETED" => Taken(file'[p]) /\ file'[p].papers # "given"
      BY <1>1, <1>8, <1>10, <1>12, <2>1, <2>3 DEF ErasureOf
    <2>5. \A o \in Desk : Erases(o, p)' =>
            /\ erasure'[p] # "none"
            /\ desk'[o].at \in {"papers", "mark"} /\ desk'[o].action = "COMPLETED" => Taken(file'[p])
            /\ desk'[o].at = "mark" /\ desk'[o].action = "COMPLETED" => file'[p].papers # "given"
      BY <1>1, <1>5, <1>7, <2>1, <2>2, <2>3 DEF ErasureOf
    <2>6. ASSUME <<"erasure", p>> \notin blurred'
          PROVE  /\ erasure'[p] = "PENDING"
                 /\ \A o \in Desk : Erases(o, p)' =>
                       /\ desk'[o].action = "COMPLETED"
                       /\ \A e2 \in Desk : Erases(e2, p)' => e2 = o
      <3>1. <<"erasure", p>> \notin blurred
        BY <1>4, <2>6
      <3>2. erasure[p] = "PENDING" /\ \A o \in Desk : Erases(o, p) => o = d
        BY <1>3, <2>1, <3>1 DEF ErasureOf
      <3> QED BY <1>1, <1>5, <1>7, <2>2, <3>2
    <2>7. Erases(d, p)'
      BY <1>3, <2>2
    <2> QED BY <2>4, <2>5, <2>6, <2>7 DEF ErasureOf, Erases, Has
  <1>14. \A o \in Desk : desk'[o] = desk[o] \/ (Aside(desk[o], p) /\ Aside(desk'[o], p))
    BY <1>2, <1>3, <1>5, <1>7 DEF Aside
  <1>15. /\ erasure' \in [Child -> {"none", "PENDING", "COMPLETED", "REJECTED"}]
         /\ blurred \subseteq blurred'
    BY <1>1, <1>4 DEF PupilTypeOK
  <1>16. /\ (file'[p].row = "none" <=> file[p].row = "none")
         /\ file'[p].no = file[p].no /\ file'[p].minted = file[p].minted
         /\ file'[p].roll = file[p].roll /\ file'[p].login = file[p].login
    BY <1>8, <1>10, <1>12
  <1> QED BY <1>1, <1>7, <1>12, <1>13, <1>14, <1>15, <1>16, FileStep

LEMMA ErasePapersKeeps ==
    ASSUME PupilInv, NEW d \in Desk, ErasePapers(d)
    PROVE  PupilInv'
  <1>1. /\ UNCHANGED <<sequence, consent, erasure>> /\ PupilTypeOK /\ ErrandsFit /\ ErasureInv
        /\ desk[d].at = "papers"
    BY DEF ErasePapers, Stage, records, PupilInv
  <1>2. PICK p \in Child : p = desk[d].p
    BY <1>1 DEF ErrandsFit, ErrandFits
  <1>3. desk[d].kind = "erasure" /\ desk[d].action = "COMPLETED" /\ Erases(d, p)
    BY <1>1, <1>2 DEF ErrandsFit, ErrandFits, Erases, Has
  <1>4. blurred' = blurred /\ \E e \in Errands : /\ e.at = "mark" /\ e.kind = desk[d].kind
                                                  /\ e.p = desk[d].p /\ e.line = desk[d].line
                                                  /\ e.action = desk[d].action
                                                  /\ desk' = [desk EXCEPT ![d] = e]
    <2>1. Turns(d, "mark") /\ "mark" \in ErrandAt
      BY DEF ErasePapers, ErrandAt
    <2> QED BY <1>1, <2>1, ErrandTurns
  <1>5. PICK e \in Errands : /\ e.at = "mark" /\ e.kind = "erasure" /\ e.p = p
                             /\ e.action = "COMPLETED" /\ desk' = [desk EXCEPT ![d] = e]
    BY <1>2, <1>3, <1>4
  <1>6. ErrandFits(e)
    BY <1>2, <1>5 DEF ErrandFits, Admitting, Late
  <1>7. /\ desk' \in [Desk -> Errands] /\ ErrandsFit'
        /\ desk'[d] = e /\ \A o \in Desk \ {d} : desk'[o] = desk[o]
    BY <1>1, <1>5, <1>6, ErrandMoves
  <1>8. PICK before \in FileRow : before = file[p]
    BY <1>1 DEF PupilTypeOK
  <1>9. PICK after : after = [before EXCEPT !.papers = "erased"]
    OBVIOUS
  <1>10. /\ after \in FileRow /\ after.row = before.row /\ after.no = before.no
         /\ after.minted = before.minted /\ after.roll = before.roll /\ after.login = before.login
         /\ after.contact = before.contact /\ after.photo = before.photo /\ after.papers = "erased"
    BY <1>9 DEF FileRow, Part
  <1>11. file' = [file EXCEPT ![p] = after]
    BY <1>2, <1>8, <1>9 DEF ErasePapers, Subject
  <1>12. /\ file' \in [Child -> FileRow] /\ file'[p] = after
         /\ \A q \in Child \ {p} : file'[q] = file[q]
    BY <1>1, <1>10, <1>11 DEF PupilTypeOK
  <1>13. ErasureOf(p)'
    <2>1. ErasureOf(p)
      BY <1>1 DEF ErasureInv
    <2>2. \A o \in Desk : Erases(o, p)' <=> Erases(o, p)
      BY <1>3, <1>5, <1>7 DEF Erases, Has
    <2>3. /\ Taken(file'[p])
          /\ (file'[p].papers = "given" => file[p].papers = "given")
          /\ file'[p].papers # "given"
      BY <1>1, <1>3, <1>8, <1>10, <1>12, <2>1 DEF Taken, ErasureOf
    <2>4. /\ erasure'[p] # "none" => file'[p].row # "none"
          /\ erasure'[p] = "COMPLETED" => Taken(file'[p]) /\ file'[p].papers # "given"
      BY <1>1, <1>8, <1>10, <1>12, <2>1, <2>3 DEF ErasureOf
    <2>5. \A o \in Desk : Erases(o, p)' =>
            /\ erasure'[p] # "none"
            /\ desk'[o].at \in {"papers", "mark"} /\ desk'[o].action = "COMPLETED" => Taken(file'[p])
            /\ desk'[o].at = "mark" /\ desk'[o].action = "COMPLETED" => file'[p].papers # "given"
      BY <1>1, <1>5, <1>7, <2>1, <2>2, <2>3 DEF ErasureOf
    <2>6. ASSUME <<"erasure", p>> \notin blurred'
          PROVE  /\ erasure'[p] = "PENDING"
                 /\ \A o \in Desk : Erases(o, p)' =>
                       /\ desk'[o].action = "COMPLETED"
                       /\ \A e2 \in Desk : Erases(e2, p)' => e2 = o
      <3>1. <<"erasure", p>> \notin blurred
        BY <1>4, <2>6
      <3>2. erasure[p] = "PENDING" /\ \A o \in Desk : Erases(o, p) => o = d
        BY <1>3, <2>1, <3>1 DEF ErasureOf
      <3> QED BY <1>1, <1>5, <1>7, <2>2, <3>2
    <2>7. Erases(d, p)'
      BY <1>3, <2>2
    <2> QED BY <2>4, <2>5, <2>6, <2>7 DEF ErasureOf, Erases, Has
  <1>14. \A o \in Desk : desk'[o] = desk[o] \/ (Aside(desk[o], p) /\ Aside(desk'[o], p))
    BY <1>2, <1>3, <1>5, <1>7 DEF Aside
  <1>15. /\ erasure' \in [Child -> {"none", "PENDING", "COMPLETED", "REJECTED"}]
         /\ blurred \subseteq blurred'
    BY <1>1, <1>4 DEF PupilTypeOK
  <1>16. /\ (file'[p].row = "none" <=> file[p].row = "none")
         /\ file'[p].no = file[p].no /\ file'[p].minted = file[p].minted
         /\ file'[p].roll = file[p].roll /\ file'[p].login = file[p].login
    BY <1>8, <1>10, <1>12
  <1> QED BY <1>1, <1>7, <1>12, <1>13, <1>14, <1>15, <1>16, FileStep

LEMMA MarkErasureKeeps ==
    ASSUME PupilInv, NEW d \in Desk, MarkErasure(d)
    PROVE  PupilInv'
  <1>1. /\ UNCHANGED <<sequence, consent, file, blurred>> /\ PupilTypeOK /\ ErrandsFit /\ ErasureInv
        /\ desk[d].at = "mark" /\ desk' = [desk EXCEPT ![d] = Resting]
    BY DEF MarkErasure, Stage, Rests, PupilInv
  <1>2. PICK p \in Child : p = desk[d].p
    BY <1>1 DEF ErrandsFit, ErrandFits
  <1>3. PICK action \in {"COMPLETED", "REJECTED"} : action = desk[d].action
    BY <1>1 DEF PupilTypeOK, Errands, ErrandsFit, ErrandFits
  <1>4. desk[d].kind = "erasure" /\ Erases(d, p)
    BY <1>1, <1>2 DEF ErrandsFit, ErrandFits, Erases, Has
  <1>5. /\ desk' \in [Desk -> Errands] /\ ErrandsFit'
        /\ desk'[d] = Resting /\ \A o \in Desk \ {d} : desk'[o] = desk[o]
    BY <1>1, RestingFits, ErrandMoves
  <1>6. erasure' = [erasure EXCEPT ![p] = action]
    BY <1>2, <1>3 DEF MarkErasure, Subject
  <1>7. /\ erasure' \in [Child -> {"none", "PENDING", "COMPLETED", "REJECTED"}]
        /\ erasure'[p] = action /\ \A q \in Child \ {p} : erasure'[q] = erasure[q]
    BY <1>1, <1>6 DEF PupilTypeOK
  <1>8. ErasureOf(p)'
    <2>1. ErasureOf(p)
      BY <1>1 DEF ErasureInv
    <2>2. \A o \in Desk : Erases(o, p)' => Erases(o, p) /\ o # d /\ desk'[o] = desk[o]
      BY <1>5, RestingFits DEF Erases, Has
    <2>3. file[p].row # "none" /\ (action = "COMPLETED" => Taken(file[p]) /\ file[p].papers # "given")
      BY <1>1, <1>3, <1>4, <2>1 DEF ErasureOf
    <2>4. ASSUME <<"erasure", p>> \notin blurred
          PROVE  /\ action = "REJECTED" => Intact(file[p])
                 /\ \A o \in Desk : ~Erases(o, p)'
      BY <1>1, <1>3, <1>4, <2>1, <2>2, <2>4 DEF ErasureOf
    <2>5. \A o \in Desk : Erases(o, p)' =>
            /\ desk'[o].at \in {"papers", "mark"} /\ desk'[o].action = "COMPLETED" => Taken(file[p])
            /\ desk'[o].at = "mark" /\ desk'[o].action = "COMPLETED" => file[p].papers # "given"
      BY <2>1, <2>2 DEF ErasureOf
    <2>6. file' = file /\ blurred' = blurred /\ erasure'[p] \in {"COMPLETED", "REJECTED"}
          /\ erasure'[p] = action
      BY <1>1, <1>7
    <2> QED BY <2>3, <2>4, <2>5, <2>6 DEF ErasureOf, Erases, Has
  <1>9. \A o \in Desk : desk'[o] = desk[o] \/ (Aside(desk[o], p) /\ Aside(desk'[o], p))
    BY <1>2, <1>4, <1>5, RestingFits DEF Aside
  <1>10. file' \in [Child -> FileRow] /\ blurred \subseteq blurred'
    BY <1>1 DEF PupilTypeOK
  <1> QED BY <1>1, <1>5, <1>7, <1>8, <1>9, <1>10, FileStep

-----------------------------------------------------------------------------
(* Admissions *)

\* A statement of an admission leaves consents and erasures alone.
LEMMA AdmissionStep ==
    ASSUME PupilInv, UNCHANGED <<file, consent, erasure, seats>>, blurred \subseteq blurred',
           counter' \in Nat, holder' \in Desk \cup {Nobody},
           desk' \in [Desk -> Errands], ErrandsFit',
           \A o \in Desk : desk'[o] = desk[o] \/ /\ desk[o].kind \notin {"consent", "erasure"}
                                                 /\ desk'[o].kind \notin {"consent", "erasure"},
           AdmissionInv'
    PROVE  PupilInv'
  <1>1. PupilTypeOK /\ ConsentInv /\ ErasureInv
    BY DEF PupilInv
  <1>2. PupilTypeOK'
    BY <1>1 DEF PupilTypeOK
  <1>3. \A q \in Child : ConsentStill(q)
    BY DEF ConsentStill, Has
  <1>4. \A q \in Child : ErasureStill(q)
    BY DEF ErasureStill, Erases, Has
  <1>5. ASSUME NEW q \in Child PROVE ConsentOf(q)'
    BY <1>1, <1>3, ConsentsRest DEF ConsentInv
  <1>6. ASSUME NEW q \in Child PROVE ErasureOf(q)'
    BY <1>1, <1>4, ErasuresRest DEF ErasureInv
  <1> QED BY <1>2, <1>5, <1>6 DEF PupilInv, ConsentInv, ErasureInv

\* What holds of the numbers does not change while no file does.
LEMMA NumbersRest ==
    ASSUME UNCHANGED <<file, seats>>
    PROVE  /\ Admitted' = Admitted /\ Minted' = Minted /\ Rolls' = Rolls /\ Logins' = Logins
           /\ (SmallRolls' <=> SmallRolls) /\ (AllMinted' <=> AllMinted)
  <1>1. Admitted' = Admitted
    BY DEF Admitted
  <1>2. Minted' = Minted /\ Rolls' = Rolls /\ Logins' = Logins
    BY <1>1 DEF Minted, Rolls, Logins
  <1> QED BY <1>1, <1>2 DEF SmallRolls, AllMinted

LEMMA StartAdmissionKeeps ==
    ASSUME PupilInv, NEW d \in Desk, NEW p \in Child, NEW own \in 0 .. 1, StartAdmission(d, p, own)
    PROVE  PupilInv'
  <1>1. /\ UNCHANGED <<file, consent, erasure, seats, counter, holder, refused>>
        /\ PupilTypeOK /\ ErrandsFit /\ AdmissionInv
        /\ file[p].row = "none" /\ ~Engaged("admission", p)
    BY DEF StartAdmission, sequence, records, PupilInv
  <1>2. PICK e : e = [Errand("number", "admission", p) EXCEPT !.own = own]
    OBVIOUS
  <1>3. /\ e \in Errands /\ e.kind = "admission" /\ e.at = "number" /\ e.p = p /\ ErrandFits(e)
    <2>1. own \in Nat /\ 0 \in Nat
      OBVIOUS
    <2>2. PICK f : f = Errand("number", "admission", p)
      OBVIOUS
    <2>3. /\ f \in Errands /\ f.kind = "admission" /\ f.at = "number" /\ f.p = p
          /\ f.line = "none" /\ f.action = "none"
      BY <2>1, <2>2 DEF Errand, Resting, Errands, ErrandAt, Admitting, Late
    <2>4. e = [f EXCEPT !.own = own]
      BY <1>2, <2>2
    <2>5. /\ e \in Errands /\ e.kind = "admission" /\ e.at = "number" /\ e.p = p
          /\ e.line = "none" /\ e.action = "none"
      BY <2>1, <2>3, <2>4 DEF Errands
    <2> QED BY <2>5 DEF ErrandFits, Admitting, Late
  <1>4. Asks(d, e)
    BY <1>2 DEF StartAdmission
  <1>5. /\ desk' \in [Desk -> Errands] /\ ErrandsFit'
        /\ desk'[d] = e /\ \A o \in Desk \ {d} : desk'[o] = desk[o]
        /\ desk[d].at = "idle" /\ desk[d].kind = "none" /\ blurred \subseteq blurred'
    BY <1>1, <1>3, <1>4, ErrandBegins
  <1>6. \A o \in Desk : ~(desk[o].kind = "admission" /\ desk[o].p = p)
    BY <1>1 DEF Engaged, Stage, ErrandsFit, ErrandFits
  <1>7. AdmissionInv'
    <2>1. /\ \A o \in Desk : holder' = o <=> desk'[o].at \in Late /\ desk'[o].own = 0
          /\ \A o \in Desk : holder' = o => o # d
      BY <1>1, <1>3, <1>5 DEF AdmissionInv, Late
    <2>2. \A o \in Desk : desk'[o].kind = "admission" =>
            /\ file'[desk'[o].p].row = "none"
            /\ \A v \in Desk : desk'[v].kind = "admission" /\ desk'[v].p = desk'[o].p => v = o
      BY <1>1, <1>3, <1>5, <1>6 DEF AdmissionInv
    <2>3. \A o \in Desk : holder' = o => desk'[o].no = counter' + 1
      BY <1>1, <1>5, <2>1 DEF AdmissionInv
    <2>4. SmallRolls' => \A o \in Desk : holder' = o /\ desk'[o].at \in {"login", "commit"} =>
                            \A q \in Minted' : file'[q].roll # desk'[o].roll
      BY <1>1, <1>5, <2>1, NumbersRest DEF AdmissionInv
    <2>5. AllMinted' => \A o \in Desk : holder' = o /\ desk'[o].at = "commit" =>
                           desk'[o].login \notin Logins'
      BY <1>1, <1>5, <2>1, NumbersRest DEF AdmissionInv
    <2>6. /\ \A q \in Minted' : file'[q].no <= counter'
          /\ SmallRolls' => \A q, r \in Minted' : q # r => file'[q].roll # file'[r].roll
          /\ refused' # {} => ~AllMinted'
      BY <1>1, NumbersRest DEF AdmissionInv
    <2> QED BY <2>1, <2>2, <2>3, <2>4, <2>5, <2>6 DEF AdmissionInv
  <1>8. counter' \in Nat /\ holder' \in Desk \cup {Nobody}
    BY <1>1 DEF PupilTypeOK
  <1>9. \A o \in Desk : desk'[o] = desk[o] \/ /\ desk[o].kind \notin {"consent", "erasure"}
                                              /\ desk'[o].kind \notin {"consent", "erasure"}
    BY <1>3, <1>5
  <1> QED BY <1>1, <1>5, <1>7, <1>8, <1>9, AdmissionStep

\* The next statement of an admission at desk d, whose errand becomes e.
LEMMA AdmissionGoesOn ==
    ASSUME PupilInv, UNCHANGED <<file, consent, erasure, seats, counter, refused, blurred>>,
           NEW d \in Desk, desk[d].at \in Admitting,
           NEW e \in Errands, e.at \in Late, e.kind = "admission",
           e.p = desk[d].p, e.own = desk[d].own,
           desk' = [desk EXCEPT ![d] = e],
           holder' = IF e.own = 0 THEN d ELSE holder,
           e.own = 0 => holder \in {Nobody, d} /\ e.no = counter + 1,
           e.own = 0 /\ e.at \in {"login", "commit"} /\ SmallRolls =>
               \A q \in Minted : file[q].roll # e.roll,
           e.at = "commit" => e.login \notin Logins
    PROVE  PupilInv'
  <1>1. PupilTypeOK /\ ErrandsFit /\ AdmissionInv
    BY DEF PupilInv
  <1>2. desk[d].kind = "admission" /\ desk[d].p \in Child
    BY <1>1 DEF ErrandsFit, ErrandFits, Admitting, Late
  <1>3. ErrandFits(e)
    BY <1>2 DEF ErrandFits, Admitting, Late
  <1>4. /\ desk' \in [Desk -> Errands] /\ ErrandsFit'
        /\ desk'[d] = e /\ \A o \in Desk \ {d} : desk'[o] = desk[o]
    BY <1>1, <1>3, ErrandMoves
  <1>5. \A o \in Desk \ {d} : holder' = o <=> holder = o
    <2>1. CASE e.own = 0
      BY <2>1, PupilsAssumption
    <2>2. CASE e.own # 0
      BY <2>2
    <2> QED BY <2>1, <2>2
  <1>6. \A o \in Desk : holder' = o <=> desk'[o].at \in Late /\ desk'[o].own = 0
    <2>1. holder' = d <=> e.own = 0
      <3>1. holder = d => desk[d].own = 0
        BY <1>1 DEF AdmissionInv
      <3> QED BY <3>1
    <2>2. \A o \in Desk \ {d} : holder = o <=> desk[o].at \in Late /\ desk[o].own = 0
      BY <1>1 DEF AdmissionInv
    <2> QED BY <1>4, <1>5, <2>1, <2>2
  <1>7. holder' = d => e.own = 0
    BY <1>4, <1>6
  <1>8. \A o \in Desk : holder' = o => desk'[o].no = counter' + 1
    BY <1>1, <1>4, <1>5, <1>7 DEF AdmissionInv
  <1>9. SmallRolls' => \A o \in Desk : holder' = o /\ desk'[o].at \in {"login", "commit"} =>
                           \A q \in Minted' : file'[q].roll # desk'[o].roll
    BY <1>1, <1>4, <1>5, <1>7, NumbersRest DEF AdmissionInv
  <1>10. AllMinted' => \A o \in Desk : holder' = o /\ desk'[o].at = "commit" =>
                           desk'[o].login \notin Logins'
    BY <1>1, <1>4, <1>5, NumbersRest DEF AdmissionInv
  <1>11. /\ \A q \in Minted' : file'[q].no <= counter'
         /\ SmallRolls' => \A q, r \in Minted' : q # r => file'[q].roll # file'[r].roll
         /\ refused' # {} => ~AllMinted'
    BY <1>1, NumbersRest DEF AdmissionInv
  <1>12. \A o \in Desk : desk'[o].kind = "admission" =>
            /\ file'[desk'[o].p].row = "none"
            /\ \A v \in Desk : desk'[v].kind = "admission" /\ desk'[v].p = desk'[o].p => v = o
    BY <1>1, <1>2, <1>4 DEF AdmissionInv
  <1>13. AdmissionInv'
    BY <1>6, <1>8, <1>9, <1>10, <1>11, <1>12 DEF AdmissionInv
  <1>14. counter' \in Nat /\ holder' \in Desk \cup {Nobody}
    BY <1>1 DEF PupilTypeOK
  <1>15. \A o \in Desk : desk'[o] = desk[o] \/ /\ desk[o].kind \notin {"consent", "erasure"}
                                               /\ desk'[o].kind \notin {"consent", "erasure"}
    BY <1>2, <1>4
  <1>16. blurred \subseteq blurred'
    OBVIOUS
  <1> QED BY <1>4, <1>13, <1>14, <1>15, <1>16, AdmissionStep

LEMMA HoldsNumberKeeps ==
    ASSUME PupilInv, NEW d \in Desk, desk[d].at \in {"number", "create"}, desk[d].own = 0,
           HoldsNumber(d)
    PROVE  PupilInv'
  <1>1. /\ UNCHANGED <<file, consent, erasure, seats, counter, refused, blurred>>
        /\ PupilTypeOK /\ ErrandsFit
        /\ holder = Nobody /\ holder' = d
    BY DEF HoldsNumber, records, PupilInv
  <1>2. PICK before \in Errands : before = desk[d]
    BY <1>1 DEF PupilTypeOK
  <1>3. counter + 1 \in Nat
    BY <1>1 DEF PupilTypeOK
  <1>4. PICK e : e = [before EXCEPT !.at = "roll", !.no = counter + 1]
    OBVIOUS
  <1>5. /\ e \in Errands /\ e.at = "roll" /\ e.no = counter + 1 /\ e.p = before.p
        /\ e.kind = before.kind /\ e.own = before.own
    BY <1>3, <1>4 DEF Errands, ErrandAt, Admitting, Late
  <1>6. desk' = [desk EXCEPT ![d] = e]
    BY <1>2, <1>4 DEF HoldsNumber
  <1>7. e.kind = "admission"
    BY <1>1, <1>2, <1>5 DEF ErrandsFit, ErrandFits, Admitting
  <1>8. desk[d].at \in Admitting /\ e.at \in Late
    BY <1>1, <1>5 DEF Admitting, Late
  <1> QED BY <1>1, <1>2, <1>5, <1>6, <1>7, <1>8, AdmissionGoesOn

LEMMA MintNumberKeeps ==
    ASSUME PupilInv, NEW d \in Desk, MintNumber(d)
    PROVE  PupilInv'
  BY HoldsNumberKeeps DEF MintNumber, Stage

\* An admission that has no lock yet goes on, or ends, without one.
LEMMA NoSequenceKeeps ==
    ASSUME PupilInv, NEW d \in Desk, NoSequence(d)
    PROVE  PupilInv'
  <1>1. /\ UNCHANGED <<file, consent, erasure, seats, counter, holder, refused, blurred>>
        /\ PupilTypeOK /\ ErrandsFit /\ AdmissionInv /\ desk[d].at = "number"
    BY DEF NoSequence, Stage, sequence, records, PupilInv
  <1>2. PICK before \in Errands : before = desk[d]
    BY <1>1 DEF PupilTypeOK
  <1>3. PICK e : e = [before EXCEPT !.at = "create"]
    OBVIOUS
  <1>4. /\ e \in Errands /\ e.at = "create" /\ e.p = before.p
        /\ e.kind = before.kind /\ e.own = before.own
    BY <1>3 DEF Errands, ErrandAt, Admitting
  <1>5. /\ desk' = [desk EXCEPT ![d] = e]
        /\ before.kind = "admission" /\ before.p \in Child /\ before.own = 0
    BY <1>1, <1>2, <1>3 DEF NoSequence, Stage, ErrandsFit, ErrandFits, Admitting
  <1>6. ErrandFits(e)
    BY <1>4, <1>5 DEF ErrandFits, Admitting, Late
  <1>7. /\ desk' \in [Desk -> Errands] /\ ErrandsFit'
        /\ desk'[d] = e /\ \A o \in Desk \ {d} : desk'[o] = desk[o]
    BY <1>1, <1>4, <1>5, <1>6, ErrandMoves
  <1>8. /\ e.at \notin Late /\ desk[d].at \notin Late
    BY <1>1, <1>4 DEF Late
  <1>9. /\ \A o \in Desk : holder' = o <=> desk'[o].at \in Late /\ desk'[o].own = 0
        /\ \A o \in Desk : holder' = o => o # d
    BY <1>1, <1>7, <1>8 DEF AdmissionInv
  <1>10. \A o \in Desk : holder' = o => desk'[o].no = counter' + 1
    BY <1>1, <1>7, <1>9 DEF AdmissionInv
  <1>11. SmallRolls' => \A o \in Desk : holder' = o /\ desk'[o].at \in {"login", "commit"} =>
                           \A q \in Minted' : file'[q].roll # desk'[o].roll
    BY <1>1, <1>7, <1>9, NumbersRest DEF AdmissionInv
  <1>12. AllMinted' => \A o \in Desk : holder' = o /\ desk'[o].at = "commit" =>
                           desk'[o].login \notin Logins'
    BY <1>1, <1>7, <1>9, NumbersRest DEF AdmissionInv
  <1>13. /\ \A q \in Minted' : file'[q].no <= counter'
         /\ SmallRolls' => \A q, r \in Minted' : q # r => file'[q].roll # file'[r].roll
         /\ refused' # {} => ~AllMinted'
    BY <1>1, NumbersRest DEF AdmissionInv
  <1>14. \A o \in Desk : desk'[o].kind = "admission" =>
            /\ file'[desk'[o].p].row = "none"
            /\ \A v \in Desk : desk'[v].kind = "admission" /\ desk'[v].p = desk'[o].p => v = o
    BY <1>1, <1>2, <1>4, <1>5, <1>7 DEF AdmissionInv
  <1>15. AdmissionInv'
    BY <1>9, <1>10, <1>11, <1>12, <1>13, <1>14 DEF AdmissionInv
  <1>16. \A o \in Desk : desk'[o] = desk[o] \/ /\ desk[o].kind \notin {"consent", "erasure"}
                                               /\ desk'[o].kind \notin {"consent", "erasure"}
    BY <1>2, <1>4, <1>5, <1>7
  <1>17. /\ counter' \in Nat /\ holder' \in Desk \cup {Nobody} /\ blurred \subseteq blurred'
    BY <1>1 DEF PupilTypeOK
  <1> QED BY <1>1, <1>7, <1>15, <1>16, <1>17, AdmissionStep

LEMMA BringNumberKeeps ==
    ASSUME PupilInv, NEW d \in Desk, BringNumber(d)
    PROVE  PupilInv'
  <1>1. /\ UNCHANGED <<file, consent, erasure, seats, counter, holder, refused, blurred>>
        /\ PupilTypeOK /\ ErrandsFit /\ desk[d].at = "number" /\ desk[d].own > 0
    BY DEF BringNumber, Stage, sequence, records, PupilInv
  <1>2. PICK before \in Errands : before = desk[d]
    BY <1>1 DEF PupilTypeOK
  <1>3. before.own \in Nat /\ before.own # 0
    BY <1>1, <1>2 DEF Errands
  <1>4. PICK e : e = [before EXCEPT !.at = "roll", !.no = before.own]
    OBVIOUS
  <1>5. /\ e \in Errands /\ e.at = "roll" /\ e.p = before.p
        /\ e.kind = before.kind /\ e.own = before.own
    BY <1>3, <1>4 DEF Errands, ErrandAt, Admitting, Late
  <1>6. desk' = [desk EXCEPT ![d] = e]
    BY <1>2, <1>4 DEF BringNumber
  <1>7. e.kind = "admission"
    BY <1>1, <1>2, <1>5 DEF ErrandsFit, ErrandFits, Admitting
  <1>8. desk[d].at \in Admitting /\ e.at \in Late
    BY <1>1, <1>5 DEF Admitting, Late
  <1> QED BY <1>1, <1>2, <1>3, <1>5, <1>6, <1>7, <1>8, AdmissionGoesOn

\* Whoever mints and is past its number holds the row of the sequence.
LEMMA HoldsTheRow ==
    ASSUME PupilInv, NEW d \in Desk, desk[d].at \in Late
    PROVE  /\ holder = IF desk[d].own = 0 THEN d ELSE holder
           /\ desk[d].own = 0 => holder = d /\ desk[d].no = counter + 1
  BY DEF PupilInv, AdmissionInv

LEMMA NextRollKeeps ==
    ASSUME PupilInv, NEW d \in Desk, NextRoll(d)
    PROVE  PupilInv'
  <1>1. /\ UNCHANGED <<file, consent, erasure, seats, counter, holder, refused, blurred>>
        /\ PupilTypeOK /\ ErrandsFit /\ desk[d].at = "roll"
    BY DEF NextRoll, Stage, sequence, records, PupilInv
  <1>2. PICK before \in Errands : before = desk[d]
    BY <1>1 DEF PupilTypeOK
  <1>3. PICK n : n = RollAfter(Rolls)
    OBVIOUS
  <1>4. n \in Nat /\ (SmallRolls => n \notin Rolls)
    BY <1>1, <1>3, TheRolls, RollIsNew DEF SmallRolls
  <1>5. PICK e : e = [before EXCEPT !.at = "login", !.roll = n]
    OBVIOUS
  <1>6. /\ e \in Errands /\ e.at = "login" /\ e.roll = n /\ e.p = before.p
        /\ e.kind = before.kind /\ e.own = before.own /\ e.no = before.no
    BY <1>4, <1>5 DEF Errands, ErrandAt, Admitting, Late
  <1>7. desk' = [desk EXCEPT ![d] = e]
    BY <1>2, <1>3, <1>5 DEF NextRoll
  <1>8. e.kind = "admission"
    BY <1>1, <1>2, <1>6 DEF ErrandsFit, ErrandFits, Admitting, Late
  <1>9. desk[d].at \in Admitting /\ desk[d].at \in Late /\ e.at \in Late
    BY <1>1, <1>6 DEF Admitting, Late
  <1>10. SmallRolls => \A q \in Minted : file[q].roll # e.roll
    BY <1>4, <1>6 DEF Minted, Rolls
  <1> QED BY <1>1, <1>2, <1>6, <1>7, <1>8, <1>9, <1>10, HoldsTheRow, AdmissionGoesOn

LEMMA MintLoginKeeps ==
    ASSUME PupilInv, NEW d \in Desk, MintLogin(d)
    PROVE  PupilInv'
  <1>1. /\ UNCHANGED <<file, consent, erasure, seats, counter, holder, refused, blurred>>
        /\ PupilTypeOK /\ ErrandsFit /\ AdmissionInv /\ desk[d].at = "login"
    BY DEF MintLogin, Stage, sequence, records, PupilInv
  <1>2. PICK before \in Errands : before = desk[d]
    BY <1>1 DEF PupilTypeOK
  <1>3. PICK n : n = Min((1 .. Cardinality(Logins) + 1) \ Logins)
    OBVIOUS
  <1>4. n \in Nat /\ n \notin Logins
    BY <1>1, <1>3, TheRolls, LoginIsNew
  <1>5. PICK e : e = [before EXCEPT !.at = "commit", !.login = n]
    OBVIOUS
  <1>6. /\ e \in Errands /\ e.at = "commit" /\ e.login = n /\ e.p = before.p /\ e.roll = before.roll
        /\ e.kind = before.kind /\ e.own = before.own /\ e.no = before.no
    BY <1>4, <1>5 DEF Errands, ErrandAt, Admitting, Late
  <1>7. desk' = [desk EXCEPT ![d] = e]
    BY <1>2, <1>3, <1>5 DEF MintLogin
  <1>8. e.kind = "admission"
    BY <1>1, <1>2, <1>6 DEF ErrandsFit, ErrandFits, Admitting, Late
  <1>9. desk[d].at \in Admitting /\ desk[d].at \in Late /\ e.at \in Late
    BY <1>1, <1>6 DEF Admitting, Late
  <1>10. e.own = 0 /\ SmallRolls => \A q \in Minted : file[q].roll # e.roll
    <2>1. e.own = 0 => holder = d
      BY <1>2, <1>6, <1>9, HoldsTheRow
    <2> QED BY <1>1, <1>2, <1>6, <2>1 DEF AdmissionInv
  <1> QED BY <1>1, <1>2, <1>4, <1>6, <1>7, <1>8, <1>9, <1>10, HoldsTheRow, AdmissionGoesOn

\* Whoever leaves the desk leaves the row of the sequence to others.
LEMMA LockIsLeft ==
    ASSUME PupilTypeOK, ErrandsFit, AdmissionInv, NEW d \in Desk,
           desk' = [desk EXCEPT ![d] = Resting], holder' = Unlocked(d)
    PROVE  /\ holder' \in Desk \cup {Nobody}
           /\ desk' \in [Desk -> Errands] /\ ErrandsFit'
           /\ desk'[d] = Resting /\ \A o \in Desk \ {d} : desk'[o] = desk[o]
           /\ \A o \in Desk : holder' = o <=> desk'[o].at \in Late /\ desk'[o].own = 0
           /\ \A o \in Desk : holder' = o => o # d /\ holder = o /\ holder' = holder
  <1>1. /\ desk' \in [Desk -> Errands] /\ ErrandsFit'
        /\ desk'[d] = Resting /\ \A o \in Desk \ {d} : desk'[o] = desk[o]
    BY RestingFits, ErrandMoves
  <1>2. holder' = IF holder = d THEN Nobody ELSE holder
    BY DEF Unlocked
  <1>3. holder' \in Desk \cup {Nobody} /\ holder' # d
    BY <1>2, PupilsAssumption DEF PupilTypeOK
  <1>4. \A o \in Desk \ {d} : holder' = o <=> holder = o
    BY <1>2, PupilsAssumption
  <1>5. \A o \in Desk : holder' = o <=> desk'[o].at \in Late /\ desk'[o].own = 0
    <2>1. Resting.at \notin Late
      BY RestingFits DEF Late
    <2>2. \A o \in Desk \ {d} : holder = o <=> desk[o].at \in Late /\ desk[o].own = 0
      BY DEF AdmissionInv
    <2> QED BY <1>1, <1>3, <1>4, <2>1, <2>2
  <1> QED BY <1>1, <1>3, <1>4, <1>5

LEMMA AdmissionEnds ==
    ASSUME PupilTypeOK, ErrandsFit, AdmissionInv, NEW d \in Desk,
           desk' = [desk EXCEPT ![d] = Resting], holder' = Unlocked(d),
           UNCHANGED <<file, seats, counter>>, refused' # {} => ~AllMinted
    PROVE  AdmissionInv'
  <1>1. /\ desk'[d] = Resting /\ \A o \in Desk \ {d} : desk'[o] = desk[o]
        /\ \A o \in Desk : holder' = o <=> desk'[o].at \in Late /\ desk'[o].own = 0
        /\ \A o \in Desk : holder' = o => o # d /\ holder = o
    BY LockIsLeft
  <1>2. \A o \in Desk : holder' = o => desk'[o].no = counter' + 1
    BY <1>1 DEF AdmissionInv
  <1>3. SmallRolls' => \A o \in Desk : holder' = o /\ desk'[o].at \in {"login", "commit"} =>
                           \A q \in Minted' : file'[q].roll # desk'[o].roll
    BY <1>1, NumbersRest DEF AdmissionInv
  <1>4. AllMinted' => \A o \in Desk : holder' = o /\ desk'[o].at = "commit" =>
                           desk'[o].login \notin Logins'
    BY <1>1, NumbersRest DEF AdmissionInv
  <1>5. /\ \A q \in Minted' : file'[q].no <= counter'
        /\ SmallRolls' => \A q, r \in Minted' : q # r => file'[q].roll # file'[r].roll
        /\ refused' # {} => ~AllMinted'
    BY NumbersRest DEF AdmissionInv
  <1>6. \A o \in Desk : desk'[o].kind = "admission" =>
            /\ file'[desk'[o].p].row = "none"
            /\ \A v \in Desk : desk'[v].kind = "admission" /\ desk'[v].p = desk'[o].p => v = o
    BY <1>1, RestingFits DEF AdmissionInv
  <1> QED BY <1>1, <1>2, <1>3, <1>4, <1>5, <1>6 DEF AdmissionInv

LEMMA CreateSequenceKeeps ==
    ASSUME PupilInv, NEW d \in Desk, CreateSequence(d)
    PROVE  PupilInv'
  <1>1. /\ PupilTypeOK /\ ErrandsFit /\ AdmissionInv /\ desk[d].at = "create"
    BY DEF CreateSequence, Stage, PupilInv
  <1>2. CASE Rests(d) /\ UNCHANGED <<file, sequence, records>>
    <2>1. /\ UNCHANGED <<file, consent, erasure, seats, counter, holder, refused, blurred>>
          /\ desk' = [desk EXCEPT ![d] = Resting] /\ desk[d].kind = "admission"
      BY <1>1, <1>2 DEF Rests, sequence, records, ErrandsFit, ErrandFits, Admitting
    <2>2. holder' = Unlocked(d)
      BY <1>1, <2>1 DEF Unlocked, AdmissionInv, Late
    <2>3. AdmissionInv'
      BY <1>1, <2>1, <2>2, AdmissionEnds DEF AdmissionInv
    <2>4. /\ desk' \in [Desk -> Errands] /\ ErrandsFit'
          /\ desk'[d] = Resting /\ \A o \in Desk \ {d} : desk'[o] = desk[o]
          /\ holder' \in Desk \cup {Nobody}
      BY <1>1, <2>1, <2>2, LockIsLeft
    <2>5. \A o \in Desk : desk'[o] = desk[o] \/ /\ desk[o].kind \notin {"consent", "erasure"}
                                                /\ desk'[o].kind \notin {"consent", "erasure"}
      BY <2>1, <2>4, RestingFits
    <2>6. counter' \in Nat /\ blurred \subseteq blurred'
      BY <1>1, <2>1 DEF PupilTypeOK
    <2> QED BY <2>1, <2>3, <2>4, <2>5, <2>6, AdmissionStep
  <1>3. CASE HoldsNumber(d)
    <2>1. desk[d].own = 0
      BY <1>1 DEF ErrandsFit, ErrandFits
    <2> QED BY <1>1, <1>3, <2>1, HoldsNumberKeeps
  <1> QED BY <1>2, <1>3 DEF CreateSequence

LEMMA GiveUpKeeps ==
    ASSUME PupilInv, NEW d \in Desk, GiveUp(d)
    PROVE  PupilInv'
  <1>1. /\ UNCHANGED <<file, consent, erasure, seats, counter, refused>>
        /\ PupilTypeOK /\ ErrandsFit /\ AdmissionInv /\ ConsentInv /\ ErasureInv
        /\ desk' = [desk EXCEPT ![d] = Resting] /\ holder' = Unlocked(d)
        /\ blurred' = blurred \cup {<<desk[d].kind, desk[d].p>>}
    BY DEF GiveUp, records, PupilInv
  <1>2. refused' # {} => ~AllMinted
    BY <1>1 DEF AdmissionInv
  <1>3. AdmissionInv'
    BY <1>1, <1>2, AdmissionEnds
  <1>4. /\ desk' \in [Desk -> Errands] /\ ErrandsFit'
        /\ desk'[d] = Resting /\ \A o \in Desk \ {d} : desk'[o] = desk[o]
        /\ holder' \in Desk \cup {Nobody}
    BY <1>1, LockIsLeft
  <1>5. PupilTypeOK'
    BY <1>1, <1>4 DEF PupilTypeOK
  <1>6. ASSUME NEW q \in Child PROVE ConsentOf(q)'
    <2>1. ConsentStill(q)
      BY <1>1, <1>4, RestingFits DEF ConsentStill, Has
    <2> QED BY <1>1, <2>1, ConsentsRest DEF ConsentInv
  <1>7. ASSUME NEW q \in Child PROVE ErasureOf(q)'
    <2>1. ErasureStill(q)
      BY <1>1, <1>4, RestingFits DEF ErasureStill, Erases, Has
    <2> QED BY <1>1, <2>1, ErasuresRest DEF ErasureInv
  <1> QED BY <1>3, <1>4, <1>5, <1>6, <1>7 DEF PupilInv, ConsentInv, ErasureInv

\* The unique indexes let the row in: a minted number and its roll are new.
LEMMA CommitTaken ==
    ASSUME PupilInv, NEW d \in Desk, desk[d].at = "commit",
           NEW p \in Child, p = desk[d].p, NEW row \in FileRow,
           row.row = "live", row.no = desk[d].no, row.minted = (holder = d),
           row.roll = desk[d].roll, row.contact = "given", row.photo = "given", row.papers = "given",
           file' = [file EXCEPT ![p] = row],
           counter' = IF holder = d THEN desk[d].no ELSE counter,
           holder' = Unlocked(d), desk' = [desk EXCEPT ![d] = Resting],
           UNCHANGED <<consent, erasure, seats, refused, blurred>>
    PROVE  PupilInv'
  <1>1. PupilTypeOK /\ ErrandsFit /\ AdmissionInv /\ ConsentInv /\ ErasureInv
    BY DEF PupilInv
  <1>2. desk[d].kind = "admission" /\ desk[d].at \in Late
    BY <1>1 DEF ErrandsFit, ErrandFits, Admitting, Late
  <1>3. file[p].row = "none" /\ \A o \in Desk : desk[o].kind = "admission" /\ desk[o].p = p => o = d
    BY <1>1, <1>2 DEF AdmissionInv
  <1>4. /\ holder' \in Desk \cup {Nobody}
        /\ desk' \in [Desk -> Errands] /\ ErrandsFit'
        /\ desk'[d] = Resting /\ \A o \in Desk \ {d} : desk'[o] = desk[o]
        /\ \A o \in Desk : holder' = o <=> desk'[o].at \in Late /\ desk'[o].own = 0
        /\ \A o \in Desk : holder' = o => o # d /\ holder = o /\ holder' = holder
    BY <1>1, LockIsLeft
  <1>5. /\ file' \in [Child -> FileRow] /\ file'[p] = row
        /\ \A q \in Child \ {p} : file'[q] = file[q]
    BY <1>1 DEF PupilTypeOK
  <1>6. /\ counter \in Nat /\ desk[d].no \in Nat /\ counter + 1 \in Nat
        /\ counter <= counter + 1 /\ (holder = d => desk[d].no = counter + 1)
    BY <1>1 DEF PupilTypeOK, Errands, AdmissionInv
  <1>7. PupilTypeOK'
    BY <1>1, <1>4, <1>5, <1>6 DEF PupilTypeOK
  <1>8. /\ Admitted' = Admitted \cup {p} /\ p \notin Admitted
        /\ Minted \subseteq Child \ {p}
    BY <1>3, <1>5 DEF Admitted, Minted
  <1>9. Minted' = IF holder = d THEN Minted \cup {p} ELSE Minted
    BY <1>5, <1>8 DEF Minted, Admitted
  <1>10. \A q \in Minted : file'[q] = file[q]
    BY <1>5, <1>8
  <1>11. SmallRolls' => SmallRolls
    <2>1. Rolls \subseteq Rolls'
      BY <1>5, <1>8 DEF Rolls, Admitted
    <2> QED BY <2>1 DEF SmallRolls
  <1>12. AllMinted' => AllMinted /\ holder = d
    BY <1>5, <1>8 DEF AllMinted, Admitted
  <1>13. \A o \in Desk : holder' = o => holder # d
    BY <1>4
  <1>14. \A o \in Desk : holder' = o => desk'[o].no = counter' + 1
    BY <1>1, <1>4, <1>13 DEF AdmissionInv
  <1>15. \A q \in Minted' : file'[q].no <= counter'
    <2>1. CASE holder = d
      <3>1. ASSUME NEW q \in Minted PROVE file'[q].no <= counter'
        <4>1. file'[q].no \in Nat /\ file'[q].no <= counter
          BY <1>1, <1>8, <1>10 DEF AdmissionInv, PupilTypeOK, FileRow
        <4>2. counter' = counter + 1
          BY <1>6, <2>1
        <4> QED BY <1>6, <4>1, <4>2
      <3>2. file'[p].no = counter' /\ counter' \in Nat
        BY <1>5, <1>6, <2>1
      <3> QED BY <1>9, <2>1, <3>1, <3>2
    <2>2. CASE holder # d
      BY <1>1, <1>9, <1>10, <2>2 DEF AdmissionInv
    <2> QED BY <2>1, <2>2
  <1>16. SmallRolls' => \A q, r \in Minted' : q # r => file'[q].roll # file'[r].roll
    <2> SUFFICES ASSUME SmallRolls', NEW q \in Minted', NEW r \in Minted', q # r
                 PROVE  file'[q].roll # file'[r].roll
      OBVIOUS
    <2>1. \A s, t \in Minted : s # t => file'[s].roll # file'[t].roll
      BY <1>1, <1>10, <1>11 DEF AdmissionInv
    <2>2. holder = d => \A s \in Minted : file'[s].roll # file'[p].roll
      BY <1>1, <1>5, <1>10, <1>11 DEF AdmissionInv
    <2> QED BY <1>9, <2>1, <2>2
  <1>17. SmallRolls' => \A o \in Desk : holder' = o /\ desk'[o].at \in {"login", "commit"} =>
                            \A q \in Minted' : file'[q].roll # desk'[o].roll
    BY <1>1, <1>4, <1>9, <1>10, <1>11, <1>13 DEF AdmissionInv
  <1>18. AllMinted' => \A o \in Desk : holder' = o /\ desk'[o].at = "commit" =>
                            desk'[o].login \notin Logins'
    BY <1>12, <1>13
  <1>19. refused' # {} => ~AllMinted'
    BY <1>1, <1>12 DEF AdmissionInv
  <1>20. \A o \in Desk : desk'[o].kind = "admission" =>
            /\ file'[desk'[o].p].row = "none"
            /\ \A v \in Desk : desk'[v].kind = "admission" /\ desk'[v].p = desk'[o].p => v = o
    <2>1. \A o \in Desk : desk'[o].kind = "admission" =>
             o # d /\ desk'[o] = desk[o] /\ desk[o].p \in Child \ {p}
      BY <1>1, <1>3, <1>4, RestingFits DEF ErrandsFit, ErrandFits, Admitting
    <2> QED BY <1>1, <1>5, <2>1 DEF AdmissionInv
  <1>21. AdmissionInv'
    BY <1>4, <1>14, <1>15, <1>16, <1>17, <1>18, <1>19, <1>20 DEF AdmissionInv
  <1>22. ASSUME NEW q \in Child PROVE ConsentOf(q)'
    <2>1. ConsentStill(q)
      BY <1>2, <1>4, RestingFits DEF ConsentStill, Has
    <2> QED BY <1>1, <2>1, ConsentsRest DEF ConsentInv
  <1>23. ASSUME NEW q \in Child PROVE ErasureOf(q)'
    <2>0. ErasureOf(q)
      BY <1>1 DEF ErasureInv
    <2>1. CASE q = p
      <3>1. erasure[p] = "none" /\ \A o \in Desk : ~Erases(o, p)
        BY <1>3, <2>0, <2>1 DEF ErasureOf
      <3>2. \A o \in Desk : ~Erases(o, p)'
        BY <1>4, <3>1, RestingFits DEF Erases, Has
      <3>3. Intact(file'[p]) /\ file'[p].row # "none" /\ erasure'[p] = "none"
        BY <1>5, <3>1 DEF Intact
      <3> QED BY <2>1, <3>2, <3>3 DEF ErasureOf, Erases, Has, Intact
    <2>2. CASE q # p
      <3>1. ErasureStill(q)
        BY <1>2, <1>4, <1>5, <2>2, RestingFits DEF ErasureStill, Erases, Has
      <3> QED BY <2>0, <3>1, ErasuresRest
    <2> QED BY <2>1, <2>2
  <1> QED BY <1>4, <1>7, <1>21, <1>22, <1>23 DEF PupilInv, ConsentInv, ErasureInv

\* A minted number is refused only where somebody brought a number.
LEMMA CommitRefused ==
    ASSUME PupilInv, NEW d \in Desk, desk[d].at = "commit", holder = d, AllMinted
    PROVE  desk[d].no \notin Numbers /\ desk[d].login \notin Logins
  <1>1. PupilTypeOK /\ AdmissionInv
    BY DEF PupilInv
  <1>2. desk[d].no = counter + 1 /\ desk[d].login \notin Logins
    BY <1>1 DEF AdmissionInv
  <1>3. ASSUME NEW q \in Admitted PROVE file[q].no # counter + 1
    <2>1. q \in Minted /\ q \in Child
      BY <1>3 DEF AllMinted, Minted, Admitted
    <2>2. file[q].no <= counter /\ file[q].no \in Nat /\ counter \in Nat
      BY <1>1, <2>1 DEF AdmissionInv, PupilTypeOK, FileRow
    <2> QED BY <2>2
  <1> QED BY <1>2, <1>3 DEF Numbers

LEMMA CommitAdmissionKeeps ==
    ASSUME PupilInv, NEW d \in Desk, CommitAdmission(d)
    PROVE  PupilInv'
  <1>1. /\ UNCHANGED <<consent, erasure, seats, blurred>>
        /\ PupilTypeOK /\ ErrandsFit /\ AdmissionInv
        /\ desk[d].at = "commit" /\ holder' = Unlocked(d) /\ desk' = [desk EXCEPT ![d] = Resting]
    BY DEF CommitAdmission, Stage, Rests, records, PupilInv
  <1>2. PICK r \in Errands : r = desk[d]
    BY <1>1 DEF PupilTypeOK
  <1>3. PICK p \in Child : p = r.p
    BY <1>1, <1>2 DEF ErrandsFit, ErrandFits
  <1>4. PICK minted \in BOOLEAN : minted = (holder = d)
    OBVIOUS
  <1>5. CASE r.no \notin Numbers /\ r.login \notin Logins
    <2>1. PICK row : row = [row |-> "live", no |-> r.no, minted |-> minted, roll |-> r.roll,
                            login |-> r.login, contact |-> "given", photo |-> "given",
                            papers |-> "given"]
      OBVIOUS
    <2>2. /\ row \in FileRow /\ row.row = "live" /\ row.no = r.no
          /\ row.roll = r.roll /\ row.contact = "given" /\ row.photo = "given" /\ row.papers = "given"
      BY <2>1 DEF FileRow, Part, Errands
    <2>3. row.minted = (holder = d)
      BY <1>4, <2>1
    <2>4. /\ file' = [file EXCEPT ![p] = row]
          /\ counter' = IF holder = d THEN r.no ELSE counter
          /\ refused' = refused
      BY <1>2, <1>3, <1>4, <1>5, <2>1 DEF CommitAdmission
    <2> QED BY <1>1, <1>2, <1>3, <2>2, <2>3, <2>4, CommitTaken
  <1>6. CASE ~(r.no \notin Numbers /\ r.login \notin Logins)
    <2>1. /\ refused' = IF holder = d THEN refused \cup {r.no} ELSE refused
          /\ UNCHANGED <<file, counter>>
      BY <1>2, <1>6 DEF CommitAdmission
    <2>2. refused' # {} => ~AllMinted
      <3>1. CASE holder = d
        BY <1>1, <1>2, <1>6, <3>1, CommitRefused
      <3>2. CASE holder # d
        BY <1>1, <2>1, <3>2 DEF AdmissionInv
      <3> QED BY <3>1, <3>2
    <2>3. AdmissionInv'
      BY <1>1, <2>1, <2>2, AdmissionEnds
    <2>4. /\ desk' \in [Desk -> Errands] /\ ErrandsFit'
          /\ desk'[d] = Resting /\ \A o \in Desk \ {d} : desk'[o] = desk[o]
          /\ holder' \in Desk \cup {Nobody}
      BY <1>1, LockIsLeft
    <2>5. desk[d].kind = "admission"
      BY <1>1 DEF ErrandsFit, ErrandFits, Admitting, Late
    <2>6. \A o \in Desk : desk'[o] = desk[o] \/ /\ desk[o].kind \notin {"consent", "erasure"}
                                                /\ desk'[o].kind \notin {"consent", "erasure"}
      BY <2>4, <2>5, RestingFits
    <2>7. counter' \in Nat /\ blurred \subseteq blurred'
      BY <1>1, <2>1 DEF PupilTypeOK
    <2> QED BY <1>1, <2>1, <2>3, <2>4, <2>6, <2>7, AdmissionStep
  <1> QED BY <1>5, <1>6

-----------------------------------------------------------------------------
(* The theorem *)

LEMMA PupilInvHolds == PupilSpec => []PupilInv
<1>1. PupilInit => PupilInv
  <2> SUFFICES ASSUME PupilInit PROVE PupilInv
    OBVIOUS
  <2>1. PICK n \in Seated : seats = 1 .. n
    BY DEF PupilInit
  <2>2. IsFiniteSet(seats) /\ seats \subseteq Nat
    <3>1. n \in Nat
      BY PupilsAssumption
    <3>2. 1 \in Int /\ n \in Int
      BY <3>1
    <3> QED BY <2>1, <3>1, <3>2, FS_Interval
  <2>3. NoFile \in FileRow /\ NoFile.row = "none" /\ NoFile.minted = FALSE
    BY DEF NoFile, FileRow, Part
  <2>4. \A p \in Child : file[p].row = "none" /\ erasure[p] = "none" /\ consent[p].line = consent[p].status
    BY <2>3 DEF PupilInit
  <2>5. \A d \in Desk : desk[d].at = "idle" /\ desk[d].kind = "none" /\ holder # d
    BY RestingFits, PupilsAssumption DEF PupilInit
  <2>6. PupilTypeOK
    <3>1. [status |-> "none", line |-> "none"] \in ConsentRow
      BY DEF ConsentRow
    <3> QED BY <2>2, <2>3, <3>1, RestingFits DEF PupilInit, PupilTypeOK
  <2>7. ErrandsFit
    BY RestingFits DEF PupilInit, ErrandsFit
  <2>8. Admitted = {} /\ Minted = {} /\ refused = {}
    BY <2>4 DEF Admitted, Minted, PupilInit
  <2>9. AdmissionInv
    BY <2>5, <2>8 DEF AdmissionInv, Late
  <2>10. ConsentInv
    BY <2>4, <2>5 DEF ConsentInv, ConsentOf, Has
  <2>11. ErasureInv
    BY <2>4, <2>5 DEF ErasureInv, ErasureOf, Erases, Has
  <2> QED BY <2>6, <2>7, <2>9, <2>10, <2>11 DEF PupilInv
<1>2. PupilInv /\ [PupilNext]_pupilVars => PupilInv'
  <2> SUFFICES ASSUME PupilInv, [PupilNext]_pupilVars PROVE PupilInv'
    OBVIOUS
  <2>1. ASSUME NEW d \in Desk, Admission(d) PROVE PupilInv'
    BY <2>1, StartAdmissionKeeps, MintNumberKeeps, NoSequenceKeeps, CreateSequenceKeeps,
       BringNumberKeeps, NextRollKeeps, MintLoginKeeps, CommitAdmissionKeeps DEF Admission
  <2>2. ASSUME NEW d \in Desk, Rights(d) PROVE PupilInv'
    BY <2>2, GrantConsentKeeps, CheckConsentKeeps, WithdrawConsentKeeps, AuditKeeps,
       CheckErasureKeeps, EraseContactKeeps, ErasePapersKeeps, MarkErasureKeeps DEF Rights
  <2>3. ASSUME NEW d \in Desk, MovePhoto(d) \/ GiveUp(d) PROVE PupilInv'
    BY <2>3, MovePhotoKeeps, GiveUpKeeps
  <2>4. ASSUME NEW d \in Desk, NEW p \in Child, StartPhoto(d, p) PROVE PupilInv'
    BY <2>4, StartPhotoKeeps
  <2>5. ASSUME NEW p \in Child, EditPupil(p) \/ RemovePupil(p) \/ FileErasure(p) PROVE PupilInv'
    BY <2>5, EditPupilKeeps, RemovePupilKeeps, FileErasureKeeps
  <2>6. CASE UNCHANGED pupilVars
    <3>1. UNCHANGED <<file, counter, holder, seats, consent, erasure, desk, blurred, refused>>
      BY <2>6 DEF pupilVars
    <3>2. AdmissionInv' /\ ConsentInv' /\ ErasureInv' /\ ErrandsFit'
      <4>1. ErrandsFit'
        BY <3>1 DEF PupilInv, ErrandsFit
      <4>2. AdmissionStill /\ \A q \in Child : ConsentStill(q) /\ ErasureStill(q)
        BY <3>1 DEF AdmissionStill, sequence, ConsentStill, ErasureStill
      <4>3. ASSUME NEW q \in Child PROVE ConsentOf(q)' /\ ErasureOf(q)'
        BY <4>2, ConsentsRest, ErasuresRest DEF PupilInv, ConsentInv, ErasureInv
      <4>4. AdmissionInv'
        BY <4>1, <4>2, AdmissionsRest DEF PupilInv
      <4> QED BY <4>1, <4>3, <4>4 DEF ConsentInv, ErasureInv
    <3> QED BY <3>1, <3>2 DEF PupilInv, PupilTypeOK
  <2> QED BY <2>1, <2>2, <2>3, <2>4, <2>5, <2>6 DEF PupilNext
<1> QED BY <1>1, <1>2, PTL DEF PupilSpec

\* RollsDistinct, TrailTellsConsent and ErasureHolds follow from the invariant.
LEMMA PupilsAgreeThen == PupilInv => PupilsAgree
  <1> SUFFICES ASSUME PupilInv PROVE PupilsAgree
    OBVIOUS
  <1>1. PupilTypeOK /\ ErrandsFit /\ AdmissionInv /\ ConsentInv /\ ErasureInv
    BY DEF PupilInv
  <1>2. RollsDistinct
    <2>1. ASSUME Max({0} \cup Rolls) < 10 PROVE SmallRolls
      <3>1. PICK S : S = {0} \cup Rolls
        OBVIOUS
      <3>2. IsFiniteSet(S) /\ S # {} /\ S \subseteq Nat /\ S \subseteq Int
        <4>1. IsFiniteSet(Rolls) /\ Rolls \subseteq Nat
          BY <1>1, TheRolls
        <4>2. IsFiniteSet({0})
          BY FS_Singleton
        <4>3. IsFiniteSet(S)
          BY <3>1, <4>1, <4>2, FS_Union
        <4>4. S \subseteq Nat /\ S # {} /\ Nat \subseteq Int
          BY <3>1, <4>1
        <4> QED BY <4>3, <4>4
      <3>3. PICK m : m = Max(S) /\ m < 10
        BY <2>1, <3>1
      <3>4. m \in S /\ \A x \in S : x <= m
        BY <3>2, <3>3, GreatestNumber
      <3>5. ASSUME NEW x \in S PROVE x < 10
        <4>1. x \in Nat /\ m \in Nat /\ x <= m
          BY <3>2, <3>4
        <4> QED BY <3>3, <4>1
      <3> QED BY <3>1, <3>5 DEF SmallRolls
    <2>2. {s \in Admitted : file[s].minted} = Minted
      BY DEF Minted
    <2>3. ~AllMinted => \E p \in Admitted : ~file[p].minted
      BY DEF AllMinted
    <2> QED BY <1>1, <2>1, <2>2, <2>3 DEF RollsDistinct, AdmissionInv
  <1>3. TrailTellsConsent
    <2> SUFFICES ASSUME NEW p \in Child, Clear("consent", p)
                 PROVE  consent[p].line = consent[p].status
      BY DEF TrailTellsConsent
    <2>1. \A d \in Desk : ~Has(d, "consent", p)
      BY <1>1 DEF Clear, Engaged, Stage, Has, ErrandsFit, ErrandFits
    <2> QED BY <1>1, <2>1 DEF ConsentInv, ConsentOf, Clear
  <1>4. ErasureHolds
    BY <1>1 DEF ErasureInv, ErasureOf, Taken, Intact, ErasureHolds
  <1> QED BY <1>2, <1>3, <1>4 DEF PupilsAgree

THEOREM PupilsAgreeHolds == PupilSpec => []PupilsAgree
BY PupilInvHolds, PupilsAgreeThen, PTL

=============================================================================
