--------------------------- MODULE NotificationHub ---------------------------
(***************************************************************************)
(* One notification engine: the registry of connected sockets (hub.go),    *)
(* the reader and the writer goroutine of each socket (session.go), and    *)
(* the publishers: API handlers, and the subscriber that pumps what Redis  *)
(* brings (redis.go, main.go).                                             *)
(*                                                                         *)
(* The registry is guarded by an RWMutex. A publisher reads it while it    *)
(* walks the sockets one by one; add, delete and a change of scope write   *)
(* it; a writer that waits keeps new readers out. The send channel of a    *)
(* socket holds Buffer frames; what is in them does not matter once they   *)
(* are queued. A send on a closed channel panics: the handler's recovery   *)
(* then runs what the goroutine has deferred.                              *)
(***************************************************************************)
EXTENDS Naturals, FiniteSets

CONSTANTS
    Client,    \* sockets, each used once
    UserOf,    \* the user and the tenant each socket authenticated as
    TenantOf,
    Channel,   \* the channels beside the user's own: branch, school, tenant
    Api,       \* request handlers of POST /notifications/send
    Redis,     \* the goroutine of the Redis subscriber
    Buffer,    \* sendBuffer, 256 in the code
    None

Publisher == Api \cup {Redis}
User   == {UserOf[c] : c \in Client}
Tenant == {TenantOf[c] : c \in Client}

ASSUME HubAssumption ==
    /\ Redis \notin Api /\ Buffer \in Nat \ {0}
    /\ None \notin Client \cup User

\* An envelope; the one for Redis has lost its channel and its target.
Envelope == [tenant : Tenant, channel : Channel \cup {"user", "unnamed"}, user : User \cup {None}]
NoEnvelope == [tenant |-> None, channel |-> "unnamed", user |-> None]
NothingWanted == [scope |-> {}, grants |-> {}]

VARIABLES
    clients,   \* the registry
    scope,     \* the channels a socket may receive beside its user's
    assertion, \* the channels the last assertion it was answered leaves it
    queue,     \* frames in its send channel
    shut,      \* is the send channel closed?
    socket,    \* the connection
    reader,    \* the goroutine of handleWS and readPump
    writer,    \* the goroutine of writePump
    wanted,    \* the scope a reader is about to apply, and what was granted
    removing,  \* sockets with a goroutine in h.remove started by Publish
    hub,       \* the goroutine of run, and the socket in its hands
    stopped,   \* has close been called?
    pub,       \* what each publisher has in hand, and whom it has yet to visit
    bus       \* envelopes in Redis

socketVars == <<socket, reader, writer, wanted, assertion>>
hubVars == <<clients, scope, queue, shut, socketVars, removing, hub, stopped, pub, bus>>

HubInit ==
    /\ clients = {}
    /\ scope = [c \in Client |-> {}]
    /\ assertion = [c \in Client |-> {}]
    /\ queue = [c \in Client |-> 0]
    /\ shut = [c \in Client |-> FALSE]
    /\ socket = [c \in Client |-> "none"]
    /\ reader = [c \in Client |-> "none"]
    /\ writer = [c \in Client |-> "none"]
    /\ wanted = [c \in Client |-> NothingWanted]
    /\ removing = {}
    /\ hub = [pc |-> "wait", c |-> None]
    /\ stopped = FALSE
    /\ pub = [p \in Publisher |-> [on |-> FALSE, env |-> NoEnvelope, todo |-> {}]]
    /\ bus = {}

-----------------------------------------------------------------------------
(* The lock. *)

Walking == \E p \in Publisher : pub[p].on
WriterWaits == hub.pc = "delete" \/ \E c \in Client : reader[c] \in {"add", "apply"}

Goes(c, pc) == reader' = [reader EXCEPT ![c] = pc]
HasRoom(c) == queue[c] < Buffer
Enqueue(c) == queue' = [queue EXCEPT ![c] = @ + 1]

-----------------------------------------------------------------------------
(* The hub: add, remove, run, close. *)

\* The server accepts connections until the process ends, also after close.
Connect(c) ==
    /\ reader[c] = "none"
    /\ socket' = [socket EXCEPT ![c] = "open"]
    /\ Goes(c, "add")
    /\ UNCHANGED <<clients, scope, queue, shut, writer, wanted, assertion, removing, hub,
                   stopped, pub, bus>>

Add(c) ==
    /\ reader[c] = "add" /\ ~Walking
    /\ clients' = clients \cup {c}
    /\ Goes(c, "hello")
    /\ UNCHANGED <<scope, queue, shut, socket, writer, wanted, assertion, removing, hub,
                   stopped, pub, bus>>

\* h.remove: run takes the socket, or has been told to stop.
HandOver(c) ==
    \/ hub.pc = "wait" /\ hub' = [pc |-> "delete", c |-> c]
    \/ stopped /\ UNCHANGED hub

RemoveDropped(c) ==
    /\ c \in removing
    /\ HandOver(c)
    /\ removing' = removing \ {c}
    /\ UNCHANGED <<clients, scope, queue, shut, socketVars, stopped, pub, bus>>

Leave(c) ==
    /\ reader[c] = "leave"
    /\ HandOver(c)
    /\ Goes(c, "close")
    /\ UNCHANGED <<clients, scope, queue, shut, socket, writer, wanted, assertion,
                   removing, stopped, pub, bus>>

\* Mutant: the socket is deleted without the lock.
DeleteUnlocked ==
    /\ hub.pc = "delete"
    /\ clients' = clients \ {hub.c}
    /\ hub' = [hub EXCEPT !.pc = "shut"]
    /\ UNCHANGED <<scope, queue, shut, socketVars, removing, stopped, pub, bus>>

Delete ==
    /\ hub.pc = "delete" /\ ~Walking
    /\ clients' = clients \ {hub.c}
    /\ hub' = [hub EXCEPT !.pc = "shut"]
    /\ UNCHANGED <<scope, queue, shut, socketVars, removing, stopped, pub, bus>>

Shutdown ==
    /\ hub.pc = "shut"
    /\ shut' = [shut EXCEPT ![hub.c] = TRUE]
    /\ hub' = [pc |-> "wait", c |-> None]
    /\ UNCHANGED <<clients, scope, queue, socketVars, removing, stopped, pub, bus>>

Stop ==
    /\ ~stopped
    /\ stopped' = TRUE
    /\ UNCHANGED <<clients, scope, queue, shut, socketVars, removing, hub, pub, bus>>

StopRun ==
    /\ stopped /\ hub.pc = "wait"
    /\ hub' = [hub EXCEPT !.pc = "done"]
    /\ UNCHANGED <<clients, scope, queue, shut, socketVars, removing, stopped, pub, bus>>

-----------------------------------------------------------------------------
(* The reader of a socket: handleWS, readPump, handleSubscribe. *)

\* A send that waits for room. A socket that was dropped before it was greeted
\* panics before anything is deferred: nobody closes the connection.
Hello(c) ==
    /\ reader[c] = "hello"
    /\ \/ /\ shut[c] /\ Goes(c, "lost")
          /\ UNCHANGED <<queue, writer>>
       \/ /\ ~shut[c] /\ HasRoom(c) /\ Enqueue(c)
          /\ writer' = [writer EXCEPT ![c] = "run"]
          /\ Goes(c, "read")
    /\ UNCHANGED <<clients, scope, shut, socket, wanted, assertion, removing, hub, stopped,
                   pub, bus>>

\* A frame the client sends: its answer is dropped when there is no room.
Pong(c) ==
    /\ reader[c] = "read" /\ socket[c] = "open"
    /\ \/ shut[c] /\ Goes(c, "leave") /\ UNCHANGED queue
       \/ ~shut[c] /\ HasRoom(c) /\ Enqueue(c) /\ UNCHANGED reader
    /\ UNCHANGED <<clients, scope, shut, socket, writer, wanted, assertion, removing, hub,
                   stopped, pub, bus>>

\* A subscribe with a fresh assertion: it grants g, of which r is asked for. One
\* that cannot be verified grants nothing and takes what there was.
Subscribe(c, g, r) ==
    /\ reader[c] = "read" /\ socket[c] = "open"
    /\ wanted' = [wanted EXCEPT ![c] = [scope |-> g \cap r, grants |-> g]]
    /\ Goes(c, "apply")
    /\ UNCHANGED <<clients, scope, queue, shut, socket, writer, assertion, removing, hub,
                   stopped, pub, bus>>

\* The assertion of somebody else is refused, and leaves the socket what it had.
SubscribeOther(c) ==
    /\ reader[c] = "read" /\ socket[c] = "open"
    /\ assertion' = [assertion EXCEPT ![c] = scope[c]]
    /\ Goes(c, "reply")
    /\ UNCHANGED <<clients, scope, queue, shut, socket, writer, wanted, removing, hub,
                   stopped, pub, bus>>

\* Mutant: what was held before is kept.
ApplySubscribeAdded(c) ==
    /\ reader[c] = "apply" /\ ~Walking
    /\ scope' = [scope EXCEPT ![c] = @ \cup wanted[c].scope]
    /\ assertion' = [assertion EXCEPT ![c] = wanted[c].grants]
    /\ wanted' = [wanted EXCEPT ![c] = NothingWanted]
    /\ Goes(c, "reply")
    /\ UNCHANGED <<clients, queue, shut, socket, writer, removing, hub, stopped, pub, bus>>

ApplySubscribe(c) ==
    /\ reader[c] = "apply" /\ ~Walking
    /\ scope' = [scope EXCEPT ![c] = wanted[c].scope]
    /\ assertion' = [assertion EXCEPT ![c] = wanted[c].grants]
    /\ wanted' = [wanted EXCEPT ![c] = NothingWanted]
    /\ Goes(c, "reply")
    /\ UNCHANGED <<clients, queue, shut, socket, writer, removing, hub, stopped, pub, bus>>

\* The answer to a subscribe waits for room.
Reply(c) ==
    /\ reader[c] = "reply"
    /\ \/ shut[c] /\ Goes(c, "leave") /\ UNCHANGED queue
       \/ ~shut[c] /\ HasRoom(c) /\ Enqueue(c) /\ Goes(c, "read")
    /\ UNCHANGED <<clients, scope, shut, socket, writer, wanted, assertion, removing, hub,
                   stopped, pub, bus>>

ReadFails(c) ==
    /\ reader[c] = "read" /\ socket[c] = "closed"
    /\ Goes(c, "leave")
    /\ UNCHANGED <<clients, scope, queue, shut, socket, writer, wanted, assertion, removing,
                   hub, stopped, pub, bus>>

CloseConn(c) ==
    /\ reader[c] = "close"
    /\ socket' = [socket EXCEPT ![c] = "closed"]
    /\ Goes(c, "gone")
    /\ UNCHANGED <<clients, scope, queue, shut, writer, wanted, assertion, removing, hub,
                   stopped, pub, bus>>

-----------------------------------------------------------------------------
(* The writer of a socket: writePump. *)

Write(c) ==
    /\ writer[c] = "run" /\ queue[c] > 0 /\ socket[c] = "open"
    /\ queue' = [queue EXCEPT ![c] = @ - 1]
    /\ UNCHANGED <<clients, scope, shut, socketVars, removing, hub, stopped, pub, bus>>

\* The end of writePump: a write or a ping that fails (with the frame it took),
\* or a channel that is closed and empty.
WriterEnds(c) ==
    /\ writer[c] = "run"
    /\ writer' = [writer EXCEPT ![c] = "done"]
    /\ socket' = [socket EXCEPT ![c] = "closed"]
    /\ UNCHANGED <<clients, scope, shut, reader, wanted, assertion, removing, hub, stopped,
                   pub, bus>>

WriteFails(c) ==
    /\ WriterEnds(c)
    /\ \/ UNCHANGED queue
       \/ queue[c] > 0 /\ queue' = [queue EXCEPT ![c] = @ - 1]

ChannelClosed(c) ==
    /\ shut[c] /\ queue[c] = 0
    /\ WriterEnds(c)
    /\ UNCHANGED queue

\* The peer goes away, or its pongs stop.
Disconnect(c) ==
    /\ socket[c] = "open"
    /\ socket' = [socket EXCEPT ![c] = "closed"]
    /\ UNCHANGED <<clients, scope, queue, shut, reader, writer, wanted, assertion, removing,
                   hub, stopped, pub, bus>>

-----------------------------------------------------------------------------
(* The publishers. *)

Entitled(c, env) ==
    /\ env.tenant = TenantOf[c]
    /\ \/ env.channel = "user" /\ env.user = UserOf[c]
       \/ env.channel \in scope[c]
       \/ env.channel = "unnamed" /\ "tenant" \in scope[c]

StartPublish(p, env) ==
    /\ ~pub[p].on /\ ~WriterWaits
    /\ pub' = [pub EXCEPT ![p] = [on |-> TRUE, env |-> env, todo |-> clients]]

\* POST /notifications/send.
Send(p, env) ==
    /\ env.channel # "unnamed" /\ (env.user # None) = (env.channel = "user")
    /\ StartPublish(p, env)
    /\ UNCHANGED <<clients, scope, queue, shut, socketVars, removing, hub, stopped, bus>>

\* The subscriber takes an envelope from Redis.
Receive(env) ==
    /\ env \in bus
    /\ StartPublish(Redis, env)
    /\ bus' = bus \ {env}
    /\ UNCHANGED <<clients, scope, queue, shut, socketVars, removing, hub, stopped>>

\* Mutant: a full channel is waited for.
QueueOrWait(c) == HasRoom(c) /\ Enqueue(c) /\ UNCHANGED removing

\* A full channel: the socket is dropped, and the walk goes on.
QueueOrDrop(c) ==
    \/ HasRoom(c) /\ Enqueue(c) /\ UNCHANGED removing
    \/ ~HasRoom(c) /\ removing' = removing \cup {c} /\ UNCHANGED queue

Visit(p, c) ==
    /\ pub[p].on /\ c \in pub[p].todo
    /\ pub' = [pub EXCEPT ![p].todo = @ \ {c}]
    /\ IF Entitled(c, pub[p].env) THEN QueueOrDrop(c) ELSE UNCHANGED <<queue, removing>>
    /\ UNCHANGED <<clients, scope, shut, socketVars, hub, stopped, bus>>

\* A handler then hands Redis the envelope it was given, without channel and
\* target; Redis may be down, and this engine is a subscriber too.
EndPublish(p) ==
    LET copy == [pub[p].env EXCEPT !.channel = "unnamed", !.user = None]
    IN  /\ pub[p].on /\ pub[p].todo = {}
        /\ pub' = [pub EXCEPT ![p] = [on |-> FALSE, env |-> NoEnvelope, todo |-> {}]]
        /\ \/ UNCHANGED bus
           \/ p \in Api /\ bus' = bus \cup {copy}
        /\ UNCHANGED <<clients, scope, queue, shut, socketVars, removing, hub, stopped>>

-----------------------------------------------------------------------------
Reader(c) == Add(c) \/ Hello(c) \/ ApplySubscribe(c) \/ Reply(c) \/ ReadFails(c)
             \/ Leave(c) \/ CloseConn(c)
Writer(c) == Write(c) \/ ChannelClosed(c) \/ (socket[c] = "closed" /\ WriteFails(c))
Run == Delete \/ Shutdown \/ StopRun
Walk(p) == (\E c \in Client : Visit(p, c)) \/ EndPublish(p)
Peer(c) ==
    \/ Connect(c) \/ Disconnect(c) \/ Pong(c) \/ SubscribeOther(c)
    \/ \E g, r \in SUBSET Channel : Subscribe(c, g, r)
    \/ WriteFails(c)

HubNext ==
    \/ \E c \in Client : Reader(c) \/ Writer(c) \/ Peer(c) \/ RemoveDropped(c)
    \/ Run \/ Stop
    \/ \E p \in Publisher : Walk(p)
    \/ \E p \in Api, env \in Envelope : Send(p, env)
    \/ \E env \in Envelope : Receive(env)

HubSpec == HubInit /\ [][HubNext]_hubVars

\* Goroutines that can run do; a mutex that is asked for is had in the end, and
\* the select of run takes every sender in turn.
HubFairness ==
    /\ \A c \in Client : WF_hubVars(Reader(c)) /\ WF_hubVars(Writer(c))
    /\ \A c \in Client : SF_hubVars(Leave(c)) /\ SF_hubVars(RemoveDropped(c))
    /\ WF_hubVars(Run)
    /\ \A p \in Publisher : WF_hubVars(Walk(p))

HubFairSpec == HubSpec /\ HubFairness

-----------------------------------------------------------------------------
(* Properties. *)

\* A publisher never sends on a closed channel, whatever leaves while it walks:
\* in the Redis goroutine the panic would end the process (hub.go:110-129).
NoSendOnClosed ==
    \A p \in Publisher, c \in Client :
        pub[p].on /\ c \in pub[p].todo => ~shut[c]

\* A socket's scope never exceeds what the last assertion it was answered leaves
\* it: its own grants, nothing if it cannot be verified. The assertion of another
\* identity leaves what was there, where the comment has any failed subscribe take
\* it away (session.go:180-226).
ScopeIsLastGrant == \A c \in Client : scope[c] \subseteq assertion[c]

\* What the assertion and the identity of a socket let it hear. An envelope that
\* went through Redis names no channel.
MayHear(c, env) ==
    /\ env.tenant = TenantOf[c]
    /\ \/ env.channel = "user" /\ env.user = UserOf[c]
       \/ env.channel \in assertion[c]
       \/ env.channel = "unnamed" /\ "tenant" \in assertion[c]

\* A publisher that visits a socket queues a frame only if the socket may hear it
\* by then, whatever was granted or taken away before (hub.go:121-205).
HeardByEntitled ==
    \A p \in Publisher, c \in Client :
        c \in pub[p].todo /\ c \notin pub'[p].todo /\ queue'[c] # queue[c]
            => MayHear(c, pub[p].env)

\* No publisher sends on a closed channel, no socket keeps a channel that its last
\* assertion does not leave it, and none is sent a frame it may not hear.
SocketsAreSafe ==
    /\ [](NoSendOnClosed /\ ScopeIsLastGrant)
    /\ [][HeardByEntitled]_hubVars

\* A reader that waits for room in a channel nobody empties.
Blocked(c) ==
    /\ reader[c] \in {"hello", "reply"} /\ ~HasRoom(c)
    /\ writer[c] # "run" /\ ~shut[c]

\* A closed connection leaves the registry, before or after the engine was told
\* to stop, unless its reader waits for room nobody will make.
ClosedLeaves ==
    \A c \in Client :
        socket[c] = "closed" ~> c \notin clients \/ stopped \/ Blocked(c)

\* A slow client does not hold up a publisher, and a reader that leaves gets
\* out, also when the hub has stopped.
NobodyWaits ==
    /\ \A p \in Publisher : pub[p].on ~> ~pub[p].on
    /\ \A c \in Client : reader[c] = "leave" ~> reader[c] = "gone"

\* What every pump and publisher may count on, however slow its neighbours
\* (hub.go:121-170, session.go:120-200).
HubServes == ClosedLeaves /\ NobodyWaits
=============================================================================
