------------------------------ MODULE ClassChat ------------------------------
(***************************************************************************)
(* The class-room chat: posting over HTTP, delivery over the sockets of    *)
(* ChatHub on several instances joined by Redis, and the app's chat tab,   *)
(* which loads the room and appends what is pushed to it.                  *)
(*                                                                         *)
(* A step is what runs between two awaits of a request, of the hub or of   *)
(* the tab. Redis delivers at most once, in order, to who is subscribed;   *)
(* instances restart, sockets drop, and pupils move to another section.    *)
(***************************************************************************)
EXTENDS Naturals, Sequences, FiniteSets

CONSTANTS
    Member, Student,  \* who has a room; of those, who may post to it
    Room, Server,
    Request,          \* POST requests under way
    PageSize,         \* messages a load answers with: 50 in the code
    MaxPosts,         \* bound: requests started
    MaxFaults         \* bound: restarts, drops, moves and failed calls to Redis

VARIABLES
    enrolled,  \* the room the database derives for each member
    message,   \* the messages stored: room and author
    interval,  \* lastChatPostAt of each instance: who posted less than 1.5 s ago
    posting,   \* each POST request
    marked,    \* subscribedBranches of each instance, and what became of the call
    pipe,      \* envelopes Redis has yet to hand to each instance
    tab,       \* the chat tab of each member
    posts, faults,
    owed       \* history: what a tab has been sent or has loaded

ASSUME ChatAssumption ==
    /\ Student \subseteq Member
    /\ PageSize \in Nat \ {0} /\ MaxPosts \in Nat /\ MaxFaults \in Nat

chatVars == <<enrolled, message, interval, posting, marked, pipe, tab, posts, faults, owed>>

Nowhere == "nowhere"
NoPost == [pc |-> "idle"]
NewTab == [pc |-> "closed", load |-> "none", shown |-> {}, wiped |-> FALSE,
           room |-> Nowhere, at |-> Nowhere, rows |-> {}]

ChatInit ==
    /\ enrolled \in [Member -> Room]
    /\ message = <<>>
    /\ interval = [i \in Server |-> {}]
    /\ posting = [r \in Request |-> NoPost]
    /\ marked = [i \in Server |-> "no"]
    /\ pipe = [i \in Server |-> <<>>]
    /\ tab = [u \in Member |-> NewTab]
    /\ posts = 0 /\ faults = 0
    /\ owed = [u \in Member |-> {}]

Live(u) == tab[u].pc = "live"
Faulty == faults < MaxFaults /\ faults' = faults + 1
InRoom(room) == {m \in DOMAIN message : message[m].room = room}
Page(room) == {m \in InRoom(room) : Cardinality({n \in InRoom(room) : n > m}) < PageSize}

-----------------------------------------------------------------------------
(* POST /chat/messages *)

\* chatRoomFor: only a student's own room can be posted to.
FindRoom(r, u, i) ==
    /\ posting[r].pc = "idle" /\ u \in Student /\ posts < MaxPosts
    /\ posts' = posts + 1
    /\ posting' = [posting EXCEPT ![r] =
                    [pc |-> "limit", user |-> u, at |-> i, room |-> enrolled[u]]]
    /\ UNCHANGED <<enrolled, message, interval, marked, pipe, tab, faults, owed>>

\* One post in 1.5 s of a user on this instance, or 429.
LimitRate(r) ==
    LET p == posting[r]
    IN  /\ p.user \notin interval[p.at]
        /\ posting' = [posting EXCEPT ![r].pc = "create"]
        /\ interval' = [interval EXCEPT ![p.at] = @ \cup {p.user}]

AcceptPost(r) ==
    /\ posting[r].pc = "limit"
    /\ LimitRate(r)
    /\ UNCHANGED <<enrolled, message, marked, pipe, tab, posts, faults, owed>>

RefusePost(r) ==
    /\ posting[r].pc = "limit" /\ posting[r].user \in interval[posting[r].at]
    /\ posting' = [posting EXCEPT ![r] = NoPost]
    /\ UNCHANGED <<enrolled, message, interval, marked, pipe, tab, posts, faults, owed>>

CreateMessage(r) ==
    /\ posting[r].pc = "create"
    /\ message' = Append(message, [room |-> posting[r].room, author |-> posting[r].user])
    /\ posting' = [posting EXCEPT ![r] = [pc |-> "publish", user |-> @.user, at |-> @.at,
                                          message |-> Len(message) + 1]]
    /\ UNCHANGED <<enrolled, interval, marked, pipe, tab, posts, faults, owed>>

\* deliverLocally: to the sockets of the instance whose ticket names the room.
Hears(i, m) == {u \in Member : Live(u) /\ tab[u].at = i /\ tab[u].room = message[m].room}
Delivered(i, m) ==
    tab' = [u \in Member |-> IF u \in Hears(i, m) THEN [tab[u] EXCEPT !.shown = @ \cup {m}]
                             ELSE tab[u]]

Subscribed == {i \in Server : marked[i] = "subscribed"}
HandOver(m) ==
    pipe' = [i \in Server |-> IF i \in Subscribed THEN Append(pipe[i], m) ELSE pipe[i]]

\* Mutation of Publish: delivered here only.
PublishHere(i, m) == Delivered(i, m) /\ UNCHANGED <<pipe, faults>>

\* publish: at once to this instance's sockets, then to all instances, this one
\* included; a call that fails is logged.
Publish(i, m) ==
    /\ Delivered(i, m)
    /\ \/ HandOver(m) /\ UNCHANGED faults
       \/ Faulty /\ UNCHANGED pipe

\* Answers 201; the tab that posted then loads the room again.
PublishMessage(r) ==
    /\ posting[r].pc = "publish"
    /\ LET i == posting[r].at
           m == posting[r].message
           reached == Hears(i, m) \cup
                      IF faults' = faults THEN UNION {Hears(j, m) : j \in Subscribed} ELSE {}
       IN  /\ Publish(i, m)
           /\ owed' = [u \in Member |-> IF u \in reached THEN owed[u] \cup {m} ELSE owed[u]]
    /\ posting' = [posting EXCEPT ![r] = NoPost]
    /\ UNCHANGED <<enrolled, message, interval, marked, posts>>

PassInterval(i, u) ==
    /\ u \in interval[i]
    /\ interval' = [interval EXCEPT ![i] = @ \ {u}]
    /\ UNCHANGED <<enrolled, message, posting, marked, pipe, tab, posts, faults, owed>>

-----------------------------------------------------------------------------
(* ChatHub *)

Receive(i) ==
    /\ pipe[i] # <<>>
    /\ Delivered(i, Head(pipe[i]))
    /\ pipe' = [pipe EXCEPT ![i] = Tail(@)]
    /\ UNCHANGED <<enrolled, message, interval, posting, marked, posts, faults, owed>>

\* ensureBranchSubscription returns: a failed call is tried again by the next socket.
Subscribe(i) ==
    /\ marked[i] = "asked"
    /\ \/ marked' = [marked EXCEPT ![i] = "subscribed"] /\ UNCHANGED faults
       \/ marked' = [marked EXCEPT ![i] = "no"] /\ Faulty
    /\ UNCHANGED <<enrolled, message, interval, posting, pipe, tab, posts, owed>>

\* The sockets of an instance drop with it; so do its requests and its memory.
RestartServer(i) ==
    /\ Faulty
    /\ interval' = [interval EXCEPT ![i] = {}]
    /\ posting' = [r \in Request |->
                     IF posting[r] # NoPost /\ posting[r].at = i THEN NoPost ELSE posting[r]]
    /\ marked' = [marked EXCEPT ![i] = "no"]
    /\ pipe' = [pipe EXCEPT ![i] = <<>>]
    /\ tab' = [u \in Member |-> IF Live(u) /\ tab[u].at = i THEN [tab[u] EXCEPT !.pc = "dead"]
                                ELSE tab[u]]
    /\ UNCHANGED <<enrolled, message, posts, owed>>

-----------------------------------------------------------------------------
(* The chat tab *)

Tab(u, t) == tab' = [tab EXCEPT ![u] = t]
TabRests == UNCHANGED <<enrolled, message, interval, posting, pipe, posts>>

\* Loading the room and asking for a ticket start together.
OpenTab(u) ==
    /\ tab[u].pc = "closed"
    /\ Tab(u, [tab[u] EXCEPT !.pc = "ticket", !.load = "asked"])
    /\ TabRests /\ UNCHANGED <<marked, faults, owed>>

\* The ticket names the room of its holder, and the socket it opens keeps that room.
MintTicket(u) ==
    /\ tab[u].pc = "ticket"
    /\ Tab(u, [tab[u] EXCEPT !.pc = "connect", !.room = enrolled[u]])
    /\ TabRests /\ UNCHANGED <<marked, faults, owed>>

Register(u, i) ==
    /\ tab[u].pc = "connect"
    /\ Tab(u, [tab[u] EXCEPT !.pc = "live", !.at = i])
    /\ marked' = [marked EXCEPT ![i] = IF @ = "no" THEN "asked" ELSE @]
    /\ TabRests /\ UNCHANGED <<faults, owed>>

\* Only a tab that got no ticket polls; one whose socket drops does nothing.
LoseSocket(u) ==
    /\ tab[u].pc \in {"ticket", "connect", "live"}
    /\ Faulty
    /\ Tab(u, [tab[u] EXCEPT !.pc = IF @ = "ticket" THEN "polling" ELSE "dead"])
    /\ TabRests /\ UNCHANGED <<marked, owed>>

\* A load after a post, or a poll.
AskAgain(u) ==
    /\ tab[u].pc # "closed" /\ tab[u].load = "none"
    /\ Tab(u, [tab[u] EXCEPT !.load = "asked"])
    /\ TabRests /\ UNCHANGED <<marked, faults, owed>>

ReadRoom(u) ==
    /\ tab[u].load = "asked"
    /\ Tab(u, [tab[u] EXCEPT !.load = "answered", !.rows = Page(enrolled[u])])
    /\ TabRests /\ UNCHANGED <<marked, faults, owed>>

\* A load replaces what is on the screen; a poll adds to it. What is older than
\* a whole page leaves the screen with it and is owed no more; anything else
\* that the load takes off the screen is wiped.
ShowRoom(u) ==
    LET rows == tab[u].rows
    IN  /\ tab[u].load = "answered"
        /\ \E adds \in {FALSE} \cup {tab[u].pc = "polling"} :
              LET dropped == IF adds \/ Cardinality(rows) < PageSize THEN {}
                             ELSE {m \in owed[u] : \A n \in rows : m < n}
              IN  /\ Tab(u, [tab[u] EXCEPT
                           !.load = "none",
                           !.shown = IF adds THEN @ \cup rows ELSE rows,
                           !.wiped = @ \/ (~adds /\ tab[u].shown \ (rows \cup dropped) # {})])
                  /\ owed' = [owed EXCEPT ![u] = (@ \ dropped) \cup rows]
        /\ TabRests /\ UNCHANGED <<marked, faults>>

\* The enrolment moves to another section; nothing tells the hub.
MoveSection(u, room) ==
    /\ enrolled[u] # room
    /\ Faulty
    /\ enrolled' = [enrolled EXCEPT ![u] = room]
    /\ UNCHANGED <<message, interval, posting, marked, pipe, tab, posts, owed>>

PostSteps(r) == \/ \E u \in Student, i \in Server : FindRoom(r, u, i)
           \/ AcceptPost(r) \/ RefusePost(r) \/ CreateMessage(r) \/ PublishMessage(r)
Hub(i) == (\E u \in Student : PassInterval(i, u)) \/ Receive(i) \/ Subscribe(i)
          \/ RestartServer(i)
Show(u) == \/ OpenTab(u) \/ MintTicket(u) \/ (\E i \in Server : Register(u, i)) \/ LoseSocket(u)
           \/ AskAgain(u) \/ ReadRoom(u) \/ ShowRoom(u)
           \/ \E room \in Room : MoveSection(u, room)

ChatNext ==
    \/ \E r \in Request : PostSteps(r)
    \/ \E i \in Server : Hub(i)
    \/ \E u \in Member : Show(u)

ChatSpec == ChatInit /\ [][ChatNext]_chatVars

-----------------------------------------------------------------------------
(* Properties *)

\* A tab whose socket is up shows all it has loaded and all that was published to
\* its room since, from any instance, once Redis has handed it over, back to the
\* oldest message of its last page; save one whose load, read before a push or of
\* another room, was shown over it (chat-hub.ts:229-241, index.ts:373-382,
\* 422-431, student_shell.dart:295-318).
SeesTheRoom ==
    \A u \in Member : Live(u) /\ pipe[tab[u].at] = <<>> /\ ~tab[u].wiped =>
        owed[u] \subseteq tab[u].shown
=============================================================================
