---------------------------- MODULE WebsocketHub ----------------------------
(***************************************************************************)
(* The queue of messages for the dashboards (Resources.WebsocketChan): the  *)
(* goroutines that send to it, History.expire with the history's lock held, *)
(* API.processWebsocketData, which writes each message to every client, and *)
(* the clients' handlers.                                                  *)
(***************************************************************************)
EXTENDS Naturals, Sequences, FiniteSets

CONSTANTS
    Ingesters,  \* goroutines in Botex.HandleRequest
    Clients,    \* websocket connections
    QueueCap,   \* capacity of WebsocketChan (100 in the code)
    MaxExpired  \* bound: addresses that expire in one round

ASSUME SizeAssumption == QueueCap \in Nat \ {0} /\ MaxExpired \in Nat \ {0}

VARIABLES
    queue,      \* WebsocketChan: "event", or "list" (the blocked addresses)
    ing,        \* what each ingester is doing
    expiring,   \* History.expire, which holds History.mutex: messages still to send
    blocker,    \* blockWorker
    hub,        \* processWebsocketData: the message, the clients still to write to
    registered, \* API.websocketClients
    handler,    \* websocketHandler of each client
    broken,     \* clients whose connection fails on the next write
    awaiting    \* clients whose handler has put the list of blocked addresses into
                \* the queue and to whom it has not been written yet

vars == <<queue, ing, expiring, blocker, hub, registered, handler, broken, awaiting>>

senderVars == <<ing, expiring, blocker>>
clientVars == <<registered, handler, broken, awaiting>>

NoMessage == [pc |-> "idle", msg |-> "none", todo |-> {}, late |-> FALSE]
HubStates == [pc : {"idle", "lock", "write", "stopping", "stopped"},
              msg : {"none", "event", "list"}, todo : SUBSET Clients, late : BOOLEAN]
                 \cup [pc : {"notify", "notifyLast"}, client : Clients, msg : {"none", "event", "list"},
                       todo : SUBSET Clients, late : BOOLEAN]

\* The hub holds websocketClientsMutex.
HubLocks == hub.pc \in {"write", "notify", "stopping", "notifyLast"}

-----------------------------------------------------------------------------
(* The senders. *)

\* A slip: the queue takes one message too many.
HasRoomForOneMore == Len(queue) <= QueueCap

HasRoom == Len(queue) < QueueCap

Enqueue(msg) == HasRoom /\ queue' = Append(queue, msg)

\* HandleRequest: History.Add takes History.mutex; a new address is announced.
AddRequest(i) ==
    /\ \/ ing[i] = "idle" /\ ing' = [ing EXCEPT ![i] = "add"]
       \/ /\ ing[i] = "add" /\ expiring = 0
          /\ \E next \in {"idle", "announce"} : ing' = [ing EXCEPT ![i] = next]
    /\ UNCHANGED <<queue, expiring, blocker, hub, clientVars>>

AnnounceNew(i) ==
    /\ ing[i] = "announce"
    /\ Enqueue("event")
    /\ ing' = [ing EXCEPT ![i] = "idle"]
    /\ UNCHANGED <<expiring, blocker, hub, clientVars>>

\* History.expire takes the mutex, has addresses to remove, and announces each.
StartExpire ==
    /\ expiring = 0
    /\ expiring' \in 1..MaxExpired
    /\ UNCHANGED <<queue, ing, blocker, hub, clientVars>>

AnnounceExpired ==
    /\ expiring > 0
    /\ Enqueue("event")
    /\ expiring' = expiring - 1
    /\ UNCHANGED <<ing, blocker, hub, clientVars>>

\* blockWorker has written an entry and announces it.
BlockIP ==
    /\ blocker = "idle"
    /\ blocker' = "announce"
    /\ UNCHANGED <<queue, ing, expiring, hub, clientVars>>

AnnounceBlocked ==
    /\ blocker = "announce"
    /\ Enqueue("event")
    /\ blocker' = "idle"
    /\ UNCHANGED <<ing, expiring, hub, clientVars>>

-----------------------------------------------------------------------------
(* websocketHandler. *)

Connect(c) ==
    /\ handler[c] = "away"
    /\ handler' = [handler EXCEPT ![c] = "register"]
    /\ UNCHANGED <<queue, senderVars, hub, registered, broken, awaiting>>

Register(c) ==
    /\ handler[c] = "register"
    /\ ~HubLocks
    /\ registered' = registered \cup {c}
    /\ handler' = [handler EXCEPT ![c] = "list"]
    /\ UNCHANGED <<queue, senderVars, hub, broken, awaiting>>

\* A slip: the handler waits for room in the queue.
SendListBlocking(c) ==
    /\ handler[c] = "list"
    /\ Enqueue("list")
    /\ awaiting' = awaiting \cup {c}
    /\ handler' = [handler EXCEPT ![c] = "wait"]
    /\ UNCHANGED <<senderVars, hub, registered, broken>>

\* sendBlockedIPsToWebsocket sends the list if the store can be read and the queue
\* has room, and does nothing otherwise.
SendList(c) ==
    /\ handler[c] = "list"
    /\ \/ Enqueue("list") /\ awaiting' = awaiting \cup {c}
       \/ UNCHANGED <<queue, awaiting>>
    /\ handler' = [handler EXCEPT ![c] = "wait"]
    /\ UNCHANGED <<senderVars, hub, registered, broken>>

\* The connection fails, or its buffers are full.
Break(c) ==
    /\ handler[c] # "away" /\ c \notin broken
    /\ broken' = broken \cup {c}
    /\ UNCHANGED <<queue, senderVars, hub, registered, handler, awaiting>>

-----------------------------------------------------------------------------
(* processWebsocketData. *)

TakeMessage ==
    /\ hub.pc = "idle"
    /\ queue # <<>>
    /\ hub' = [NoMessage EXCEPT !.pc = "lock", !.msg = Head(queue)]
    /\ queue' = Tail(queue)
    /\ UNCHANGED <<senderVars, clientVars>>

LockClients ==
    /\ hub.pc = "lock"
    /\ hub' = [hub EXCEPT !.pc = "write", !.todo = registered]
    /\ UNCHANGED <<queue, senderVars, clientVars>>

Notifying(c) == [pc |-> "notify", client |-> c, msg |-> hub.msg, todo |-> hub.todo \ {c},
                 late |-> hub.late]

\* Slips: the first failure ends the round; nobody tells the handler.
RoundEnds(c) == [Notifying(c) EXCEPT !.todo = {}]
DontNotify(c) == [hub EXCEPT !.todo = @ \ {c}]

AfterFailure(c) == Notifying(c)

\* A write to a working connection, within the deadline of the round.
WriteTo(c) ==
    /\ hub.pc = "write" /\ c \in hub.todo
    /\ c \notin broken /\ ~hub.late
    /\ hub' = [hub EXCEPT !.todo = @ \ {c}]
    /\ awaiting' = IF hub.msg = "list" THEN awaiting \ {c} ELSE awaiting
    /\ UNCHANGED <<queue, senderVars, registered, handler, broken>>

\* The deadline of the round, one for all clients, is over: the lock, a slow client
\* or a handler took too long.
DeadlinePasses ==
    /\ hub.pc \in {"lock", "write", "notify"}
    /\ ~hub.late
    /\ hub' = [hub EXCEPT !.late = TRUE]
    /\ UNCHANGED <<queue, senderVars, clientVars>>

\* A write that fails removes the client.
FailTo(c) ==
    /\ hub.pc = "write" /\ c \in hub.todo
    /\ c \in broken \/ hub.late
    /\ hub' = AfterFailure(c)
    /\ registered' = registered \ {c}
    /\ UNCHANGED <<queue, senderVars, handler, broken, awaiting>>

\* The handler returns; its client may connect again.
Leave(c) ==
    /\ handler' = [handler EXCEPT ![c] = "away"]
    /\ broken' = broken \ {c}
    /\ awaiting' = awaiting \ {c}

\* The notice is received by the handler when it waits, and the handler returns.
Notify ==
    /\ hub.pc = "notify"
    /\ handler[hub.client] = "wait"
    /\ Leave(hub.client)
    /\ hub' = [pc |-> "write", msg |-> hub.msg, todo |-> hub.todo, late |-> hub.late]
    /\ UNCHANGED <<queue, senderVars, registered>>

UnlockClients ==
    /\ hub.pc = "write" /\ hub.todo = {}
    /\ hub' = NoMessage
    /\ UNCHANGED <<queue, senderVars, clientVars>>

\* The context is done: every client is closed and its handler notified.
Stop ==
    /\ hub.pc = "idle"
    /\ hub' = [NoMessage EXCEPT !.pc = "stopping", !.todo = registered]
    /\ UNCHANGED <<queue, senderVars, clientVars>>

CloseNext ==
    /\ \/ /\ hub.pc = "stopping" /\ hub.todo = {}
          /\ hub' = [hub EXCEPT !.pc = "stopped"]
          /\ UNCHANGED clientVars
       \/ /\ hub.pc = "stopping"
          /\ \E c \in hub.todo : hub' = [Notifying(c) EXCEPT !.pc = "notifyLast"]
          /\ UNCHANGED clientVars
       \/ /\ hub.pc = "notifyLast" /\ handler[hub.client] = "wait"
          /\ registered' = registered \ {hub.client}
          /\ Leave(hub.client)
          /\ hub' = [NoMessage EXCEPT !.pc = "stopping", !.todo = hub.todo]
    /\ UNCHANGED <<queue, senderVars>>

-----------------------------------------------------------------------------

Init ==
    /\ queue = <<>>
    /\ ing = [i \in Ingesters |-> "idle"]
    /\ expiring = 0
    /\ blocker = "idle"
    /\ hub = NoMessage
    /\ registered = {}
    /\ handler = [c \in Clients |-> "away"]
    /\ broken = {}
    /\ awaiting = {}

Senders ==
    \/ \E i \in Ingesters : AddRequest(i) \/ AnnounceNew(i)
    \/ StartExpire \/ AnnounceExpired \/ BlockIP \/ AnnounceBlocked

Handlers == \E c \in Clients : Connect(c) \/ Register(c) \/ SendList(c) \/ Break(c)

Hub ==
    \/ TakeMessage \/ LockClients \/ Notify \/ UnlockClients
    \/ \E c \in Clients : WriteTo(c) \/ FailTo(c)

Next == Senders \/ Handlers \/ Hub \/ DeadlinePasses \/ Stop \/ CloseNext

Spec == Init /\ [][Next]_vars

\* Goroutines that can go on do; a send or a lock that is possible again and
\* again is served, since Go's wait queues are first in, first out.  Nothing is
\* assumed of requests, blocks, expiry, clients and the end of the process.
Fairness ==
    /\ WF_vars(Hub) /\ WF_vars(CloseNext)
    /\ SF_vars(AnnounceExpired) /\ SF_vars(AnnounceBlocked)
    /\ \A i \in Ingesters : SF_vars(AnnounceNew(i)) /\ SF_vars(ing[i] = "add" /\ AddRequest(i))
    /\ \A c \in Clients : SF_vars(Register(c)) /\ WF_vars(SendList(c))

FairSpec == Spec /\ Fairness

-----------------------------------------------------------------------------
(* Properties. *)

\* The types of the variables; the queue holds at most its capacity.
TypeOK ==
    /\ queue \in Seq({"event", "list"}) /\ Len(queue) <= QueueCap
    /\ ing \in [Ingesters -> {"idle", "add", "announce"}]
    /\ expiring \in 0..MaxExpired
    /\ blocker \in {"idle", "announce"}
    /\ hub \in HubStates
    /\ registered \in SUBSET Clients
    /\ handler \in [Clients -> {"away", "register", "list", "wait"}]
    /\ broken \in SUBSET Clients
    /\ awaiting \in SUBSET Clients

\* While the hub runs, each handler that waits for its end will be told of it:
\* its client is registered, or the hub is about to notify it.
WaitersAreKnown ==
    \A c \in Clients :
        handler[c] = "wait" /\ hub.pc # "stopped" =>
            \/ c \in registered
            \/ hub.pc \in {"notify", "notifyLast"} /\ hub.client = c

\* The context is done and the hub takes no more messages.
Stopping == hub.pc \in {"stopping", "notifyLast", "stopped"}

\* Whatever the clients do, every announcement is sent: ingesters, blockWorker
\* and History.expire, with the lock it holds, are never stuck behind a dashboard
\* while the process runs.
SendersProgress ==
    /\ (expiring > 0) ~> (expiring = 0 \/ Stopping)
    /\ (blocker = "announce") ~> (blocker = "idle" \/ Stopping)
    /\ \A i \in Ingesters : (ing[i] # "idle") ~> (ing[i] = "idle" \/ Stopping)

\* A client whose handler got the blocked list into the queue receives it, unless
\* it is disconnected before: while it is connected it misses no message, whatever
\* becomes of the other clients.
ListArrives ==
    \A c \in Clients :
        (c \in awaiting) ~> (c \notin awaiting \/ Stopping)

\* The hub's end does not wait for a handler forever, although the queue may be
\* full by then and nobody empties it.
HubStops == Stopping ~> (hub.pc = "stopped")
=============================================================================
