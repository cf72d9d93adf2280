------------------------- MODULE WebsocketHubProofs -------------------------
(***************************************************************************)
(* Theorems about WebsocketHub, for any number of ingesters and clients and *)
(* any capacity of the queue.                                              *)
(***************************************************************************)
EXTENDS WebsocketHub, TLAPS

-----------------------------------------------------------------------------
(* The hub's states. *)

Msgs == {"none", "event", "list"}
InRound == [pc : {"idle", "lock", "write", "stopping", "stopped"},
            msg : Msgs, todo : SUBSET Clients, late : BOOLEAN]
AtClient == [pc : {"notify", "notifyLast"}, client : Clients,
             msg : Msgs, todo : SUBSET Clients, late : BOOLEAN]

LEMMA HubSplit == HubStates = InRound \cup AtClient
  BY DEF HubStates, InRound, AtClient, Msgs

LEMMA InRoundPC ==
    ASSUME NEW h \in HubStates
    PROVE  IF h.pc \in {"notify", "notifyLast"} THEN h \in AtClient ELSE h \in InRound
  BY HubSplit DEF InRound, AtClient

LEMMA NoMessageTyped == NoMessage \in InRound
  BY DEF NoMessage, InRound, Msgs

\* The hub's record gets another place, message or set of clients.
LEMMA SetRound ==
    ASSUME NEW h \in InRound, NEW m \in Msgs, NEW S \in SUBSET Clients,
           NEW p \in {"idle", "lock", "write", "stopping", "stopped"}
    PROVE  /\ [h EXCEPT !.pc = p] \in InRound
           /\ [h EXCEPT !.msg = m] \in InRound
           /\ [h EXCEPT !.todo = S] \in InRound
  BY DEF InRound

LEMMA SetLate ==
    ASSUME NEW h \in HubStates
    PROVE  [h EXCEPT !.late = TRUE] \in HubStates
<1>1. CASE h \in InRound
  <2>1. [h EXCEPT !.late = TRUE] \in InRound
    BY <1>1, Zenon DEF InRound
  <2> QED
    BY <2>1, HubSplit
<1>2. CASE h \in AtClient
  <2>1. [h EXCEPT !.late = TRUE] \in AtClient
    BY <1>2, Zenon DEF AtClient
  <2> QED
    BY <2>1, HubSplit
<1> QED
  BY <1>1, <1>2, HubSplit

LEMMA RoundFields ==
    ASSUME NEW h \in InRound
    PROVE  h.msg \in Msgs /\ h.todo \in SUBSET Clients /\ h.late \in BOOLEAN
  BY Zenon DEF InRound

LEMMA ClientFields ==
    ASSUME NEW h \in AtClient
    PROVE  h.client \in Clients /\ h.msg \in Msgs /\ h.todo \in SUBSET Clients /\ h.late \in BOOLEAN
  BY Zenon DEF AtClient

\* The record of a hub that is about to notify a handler.
LEMMA NotifyingTyped ==
    ASSUME hub \in InRound, NEW c \in Clients, NEW p \in {"notify", "notifyLast"}
    PROVE  /\ [Notifying(c) EXCEPT !.pc = p] \in HubStates
           /\ Notifying(c) \in HubStates
           /\ Notifying(c).pc = "notify" /\ Notifying(c).client = c
           /\ [Notifying(c) EXCEPT !.pc = p].pc = p
           /\ [Notifying(c) EXCEPT !.pc = p].client = c
<1>1. hub.msg \in Msgs /\ hub.todo \ {c} \in SUBSET Clients /\ hub.late \in BOOLEAN
  BY RoundFields
<1>2. \A q \in {"notify", "notifyLast"} :
          [pc |-> q, client |-> c, msg |-> hub.msg, todo |-> hub.todo \ {c},
           late |-> hub.late] \in AtClient
  BY <1>1, Zenon DEF AtClient
<1>3. [Notifying(c) EXCEPT !.pc = p] =
          [pc |-> p, client |-> c, msg |-> hub.msg, todo |-> hub.todo \ {c}, late |-> hub.late]
  BY DEF Notifying
<1>4. Notifying(c) \in AtClient /\ [Notifying(c) EXCEPT !.pc = p] \in AtClient
  BY <1>2, <1>3 DEF Notifying
<1> QED
  BY <1>3, <1>4, HubSplit DEF Notifying

-----------------------------------------------------------------------------
(* Type correctness. *)

\* Enqueue keeps to the capacity.
LEMMA EnqueueTyped ==
    ASSUME TypeOK, NEW m \in {"event", "list"}, Enqueue(m)
    PROVE  queue' \in Seq({"event", "list"}) /\ Len(queue') <= QueueCap
<1>1. queue \in Seq({"event", "list"}) /\ Len(queue) \in Nat
  BY DEF TypeOK
<1>2. queue' = Append(queue, m) /\ Len(queue) < QueueCap
  BY DEF Enqueue, HasRoom
<1>3. Append(queue, m) \in Seq({"event", "list"})
  BY <1>1
<1>4. Len(Append(queue, m)) = Len(queue) + 1
  BY <1>1
<1> QED
  BY <1>1, <1>2, <1>3, <1>4, SizeAssumption

LEMMA SendersTyped ==
    ASSUME TypeOK, Senders PROVE TypeOK'
<1>1. ASSUME NEW i \in Ingesters, AddRequest(i) PROVE TypeOK'
  BY <1>1 DEF AddRequest, TypeOK, clientVars
<1>2. ASSUME NEW i \in Ingesters, AnnounceNew(i) PROVE TypeOK'
  BY <1>2, EnqueueTyped DEF AnnounceNew, TypeOK, clientVars
<1>3. CASE StartExpire
  BY <1>3, SizeAssumption DEF StartExpire, TypeOK, clientVars
<1>4. CASE AnnounceExpired
  BY <1>4, EnqueueTyped, SizeAssumption DEF AnnounceExpired, TypeOK, clientVars
<1>5. CASE BlockIP
  BY <1>5 DEF BlockIP, TypeOK, clientVars
<1>6. CASE AnnounceBlocked
  BY <1>6, EnqueueTyped DEF AnnounceBlocked, TypeOK, clientVars
<1> QED
  BY <1>1, <1>2, <1>3, <1>4, <1>5, <1>6 DEF Senders

LEMMA HandlersTyped ==
    ASSUME TypeOK, Handlers PROVE TypeOK'
<1>1. ASSUME NEW c \in Clients, Connect(c) PROVE TypeOK'
  BY <1>1 DEF Connect, TypeOK, senderVars
<1>2. ASSUME NEW c \in Clients, Register(c) PROVE TypeOK'
  BY <1>2 DEF Register, TypeOK, senderVars
<1>3. ASSUME NEW c \in Clients, SendList(c) PROVE TypeOK'
  BY <1>3, EnqueueTyped DEF SendList, TypeOK, senderVars
<1>4. ASSUME NEW c \in Clients, Break(c) PROVE TypeOK'
  BY <1>4 DEF Break, TypeOK, senderVars
<1> QED
  BY <1>1, <1>2, <1>3, <1>4 DEF Handlers

LEMMA HubTyped ==
    ASSUME TypeOK, Hub \/ DeadlinePasses \/ Stop \/ CloseNext PROVE TypeOK'
<1>0. hub \in HubStates
  BY DEF TypeOK
<1>1. CASE TakeMessage
  <2>1. queue # <<>> /\ queue \in Seq({"event", "list"}) /\ Len(queue) <= QueueCap
    BY <1>1 DEF TakeMessage, TypeOK
  <2>2. Tail(queue) \in Seq({"event", "list"}) /\ Len(Tail(queue)) = Len(queue) - 1
    BY <2>1
  <2>3. Head(queue) \in Msgs /\ Len(queue) \in Nat
    BY <2>1 DEF Msgs
  <2>4. hub' = [[NoMessage EXCEPT !.pc = "lock"] EXCEPT !.msg = Head(queue)]
    BY <1>1 DEF TakeMessage, NoMessage
  <2>5. {} \in SUBSET Clients
    OBVIOUS
  <2>6. hub' \in InRound
    BY <2>3, <2>4, <2>5, NoMessageTyped, SetRound
  <2>7. Len(queue') <= QueueCap
    BY <1>1, <2>1, <2>2, <2>3, SizeAssumption DEF TakeMessage
  <2> QED
    BY <1>1, <2>2, <2>6, <2>7, HubSplit DEF TakeMessage, TypeOK, senderVars, clientVars
<1>2. CASE LockClients
  <2>1. hub \in InRound
    BY <1>2, <1>0, InRoundPC DEF LockClients
  <2>2. hub' = [[hub EXCEPT !.pc = "write"] EXCEPT !.todo = registered]
    BY <1>2, <2>1 DEF LockClients, InRound
  <2>3. hub' \in InRound
    BY <2>1, <2>2, SetRound DEF TypeOK, Msgs
  <2> QED
    BY <1>2, <2>3, HubSplit DEF LockClients, TypeOK, senderVars, clientVars
<1>3. CASE Notify
  <2>1. hub \in AtClient
    BY <1>3, <1>0, InRoundPC DEF Notify
  <2>2. hub' \in InRound
    BY <1>3, <2>1, ClientFields DEF Notify, InRound
  <2> QED
    BY <1>3, <2>2, HubSplit DEF Notify, Leave, TypeOK, senderVars
<1>4. CASE UnlockClients
  BY <1>4, NoMessageTyped, HubSplit DEF UnlockClients, TypeOK, senderVars, clientVars
<1>5. ASSUME NEW c \in Clients, WriteTo(c) PROVE TypeOK'
  <2>1. hub \in InRound
    BY <1>5, <1>0, InRoundPC DEF WriteTo
  <2>2. hub.todo \ {c} \in SUBSET Clients
    BY <2>1, RoundFields
  <2>3. hub' \in InRound
    BY <1>5, <2>1, <2>2, SetRound DEF WriteTo, Msgs
  <2> QED
    BY <1>5, <2>3, HubSplit DEF WriteTo, TypeOK, senderVars
<1>6. ASSUME NEW c \in Clients, FailTo(c) PROVE TypeOK'
  <2>1. hub \in InRound
    BY <1>6, <1>0, InRoundPC DEF FailTo
  <2>2. hub' \in HubStates
    BY <1>6, <2>1, NotifyingTyped DEF FailTo, AfterFailure
  <2> QED
    BY <1>6, <2>2 DEF FailTo, TypeOK, senderVars
<1>7. CASE DeadlinePasses
  <2>1. hub' \in HubStates
    BY <1>7, <1>0, SetLate DEF DeadlinePasses
  <2> QED
    BY <1>7, <2>1 DEF DeadlinePasses, TypeOK, senderVars, clientVars
<1>8. CASE Stop
  <2>1. hub' = [[NoMessage EXCEPT !.pc = "stopping"] EXCEPT !.todo = registered]
    BY <1>8 DEF Stop, NoMessage
  <2>2. hub' \in InRound
    BY <2>1, NoMessageTyped, SetRound DEF TypeOK, Msgs
  <2> QED
    BY <1>8, <2>2, HubSplit DEF Stop, TypeOK, senderVars, clientVars
<1>9. CASE CloseNext
  <2>1. CASE hub.pc = "stopping" /\ hub.todo = {} /\ hub' = [hub EXCEPT !.pc = "stopped"]
             /\ UNCHANGED clientVars
    <3>1. hub \in InRound
      BY <2>1, <1>0, InRoundPC
    <3>2. hub' \in InRound
      BY <2>1, <3>1, SetRound DEF Msgs
    <3> QED
      BY <1>9, <2>1, <3>2, HubSplit DEF CloseNext, TypeOK, senderVars, clientVars
  <2>2. ASSUME NEW c \in hub.todo, hub.pc = "stopping", UNCHANGED clientVars,
               hub' = [Notifying(c) EXCEPT !.pc = "notifyLast"]
        PROVE  TypeOK'
    <3>1. hub \in InRound
      BY <2>2, <1>0, InRoundPC
    <3>2. c \in Clients
      BY <3>1, RoundFields
    <3>3. hub' \in HubStates
      BY <2>2, <3>1, <3>2, NotifyingTyped
    <3> QED
      BY <1>9, <2>2, <3>3 DEF CloseNext, TypeOK, senderVars, clientVars
  <2>3. CASE hub.pc = "notifyLast" /\ registered' = registered \ {hub.client} /\ Leave(hub.client)
             /\ hub' = [NoMessage EXCEPT !.pc = "stopping", !.todo = hub.todo]
    <3>1. hub \in AtClient
      BY <2>3, <1>0, InRoundPC
    <3>2. hub' = [[NoMessage EXCEPT !.pc = "stopping"] EXCEPT !.todo = hub.todo]
      BY <2>3 DEF NoMessage
    <3>3. hub' \in InRound
      BY <3>1, <3>2, NoMessageTyped, SetRound, ClientFields DEF Msgs
    <3> QED
      BY <1>9, <2>3, <3>3, HubSplit DEF CloseNext, Leave, TypeOK, senderVars
  <2> QED
    BY <1>9, <2>1, <2>2, <2>3 DEF CloseNext
<1> QED
  BY <1>1, <1>2, <1>3, <1>4, <1>5, <1>6, <1>7, <1>8, <1>9 DEF Hub

\* Every variable has its type and the queue keeps to its capacity, whatever the
\* clients do (Resources.WebsocketChan, processWebsocketData).
THEOREM Typing == Spec => []TypeOK
<1>1. Init => TypeOK
  BY NoMessageTyped, HubSplit, SizeAssumption DEF Init, TypeOK
<1>2. TypeOK /\ [Next]_vars => TypeOK'
  <2> SUFFICES ASSUME TypeOK, [Next]_vars PROVE TypeOK'
    OBVIOUS
  <2>1. CASE Next
    BY <2>1, SendersTyped, HandlersTyped, HubTyped DEF Next
  <2>2. CASE UNCHANGED vars
    BY <2>2 DEF vars, TypeOK
  <2> QED
    BY <2>1, <2>2
<1> QED
  BY <1>1, <1>2, PTL DEF Spec

-----------------------------------------------------------------------------
(* No handler is forgotten. *)

\* The hub is about to notify the handler of client c.
Notified(c) == hub.pc \in {"notify", "notifyLast"} /\ hub.client = c

\* WaitersAreKnown is not inductive: a handler is registered before it waits, so
\* the one that still sends its list has to be known as well.
WaitInv ==
    \A c \in Clients :
        handler[c] \in {"list", "wait"} /\ hub.pc # "stopped" => c \in registered \/ Notified(c)

\* Steps of the senders and of the handlers.
LEMMA OthersKeepWaitInv ==
    ASSUME TypeOK, WaitInv, Senders \/ Handlers PROVE WaitInv'
<1>1. CASE Senders
  BY <1>1 DEF Senders, AddRequest, AnnounceNew, StartExpire, AnnounceExpired, BlockIP,
              AnnounceBlocked, clientVars, WaitInv, Notified
<1>2. ASSUME NEW c \in Clients, Connect(c) PROVE WaitInv'
  BY <1>2 DEF Connect, WaitInv, Notified, TypeOK
<1>3. ASSUME NEW c \in Clients, Register(c) PROVE WaitInv'
  BY <1>3 DEF Register, WaitInv, Notified, TypeOK
<1>4. ASSUME NEW c \in Clients, SendList(c) PROVE WaitInv'
  BY <1>4 DEF SendList, WaitInv, Notified, TypeOK
<1>5. ASSUME NEW c \in Clients, Break(c) PROVE WaitInv'
  BY <1>5 DEF Break, WaitInv, Notified
<1> QED
  BY <1>1, <1>2, <1>3, <1>4, <1>5 DEF Handlers

\* Steps of the hub.  A client leaves the map only when its handler is notified.
LEMMA HubKeepsWaitInv ==
    ASSUME TypeOK, WaitInv, Hub \/ DeadlinePasses \/ Stop \/ CloseNext PROVE WaitInv'
<1>0. hub \in HubStates
  BY DEF TypeOK
<1>1. CASE TakeMessage \/ UnlockClients \/ Stop
  <2>1. UNCHANGED <<handler, registered>> /\ hub.pc \in {"idle", "write"}
    BY <1>1 DEF TakeMessage, UnlockClients, Stop, clientVars
  <2> QED
    BY <2>1 DEF WaitInv, Notified
<1>2. CASE LockClients
  <2>1. UNCHANGED <<handler, registered>> /\ hub.pc = "lock"
    BY <1>2 DEF LockClients, clientVars
  <2> QED
    BY <2>1 DEF WaitInv, Notified
<1>3. CASE Notify
  <2>1. hub.pc = "notify" /\ registered' = registered
        /\ handler' = [handler EXCEPT ![hub.client] = "away"]
    BY <1>3 DEF Notify, Leave
  <2>2. \A c \in Clients : handler'[c] \in {"list", "wait"} =>
            handler[c] \in {"list", "wait"} /\ c # hub.client
    BY <2>1 DEF TypeOK
  <2> QED
    BY <2>1, <2>2 DEF WaitInv, Notified
<1>4. ASSUME NEW c \in Clients, WriteTo(c) PROVE WaitInv'
  <2>1. UNCHANGED <<handler, registered>> /\ hub.pc = "write"
    BY <1>4 DEF WriteTo
  <2> QED
    BY <2>1 DEF WaitInv, Notified
<1>5. ASSUME NEW c \in Clients, FailTo(c) PROVE WaitInv'
  <2>1. handler' = handler /\ registered' = registered \ {c} /\ hub.pc = "write"
    BY <1>5 DEF FailTo
  <2>2. hub \in InRound
    BY <2>1, <1>0, InRoundPC
  <2>3. Notified(c)'
    BY <1>5, <2>2, NotifyingTyped DEF FailTo, AfterFailure, Notified
  <2>4. \A d \in Clients : handler'[d] \in {"list", "wait"} => d \in registered
    BY <2>1 DEF WaitInv, Notified
  <2> QED
    BY <2>1, <2>3, <2>4 DEF WaitInv
<1>6. CASE DeadlinePasses
  <2>1. UNCHANGED <<handler, registered>> /\ hub' = [hub EXCEPT !.late = TRUE]
    BY <1>6 DEF DeadlinePasses, clientVars
  <2>2. hub'.pc = hub.pc
    <3>1. CASE hub \in InRound
      BY <2>1, <3>1 DEF InRound
    <3>2. CASE hub \in AtClient
      BY <2>1, <3>2 DEF AtClient
    <3> QED
      BY <1>0, <3>1, <3>2, HubSplit
  <2>3. hub.pc \in {"notify", "notifyLast"} => hub'.client = hub.client
    <3> SUFFICES ASSUME hub.pc \in {"notify", "notifyLast"} PROVE hub'.client = hub.client
      OBVIOUS
    <3>1. hub \in AtClient
      BY <1>0, InRoundPC
    <3> QED
      BY <2>1, <3>1 DEF AtClient
  <2> QED
    BY <2>1, <2>2, <2>3 DEF WaitInv, Notified
<1>7. CASE CloseNext
  <2>1. CASE hub.pc = "stopping" /\ hub' = [hub EXCEPT !.pc = "stopped"]
    <3>1. hub \in InRound
      BY <2>1, <1>0, InRoundPC
    <3>2. hub'.pc = "stopped"
      BY <2>1, <3>1 DEF InRound
    <3> QED
      BY <3>2 DEF WaitInv
  <2>2. CASE hub.pc = "stopping" /\ UNCHANGED clientVars
    BY <2>2 DEF WaitInv, Notified, clientVars
  <2>3. CASE hub.pc = "notifyLast" /\ registered' = registered \ {hub.client} /\ Leave(hub.client)
    <3>1. \A c \in Clients : handler'[c] \in {"list", "wait"} =>
              handler[c] \in {"list", "wait"} /\ c # hub.client
      BY <2>3 DEF TypeOK, Leave
    <3> QED
      BY <2>3, <3>1 DEF WaitInv, Notified
  <2> QED
    BY <1>7, <2>1, <2>2, <2>3 DEF CloseNext
<1> QED
  BY <1>1, <1>2, <1>3, <1>4, <1>5, <1>6, <1>7 DEF Hub

\* While the hub runs, every handler that waits for its end will be told of it
\* (processWebsocketData, websocketHandler), for any number of clients.
THEOREM HandlersKnown == Spec => []WaitersAreKnown
<1>1. Init => WaitInv
  BY DEF Init, WaitInv
<1>2. TypeOK /\ WaitInv /\ [Next]_vars => WaitInv'
  <2> SUFFICES ASSUME TypeOK, WaitInv, [Next]_vars PROVE WaitInv'
    OBVIOUS
  <2>1. CASE Next
    BY <2>1, OthersKeepWaitInv, HubKeepsWaitInv DEF Next
  <2>2. CASE UNCHANGED vars
    BY <2>2 DEF vars, WaitInv, Notified
  <2> QED
    BY <2>1, <2>2
<1>3. WaitInv => WaitersAreKnown
  BY DEF WaitInv, WaitersAreKnown, Notified
<1> QED
  BY <1>1, <1>2, <1>3, Typing, PTL DEF Spec
=============================================================================
