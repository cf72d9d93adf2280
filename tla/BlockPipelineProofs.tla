------------------------ MODULE BlockPipelineProofs ------------------------
(***************************************************************************)
(* Theorems about BlockPipeline, for all values of its constants: types,    *)
(* blocks last, whitelisted addresses, the refinement of BlockList, and    *)
(* what rests on the hostname of an object.                                *)
(***************************************************************************)
EXTENDS BlockPipeline, TLAPS

-----------------------------------------------------------------------------
(* The fields of an object and of a goroutine's state keep their types. *)

LEMMA BlankTyped == Blank \in IPDatas
  BY LimitAssumption DEF IPDatas, Blank, Levels, Hosts

LEMMA SetLevel ==
    ASSUME NEW d \in IPDatas, NEW l \in Levels PROVE [d EXCEPT !.level = l] \in IPDatas
  BY DEF IPDatas

LEMMA SetHost ==
    ASSUME NEW d \in IPDatas, NEW h \in Hosts PROVE [d EXCEPT !.host = h] \in IPDatas
  BY DEF IPDatas

LEMMA SetAge ==
    ASSUME NEW d \in IPDatas, NEW n \in 0..(Retention + 1)
    PROVE  [d EXCEPT !.age = n] \in IPDatas
  BY DEF IPDatas

LEMMA SetSince ==
    ASSUME NEW d \in IPDatas, NEW n \in 0..(BlockTTL + 1)
    PROVE  [d EXCEPT !.since = n] \in IPDatas
  BY DEF IPDatas

LEMMA SetFlag ==
    ASSUME NEW d \in IPDatas, NEW b \in BOOLEAN
    PROVE  /\ [d EXCEPT !.used = b] \in IPDatas
           /\ [d EXCEPT !.force = b] \in IPDatas
           /\ [d EXCEPT !.wl = b] \in IPDatas
           /\ [d EXCEPT !.isBlocked = b] \in IPDatas
  BY Zenon DEF IPDatas

\* IPData.Add: a request makes the object young and used.
LEMMA RecordTyped ==
    ASSUME NEW d \in IPDatas
    PROVE  [d EXCEPT !.age = 0, !.used = TRUE] \in IPDatas
<1>1. [d EXCEPT !.age = 0] \in IPDatas
  BY SetAge, LimitAssumption
<1> QED
  BY <1>1, SetFlag, Zenon

\* IPData.Update: an order restarts the block TTL of the object.
LEMMA OrderTyped ==
    ASSUME NEW d \in IPDatas, NEW u
    PROVE  Ordered(u, d) \in IPDatas
<1>1. [d EXCEPT !.since = 0] \in IPDatas
  BY SetSince, LimitAssumption
<1>2. (d.force \/ u = "asn") \in BOOLEAN
  BY DEF IPDatas
<1> QED
  BY <1>1, <1>2, SetFlag, Zenon DEF Ordered

\* A tick makes an object older.
LEMMA AgedTyped ==
    ASSUME NEW d \in IPDatas
    PROVE  [d EXCEPT !.age = OrMore(@, Retention + 1),
                     !.since = OrMore(@, BlockTTL + 1)] \in IPDatas
<1>1. OrMore(d.age, Retention + 1) \in 0..(Retention + 1)
  BY LimitAssumption DEF IPDatas, OrMore
<1>2. OrMore(d.since, BlockTTL + 1) \in 0..(BlockTTL + 1)
  BY LimitAssumption DEF IPDatas, OrMore
<1>3. [d EXCEPT !.age = OrMore(d.age, Retention + 1)] \in IPDatas
  BY <1>1, SetAge
<1> QED
  BY <1>2, <1>3, SetSince, Zenon

LEMMA StoreObject ==
    ASSUME NEW f \in [Objs -> IPDatas], NEW o \in Objs, NEW d \in IPDatas
    PROVE  [f EXCEPT ![o] = d] \in [Objs -> IPDatas]
  OBVIOUS

LEMMA UnlistedIsNot == ~(Unlisted.ttl > 0)
  BY DEF Unlisted

LEMMA UnlistedTyped == Unlisted \in Entries
  BY LimitAssumption DEF Unlisted, Entries, Hosts

LEMMA AgedEntryTyped == ASSUME NEW e \in Entries PROVE Aged(e) \in Entries
<1>1. CASE e.ttl > 1
  <2>1. e.ttl - 1 \in 0..BlockTTL
    BY <1>1, LimitAssumption DEF Entries
  <2>2. [e EXCEPT !.ttl = e.ttl - 1] \in Entries
    BY <2>1 DEF Entries
  <2> QED
    BY <1>1, <2>2 DEF Aged
<1>2. CASE ~(e.ttl > 1)
  BY <1>2, UnlistedTyped DEF Aged
<1> QED
  BY <1>1, <1>2

\* An updater that goes on does so with the object it has.
LEMMA UpdaterGoesOn ==
    ASSUME NEW s \in UpdaterStates, s.pc # "idle", NEW p \in {"screen", "judge", "mark", "send"}
    PROVE  /\ [s EXCEPT !.pc = p] \in UpdaterStates
           /\ [s EXCEPT !.pc = p].pc = p
           /\ [s EXCEPT !.pc = p].obj = s.obj
           /\ s.obj \in Objs
  BY DEF UpdaterStates, IdleUpdater

LEMMA IngesterSends ==
    ASSUME NEW s \in IngesterStates, s.pc # "idle", NEW l \in Levels
    PROVE  /\ [s EXCEPT !.pc = "send", !.level = l] \in IngesterStates
           /\ s.ip \in IPs /\ s.level \in Levels
<1>1. s \in [pc : {"record", "send"}, ip : IPs, level : Levels]
  BY DEF IngesterStates, IdleIngester
<1>2. [s EXCEPT !.pc = "send"] \in [pc : {"record", "send"}, ip : IPs, level : Levels]
  BY <1>1
<1>3. [s EXCEPT !.pc = "send", !.level = l] \in [pc : {"record", "send"}, ip : IPs, level : Levels]
  BY <1>2
<1> QED
  BY <1>1, <1>3 DEF IngesterStates

\* History.update leaves objects and updaters well typed.
LEMMA UpdateTyped ==
    ASSUME TypeOK, NEW u \in Updaters, NEW ip \in IPs, NEW l \in Levels, Update(u, ip, l)
    PROVE  ipd' \in [Objs -> IPDatas] /\ upd' \in [Updaters -> UpdaterStates]
<1>1. CASE UNCHANGED <<ipd, upd>>
  BY <1>1 DEF TypeOK
<1>2. ASSUME NEW o \in EntryOf(ip), ipd' = [ipd EXCEPT ![o].level = l],
             upd' = [upd EXCEPT ![u] = [pc |-> "screen", obj |-> o]]
      PROVE  ipd' \in [Objs -> IPDatas] /\ upd' \in [Updaters -> UpdaterStates]
  <2>1. o \in Objs
    BY <1>2 DEF EntryOf, TypeOK
  <2>2. [ipd[o] EXCEPT !.level = l] \in IPDatas
    BY <2>1, SetLevel DEF TypeOK
  <2>3. [pc |-> "screen", obj |-> o] \in UpdaterStates
    BY <2>1 DEF UpdaterStates
  <2> QED
    BY <1>2, <2>1, <2>2, <2>3 DEF TypeOK
<1> QED
  BY <1>1, <1>2 DEF Update

-----------------------------------------------------------------------------
\* Every reachable state is well typed; in particular no channel is filled
\* beyond its capacity and no goroutine works on a missing object.
THEOREM Typing == Spec => []TypeOK
<1>1. Init => TypeOK
  <2> SUFFICES ASSUME Init PROVE TypeOK
    OBVIOUS
  <2>1. ipd \in [Objs -> IPDatas] /\ store \in [IPs -> Entries] /\ lookups \in [IPs -> 0..(MaxLookups + 1)]
    BY BlankTyped, UnlistedTyped, LimitAssumption DEF Init
  <2>2. ing \in [Ingesters -> IngesterStates] /\ upd \in [Updaters -> UpdaterStates]
         /\ worker \in WorkerStates
    BY DEF Init, IngesterStates, UpdaterStates, WorkerStates
  <2>3. orders \in Seq(Objs) /\ Len(orders) <= BlockCap
    BY LimitAssumption DEF Init
  <2>4. netStore \in [Groups -> 0..BlockTTL] /\ rechecks \in 0..SignalCap
         /\ checks \in 0..SignalCap
    BY LimitAssumption DEF Init
  <2> QED
    BY <2>1, <2>2, <2>3, <2>4 DEF Init, TypeOK
<1>2. ASSUME TypeOK, [Next]_vars PROVE TypeOK'
  <2> USE <1>2
  <2>1. ASSUME NEW i \in Ingesters, NEW ip \in IPs, Insert(i, ip) PROVE TypeOK'
    <3>1. [pc |-> "record", ip |-> ip, level |-> "none"] \in IngesterStates
      BY DEF IngesterStates, Levels
    <3>2. NewIPData(ip) \in IPDatas
      BY BlankTyped, SetFlag, Zenon DEF NewIPData, Whitelisted
    <3>3. history' \subseteq Objs /\ ipd' \in [Objs -> IPDatas]
      BY <2>1, <3>2 DEF Insert, TypeOK, Objs
    <3> QED
      BY <2>1, <3>1, <3>3
         DEF Insert, TypeOK, judgeVars, workVars, listVars, signalVars, resolveVars
  <2>2. ASSUME NEW i \in Ingesters, Record(i) PROVE TypeOK'
    <3>1. CASE EntryOf(ing[i].ip) = {} /\ ing' = [ing EXCEPT ![i] = IdleIngester] /\ UNCHANGED ipd
      BY <2>2, <3>1 DEF Record, TypeOK, IngesterStates, judgeVars, workVars, listVars,
                        signalVars, resolveVars
    <3>2. ASSUME NEW o \in EntryOf(ing[i].ip), NEW l \in Levels \ {"none"},
                 ing' = [ing EXCEPT ![i] = [@ EXCEPT !.pc = "send", !.level = l]],
                 ipd' = [ipd EXCEPT ![o] = [@ EXCEPT !.age = 0, !.used = TRUE]]
          PROVE  TypeOK'
      <4>1. o \in Objs
        BY <3>2 DEF EntryOf, TypeOK
      <4>2. [ipd[o] EXCEPT !.age = 0, !.used = TRUE] \in IPDatas
        BY <4>1, RecordTyped DEF TypeOK
      <4>3. [ing[i] EXCEPT !.pc = "send", !.level = l] \in IngesterStates
        BY <2>2, IngesterSends DEF Record, TypeOK
      <4> QED
        BY <2>2, <3>2, <4>1, <4>2, <4>3
           DEF Record, TypeOK, judgeVars, workVars, listVars, signalVars, resolveVars
    <3> QED
      BY <2>2, <3>1, <3>2 DEF Record
  <2>3. ASSUME NEW i \in Ingesters, Receive(i) PROVE TypeOK'
    <3>1. ing[i].ip \in IPs /\ ing[i].level \in Levels
      BY <2>3, IngesterSends DEF Receive, TypeOK, Levels
    <3>2. ipd' \in [Objs -> IPDatas] /\ upd' \in [Updaters -> UpdaterStates]
      BY <2>3, <3>1, UpdateTyped DEF Receive, Updaters
    <3> QED
      BY <2>3, <3>2 DEF Receive, TypeOK, IngesterStates, workVars, listVars, signalVars, resolveVars
  <2>4. ASSUME ReceiveNotice PROVE TypeOK'
    <3>1. PICK ip \in notice : Update("history", ip, NoticeLevel) /\ notice' = notice \ {ip}
      BY <2>4 DEF ReceiveNotice
    <3>2. ipd' \in [Objs -> IPDatas] /\ upd' \in [Updaters -> UpdaterStates]
      BY <3>1, UpdateTyped DEF TypeOK, Updaters, NoticeLevel, Levels
    <3> QED
      BY <2>4, <3>1, <3>2 DEF ReceiveNotice, TypeOK, workVars, listVars, signalVars
  <2>5. ASSUME NEW u \in Updaters, Screen(u) PROVE TypeOK'
    <3>1. upd[u].obj \in Objs /\ [upd[u] EXCEPT !.pc = "judge"] \in UpdaterStates
      BY <2>5, UpdaterGoesOn DEF Screen, TypeOK
    <3>2. [ipd[upd[u].obj] EXCEPT !.wl = TRUE] \in IPDatas
      BY <3>1, SetFlag DEF TypeOK
    <3>3. ipd' \in [Objs -> IPDatas]
      BY <2>5, <3>1, <3>2 DEF Screen, TypeOK
    <3>4. upd' \in [Updaters -> UpdaterStates]
      BY <2>5, <3>1 DEF Screen, TypeOK, UpdaterStates
    <3> QED
      BY <2>5, <3>3, <3>4
         DEF Screen, TypeOK, ingestVars, workVars, listVars, signalVars, resolveVars
  <2>6. ASSUME NEW u \in Updaters, Judge(u) PROVE TypeOK'
    <3>1. upd[u].obj \in Objs /\ [upd[u] EXCEPT !.pc = "send"] \in UpdaterStates
      BY <2>6, UpdaterGoesOn DEF Judge, TypeOK
    <3>2. [upd[u] EXCEPT !.pc = "mark"] \in UpdaterStates
      BY <2>6, UpdaterGoesOn DEF Judge, TypeOK
    <3>3. Ordered(u, ipd[upd[u].obj]) \in IPDatas
      BY <3>1, OrderTyped DEF TypeOK
    <3>4. ipd' \in [Objs -> IPDatas]
      <4>1. ipd \in [Objs -> IPDatas]
        BY DEF TypeOK
      <4> QED
        BY <2>6, <3>1, <3>3, <4>1, StoreObject, Zenon DEF Judge
    <3>5. upd' \in [Updaters -> UpdaterStates]
      BY <2>6, <3>1, <3>2 DEF Judge, TypeOK, UpdaterStates
    <3> QED
      BY <2>6, <3>4, <3>5
         DEF Judge, TypeOK, ingestVars, workVars, listVars, signalVars, resolveVars
  <2>23. ASSUME NEW u \in Updaters, Mark(u) PROVE TypeOK'
    <3>1. upd[u].obj \in Objs
      BY <2>23, UpdaterGoesOn DEF Mark, TypeOK
    <3>2. BeingResolved(ipd[upd[u].obj]) \in IPDatas
      BY <3>1, SetHost DEF TypeOK, Hosts, BeingResolved
    <3>3. ipd' \in [Objs -> IPDatas]
      <4>1. ipd \in [Objs -> IPDatas]
        BY DEF TypeOK
      <4> QED
        BY <2>23, <3>1, <3>2, <4>1, StoreObject, Zenon DEF Mark
    <3>4. lookups' \in [IPs -> 0..(MaxLookups + 1)]
      <4>1. upd[u].obj[1] \in IPs
        BY <3>1 DEF Objs
      <4>2. \A ip \in IPs : OrMore(lookups[ip], MaxLookups + 1) \in 0..(MaxLookups + 1)
        BY LimitAssumption DEF TypeOK, OrMore
      <4> QED
        BY <2>23, <4>1, <4>2 DEF Mark, TypeOK
    <3> QED
      BY <2>23, <3>3, <3>4
         DEF Mark, TypeOK, UpdaterStates, ingestVars, workVars, listVars, signalVars
  <2>7. ASSUME NEW u \in Updaters, Send(u) PROVE TypeOK'
    <3>1. upd[u].obj \in Objs
      BY <2>7, UpdaterGoesOn DEF Send, TypeOK
    <3> QED
      BY <2>7, <3>1, LimitAssumption
         DEF Send, QueueHasRoom, TypeOK, UpdaterStates, ingestVars, listVars, signalVars, resolveVars
  <2>8. ASSUME Expire PROVE TypeOK'
    BY <2>8 DEF Expire, TypeOK, judgeVars, workVars, listVars, signalVars, resolveVars
  <2>9. ASSUME NEW ip \in IPs, NEW g \in Groups, NEW fails \in BOOLEAN, PluginBlocks(ip, g, fails)
        PROVE  TypeOK'
    BY <2>9, LimitAssumption DEF PluginBlocks, TypeOK, ingestVars, judgeVars, workVars, resolveVars
  <2>10. ASSUME PluginSignals PROVE TypeOK'
    BY <2>10, LimitAssumption
       DEF PluginSignals, TypeOK, ingestVars, judgeVars, workVars, listVars, resolveVars
  <2>11. ASSUME Collect PROVE TypeOK'
    <3>1. batch' \subseteq [ip : IPs, level : Levels]
      BY <2>11 DEF Collect, TypeOK, IPDatas, Objs
    <3> QED
      BY <2>11, <3>1, LimitAssumption
         DEF Collect, TypeOK, ingestVars, workVars, listVars, resolveVars
  <2>12. ASSUME NextInBatch PROVE TypeOK'
    <3>1. PICK s \in batch : Update("asn", s.ip, s.level) /\ batch' \subseteq batch
      BY <2>12 DEF NextInBatch
    <3>2. s.ip \in IPs /\ s.level \in Levels
      BY <3>1 DEF TypeOK
    <3>3. ipd' \in [Objs -> IPDatas] /\ upd' \in [Updaters -> UpdaterStates]
      BY <3>1, <3>2, UpdateTyped DEF Updaters
    <3> QED
      BY <2>12, <3>1, <3>3
         DEF NextInBatch, TypeOK, ingestVars, workVars, listVars, signalVars, resolveVars
  <2>13. ASSUME Take PROVE TypeOK'
    <3>1. Head(orders) \in Objs /\ orders' \in Seq(Objs) /\ Len(orders') <= BlockCap
      BY <2>13, LimitAssumption DEF Take, TypeOK
    <3>2. worker' \in WorkerStates
      BY <2>13, <3>1 DEF Take, TypeOK, WorkerStates, WorkerContinues, IPDatas
    <3> QED
      BY <2>13, <3>1, <3>2
         DEF Take, TypeOK, ingestVars, judgeVars, listVars, signalVars, resolveVars
  <2>14. ASSUME NEW fails \in BOOLEAN, Write(fails) PROVE TypeOK'
    <3>1. worker.obj \in Objs /\ worker.obj[1] \in IPs /\ worker.host \in Hosts
      <4>0. worker # IdleWorker
        <5>1. worker.pc = "write"
          BY <2>14, Zenon DEF Write
        <5>2. IdleWorker.pc = "idle"
          BY DEF IdleWorker
        <5> QED
          BY <5>1, <5>2
      <4>1. worker \in [pc : {"write"}, obj : Objs, host : Hosts]
        BY <4>0, Zenon DEF TypeOK, WorkerStates
      <4>2. worker.obj \in Objs /\ worker.host \in Hosts
        BY <4>1
      <4> QED
        BY <4>2 DEF Objs
    <3>2. store' \in [IPs -> Entries]
      BY <2>14, <3>1, LimitAssumption DEF Write, Written, TypeOK, Entries
    <3>3. [ipd[worker.obj] EXCEPT !.isBlocked = TRUE] \in IPDatas
      BY <3>1, SetFlag DEF TypeOK
    <3>4. ipd' \in [Objs -> IPDatas]
      BY <2>14, <3>1, <3>3 DEF Write, TypeOK
    <3> QED
      BY <2>14, <3>2, <3>4
         DEF Write, WorkerContinues, TypeOK, WorkerStates, ingestVars, judgeVars, signalVars, resolveVars
  <2>15. ASSUME LoadRules PROVE TypeOK'
    BY <2>15, LimitAssumption
       DEF LoadRules, TypeOK, ingestVars, judgeVars, workVars, listVars, resolveVars
  <2>24. ASSUME SignalRecheck PROVE TypeOK'
    BY <2>24, LimitAssumption
       DEF SignalRecheck, TypeOK, ingestVars, judgeVars, workVars, listVars, resolveVars
  <2>16. ASSUME StartScan PROVE TypeOK'
    <3>1. scan' \subseteq [ip : IPs, host : Hosts]
      BY <2>16 DEF StartScan, TypeOK, Entries
    <3> QED
      BY <2>16, <3>1, LimitAssumption
         DEF StartScan, TypeOK, ingestVars, judgeVars, workVars, listVars, resolveVars
  <2>17. ASSUME ScanOne PROVE TypeOK'
    <3> QED
      BY <2>17, UnlistedTyped DEF ScanOne, TypeOK, ingestVars, judgeVars, workVars, resolveVars
  <2>18. ASSUME NEW ip \in IPs, Answer(ip) PROVE TypeOK'
    <3>1. ipd' \in [Objs -> IPDatas] /\ notice' \subseteq IPs
      <4>1. ASSUME NEW o \in EntryOf(ip), NEW host \in {PTR[ip], "address"},
                   ipd' = [ipd EXCEPT ![o].host = host], notice' = {ip}
            PROVE  ipd' \in [Objs -> IPDatas] /\ notice' \subseteq IPs
        <5>1. o \in Objs
          BY <4>1 DEF EntryOf, TypeOK
        <5>2. [ipd[o] EXCEPT !.host = host] \in IPDatas
          BY <4>1, <5>1, SetHost, PTRAssumption DEF TypeOK, Hosts
        <5> QED
          BY <4>1, <5>1, <5>2 DEF TypeOK
      <4> QED
        BY <2>18, <4>1 DEF Answer, TypeOK
    <3>2. lookups' \in [IPs -> 0..(MaxLookups + 1)]
      BY <2>18, LimitAssumption DEF Answer, TypeOK
    <3> QED
      BY <2>18, <3>1, <3>2 DEF Answer, TypeOK, ingestVars, judgeVars, workVars, listVars, signalVars
  <2>19. ASSUME NEW ip \in IPs, GiveUp(ip) PROVE TypeOK'
    BY <2>19, LimitAssumption DEF GiveUp, TypeOK, ingestVars, judgeVars, workVars, listVars, signalVars
  <2>20. ASSUME Tick PROVE TypeOK'
    <3>1. ipd' \in [Objs -> IPDatas]
      BY <2>20, BlankTyped, AgedTyped DEF Tick, TypeOK
    <3>2. store' \in [IPs -> Entries]
      BY <2>20, AgedEntryTyped DEF Tick, TypeOK
    <3>3. netStore' \in [Groups -> 0..BlockTTL]
      <4>1. ASSUME NEW g \in Groups
            PROVE  (IF netStore[g] > 0 THEN netStore[g] - 1 ELSE 0) \in 0..BlockTTL
        <5>1. netStore[g] \in 0..BlockTTL
          BY DEF TypeOK
        <5> QED
          BY <5>1, LimitAssumption
      <4> QED
        BY <2>20, <4>1 DEF Tick
    <3> QED
      BY <2>20, <3>1, <3>2, <3>3
         DEF Tick, TypeOK, ingestVars, judgeVars, workVars, signalVars, resolveVars
  <2>21. ASSUME Restart PROVE TypeOK'
    <3>1. ipd' \in [Objs -> IPDatas] /\ store' \in [IPs -> Entries] /\ lookups' \in [IPs -> 0..(MaxLookups + 1)]
      BY <2>21, BlankTyped, UnlistedTyped, LimitAssumption DEF Restart, TypeOK
    <3>2. ing' \in [Ingesters -> IngesterStates] /\ upd' \in [Updaters -> UpdaterStates]
           /\ worker' \in WorkerStates
      BY <2>21 DEF Restart, IngesterStates, UpdaterStates, WorkerStates
    <3>3. orders' \in Seq(Objs) /\ Len(orders') <= BlockCap
      BY <2>21, LimitAssumption DEF Restart
    <3>4. netStore' \in [Groups -> 0..BlockTTL] /\ rechecks' \in 0..SignalCap
           /\ checks' \in 0..SignalCap
      BY <2>21, LimitAssumption DEF Restart, TypeOK
    <3> QED
      BY <2>21, <3>1, <3>2, <3>3, <3>4 DEF Restart, TypeOK
  <2>22. CASE UNCHANGED vars
    BY <2>22 DEF vars, TypeOK
  <2> QED
    BY <2>1, <2>2, <2>3, <2>4, <2>5, <2>6, <2>7, <2>8, <2>9, <2>10, <2>11, <2>12, <2>13, <2>14,
       <2>15, <2>16, <2>17, <2>18, <2>19, <2>20, <2>21, <2>22, <2>23,
       <2>24
       DEF Next, StaticNext, CalmNext, Requests, Updates, Networks, Blocking, Rechecking,
           Resolving, Faults, Reloads
<1> QED
  BY <1>1, <1>2, PTL DEF Spec

-----------------------------------------------------------------------------
(* The block list. *)

\* An entry of the block list stays as it was written until its time is over or
\* its address is whitelisted: nothing renews, shortens or rewrites it.
THEOREM BlocksLast == Spec => BlockLasts
<1>1. ASSUME TypeOK, [Next]_vars, NEW ip \in IPs PROVE BlockKept(ip)
  <2> USE <1>1 DEF BlockKept
  <2>1. CASE UNCHANGED store
    BY <2>1
  <2>2. ASSUME NEW fails \in BOOLEAN, Write(fails) PROVE BlockKept(ip)
    BY <2>2 DEF Write, Written, Listed, TypeOK
  <2>3. CASE ScanOne
    BY <2>3 DEF ScanOne, ToRemove, Whitelisted, TypeOK
  <2>4. CASE Tick
    BY <2>4 DEF Tick
  <2>5. CASE Restart
    BY <2>5 DEF Restart
  <2> QED
    BY <2>1, <2>2, <2>3, <2>4, <2>5
       DEF Next, Reloads, StaticNext, CalmNext, Requests, Updates, Networks, Blocking, Rechecking, Resolving,
           Faults, Insert, Record, Receive, ReceiveNotice, Screen, Judge, Mark, Send, Expire, PluginBlocks,
           PluginSignals, Collect, NextInBatch, Take, LoadRules, SignalRecheck, StartScan, Answer, GiveUp,
           listVars, vars
<1> QED
  <2>1. TypeOK /\ [Next]_vars => [\A ip \in IPs : BlockKept(ip)]_vars
    BY <1>1
  <2> QED
    BY <2>1, Typing, PTL DEF BlockLasts, Spec

-----------------------------------------------------------------------------
(* Addresses whitelisted by a rule on the address, while the rules stay. *)

\* Whoever has passed the whitelist carries an object of another address.
AddrInv ==
    /\ \A u \in Updaters : upd[u].pc \in {"judge", "send"} => upd[u].obj[1] \notin rules.addr
    /\ \A i \in 1..Len(orders) : orders[i][1] \notin rules.addr
    /\ worker.pc = "write" => worker.obj[1] \notin rules.addr
    /\ AddrWhitelistRespected

\* StaticSpec only restricts the steps of Spec.
LEMMA StaticTyping == StaticSpec => []TypeOK
  BY Typing, PTL DEF StaticSpec, Spec, Next

LEMMA AddrInvInit == Init => AddrInv
<1> SUFFICES ASSUME Init PROVE AddrInv
  OBVIOUS
<1>1. \A u \in Updaters : upd[u].pc = "idle"
  BY DEF Init, IdleUpdater
<1>2. worker.pc = "idle"
  BY DEF Init, IdleWorker
<1>3. \A ip \in IPs : ~Listed(ip)
  BY UnlistedIsNot DEF Init, Listed
<1>4. rules.addr \subseteq IPs /\ Len(orders) = 0
  BY DEF Init, RuleSets
<1> QED
  BY <1>1, <1>2, <1>3, <1>4 DEF AddrInv, AddrWhitelistRespected

LEMMA AddrInvStep ==
    ASSUME TypeOK, AddrInv, [StaticNext]_vars PROVE AddrInv'
<1>0. rules' = rules
  BY DEF StaticNext, CalmNext, Requests, Updates, Networks, Blocking, Rechecking, Resolving,
         Faults, Insert, Record, Receive, ReceiveNotice, Screen, Judge, Mark, Send, Expire, PluginBlocks,
         PluginSignals, Collect, NextInBatch, Take, Write, StartScan, ScanOne, Answer, GiveUp,
         Tick, signalVars, vars
<1>1. CASE UNCHANGED <<upd, orders, worker, store>>
  BY <1>0, <1>1 DEF AddrInv, AddrWhitelistRespected, Listed
<1>2. ASSUME NEW u \in Updaters, NEW ip \in IPs, NEW l, Update(u, ip, l),
             UNCHANGED <<orders, worker, store>>
      PROVE  AddrInv'
  <2>1. \A v \in Updaters : upd'[v] = upd[v] \/ upd'[v].pc = "screen"
    BY <1>2 DEF Update, TypeOK
  <2> QED
    BY <1>0, <1>2, <2>1 DEF AddrInv, AddrWhitelistRespected, Listed
<1>3. ASSUME NEW u \in Updaters, Screen(u) PROVE AddrInv'
  <2>1. upd'[u].pc \in {"judge", "send"} => upd'[u].obj[1] \notin rules.addr
    <3>1. [upd[u] EXCEPT !.pc = "judge"].obj = upd[u].obj
      BY <1>3, UpdaterGoesOn DEF Screen, TypeOK
    <3>2. CASE upd' = [upd EXCEPT ![u] = IdleUpdater]
      BY <3>2 DEF IdleUpdater, TypeOK
    <3>3. CASE upd' = [upd EXCEPT ![u].pc = "judge"] /\ ~Whitelisted(upd[u].obj[1], ipd[upd[u].obj].host)
      BY <3>1, <3>3 DEF Whitelisted, TypeOK
    <3> QED
      BY <1>3, <3>2, <3>3 DEF Screen
  <2>2. \A v \in Updaters \ {u} : upd'[v] = upd[v]
    BY <1>3 DEF Screen, TypeOK
  <2> QED
    BY <1>0, <1>3, <2>1, <2>2 DEF Screen, workVars, listVars, AddrInv, AddrWhitelistRespected, Listed
<1>4. ASSUME NEW u \in Updaters, Judge(u) PROVE AddrInv'
  <2>1. upd'[u].pc \in {"judge", "send"} => upd'[u].obj = upd[u].obj /\ upd[u].pc = "judge"
    <3>1. /\ [upd[u] EXCEPT !.pc = "send"].obj = upd[u].obj
          /\ [upd[u] EXCEPT !.pc = "mark"].pc = "mark"
      BY <1>4, UpdaterGoesOn DEF Judge, TypeOK
    <3>2. CASE upd' = [upd EXCEPT ![u] = IdleUpdater]
      BY <3>2 DEF IdleUpdater, TypeOK
    <3>3. CASE upd' = [upd EXCEPT ![u].pc = "send"]
      BY <1>4, <3>1, <3>3 DEF Judge, TypeOK
    <3>4. CASE upd' = [upd EXCEPT ![u].pc = "mark"]
      BY <3>1, <3>4 DEF TypeOK
    <3> QED
      BY <1>4, <3>2, <3>3, <3>4 DEF Judge
  <2>2. \A v \in Updaters \ {u} : upd'[v] = upd[v]
    BY <1>4 DEF Judge, TypeOK
  <2> QED
    BY <1>0, <1>4, <2>1, <2>2 DEF Judge, workVars, listVars, AddrInv, AddrWhitelistRespected, Listed
<1>10. ASSUME NEW u \in Updaters, Mark(u) PROVE AddrInv'
  <2>1. \A v \in Updaters : upd'[v] = upd[v] \/ upd'[v].pc = "idle"
    BY <1>10 DEF Mark, IdleUpdater, TypeOK
  <2> QED
    BY <1>0, <1>10, <2>1 DEF Mark, workVars, listVars, AddrInv, AddrWhitelistRespected, Listed
<1>5. ASSUME NEW u \in Updaters, Send(u) PROVE AddrInv'
  <2>1. \A v \in Updaters : upd'[v] = upd[v] \/ upd'[v].pc = "idle"
    BY <1>5 DEF Send, IdleUpdater, TypeOK
  <2>2. upd[u].obj[1] \notin rules.addr
    BY <1>5 DEF Send, AddrInv
  <2>3. \A i \in 1..Len(orders') : orders'[i] = upd[u].obj \/ (i \in 1..Len(orders) /\ orders'[i] = orders[i])
    <3>1. orders \in Seq(Objs) /\ upd[u].obj \in Objs /\ orders' = Append(orders, upd[u].obj)
      BY <1>5, UpdaterGoesOn DEF Send, TypeOK
    <3> QED
      BY <3>1
  <2> QED
    BY <1>0, <1>5, <2>1, <2>2, <2>3 DEF Send, listVars, AddrInv, AddrWhitelistRespected, Listed
<1>6. CASE Take
  <2>1. orders # <<>> /\ orders[1][1] \notin rules.addr /\ Head(orders) = orders[1]
    <3>1. orders # <<>> /\ orders \in Seq(Objs)
      BY <1>6 DEF Take, TypeOK
    <3>2. 1 \in 1..Len(orders) /\ Head(orders) = orders[1]
      BY <3>1
    <3> QED
      BY <3>1, <3>2 DEF AddrInv
  <2>2. \A i \in 1..Len(orders') : i + 1 \in 1..Len(orders) /\ orders'[i] = orders[i + 1]
    <3>1. orders # <<>> /\ orders \in Seq(Objs) /\ orders' = Tail(orders)
      BY <1>6 DEF Take, TypeOK
    <3> QED
      BY <3>1
  <2>3. worker'.pc = "write" => worker'.obj = orders[1]
    BY <1>6, <2>1 DEF Take, WorkerContinues, IdleWorker
  <2> QED
    BY <1>0, <1>6, <2>1, <2>2, <2>3
       DEF Take, judgeVars, listVars, AddrInv, AddrWhitelistRespected, Listed
<1>7. ASSUME NEW fails \in BOOLEAN, Write(fails) PROVE AddrInv'
  <2>1. worker.obj[1] \notin rules.addr /\ worker'.pc = "idle"
    BY <1>7 DEF Write, WorkerContinues, AddrInv, IdleWorker
  <2>2. \A ip \in IPs : ip # worker.obj[1] => store'[ip] = store[ip]
    BY <1>7 DEF Write, TypeOK
  <2> QED
    BY <1>0, <1>7, <2>1, <2>2 DEF Write, judgeVars, AddrInv, AddrWhitelistRespected, Listed, TypeOK, RuleSets
<1>8. CASE ScanOne
  <2>1. \A ip \in IPs : store'[ip] = store[ip] \/ store'[ip] = Unlisted
    BY <1>8 DEF ScanOne, TypeOK
  <2>2. \A ip \in IPs : ~Listed(ip) => ~Listed(ip)'
    BY <2>1, UnlistedIsNot DEF Listed
  <2>3. rules.addr \subseteq IPs
    BY DEF TypeOK, RuleSets
  <2> QED
    BY <1>0, <1>8, <2>2, <2>3
       DEF ScanOne, judgeVars, workVars, AddrInv, AddrWhitelistRespected
<1>9. CASE Tick
  <2>1. \A ip \in IPs : ~Listed(ip) => store'[ip] = store[ip]
    BY <1>9 DEF Tick
  <2> QED
    BY <1>0, <1>9, <2>1
       DEF Tick, judgeVars, workVars, AddrInv, AddrWhitelistRespected, Listed, TypeOK, RuleSets
<1> QED
  <2>1. ASSUME NEW i \in Ingesters, Receive(i) PROVE AddrInv'
    <3>1. ing[i].ip \in IPs
      BY <2>1, IngesterSends DEF Receive, TypeOK, Levels
    <3> QED
      BY <2>1, <3>1, <1>2 DEF Receive, Updaters, workVars, listVars
  <2>2. CASE ReceiveNotice
    BY <2>2, <1>2 DEF ReceiveNotice, Updaters, workVars, listVars, TypeOK
  <2>3. CASE NextInBatch
    <3>1. PICK s \in batch : Update("asn", s.ip, s.level)
      BY <2>3 DEF NextInBatch
    <3> QED
      BY <2>3, <3>1, <1>2 DEF NextInBatch, Updaters, workVars, listVars, TypeOK
  <2> QED
    BY <1>1, <1>3, <1>4, <1>5, <1>6, <1>7, <1>8, <1>9, <1>10, <2>1, <2>2, <2>3
       DEF StaticNext, CalmNext, Requests, Updates, Networks, Blocking, Rechecking, Resolving,
           Faults, Insert, Record, Expire, PluginBlocks, PluginSignals, Collect, StartScan, Answer,
           GiveUp, judgeVars, workVars, listVars, vars

\* No address matched by a rule on the address is ever listed while the rules
\* stay as they are, for any number of ingesters, networks and objects.
THEOREM AddrWhitelisted == StaticSpec => []AddrWhitelistRespected
<1>1. StaticSpec => []AddrInv
  BY AddrInvInit, AddrInvStep, StaticTyping, PTL DEF StaticSpec
<1>2. AddrInv => AddrWhitelistRespected
  BY DEF AddrInv
<1> QED
  BY <1>1, <1>2, PTL

-----------------------------------------------------------------------------
(* Refinement: each step of BlockPipeline changes suspects, entries and      *)
(* rules as one step of BlockList does, or not at all.                       *)

LEMMA InitRefines == Init => Abstract!Init
<1> SUFFICES ASSUME Init PROVE Abstract!Init
  OBVIOUS
<1>1. Suspects = {}
  <2>1. \A u \in Updaters : upd[u].pc = "idle"
    BY DEF Init, IdleUpdater
  <2>2. worker.pc = "idle" /\ Len(orders) = 0
    BY DEF Init, IdleWorker
  <2> QED
    BY <2>1, <2>2 DEF Suspects
<1>2. Times = [ip \in IPs |-> 0]
  BY DEF Init, Times, Unlisted
<1>3. rules \in Abstract!RuleSets
  BY DEF Init, RuleSets, Named, Abstract!RuleSets
<1> QED
  BY <1>1, <1>2, <1>3 DEF Abstract!Init

\* A step that suspects nobody and leaves the list alone drops suspicions.
LEMMA Acquits ==
    ASSUME Suspects' \subseteq Suspects, UNCHANGED <<store, rules>>
    PROVE  Abstract!Next
<1> DEFINE gone == Suspects \ Suspects'
<1>1. gone \in SUBSET IPs /\ Suspects' = Suspects \ gone
  BY DEF Suspects
<1>2. Times' = Times
  BY DEF Times
<1>3. Abstract!Acquit(gone)
  BY <1>1, <1>2 DEF Abstract!Acquit
<1> QED
  BY <1>1, <1>3 DEF Abstract!Next, Abstract!Running

\* Who is suspected depends on the updaters, the orders and the worker only.
LEMMA SameSuspects ==
    ASSUME UNCHANGED <<upd, orders, worker>> PROVE Suspects' = Suspects
  BY DEF Suspects

\* An updater that is not past the whitelist afterwards brings no suspect.
LEMMA UpdaterDrops ==
    ASSUME TypeOK, NEW u \in Updaters, UNCHANGED <<orders, worker>>,
           NEW s, s.pc \notin {"judge", "send"}, upd' = [upd EXCEPT ![u] = s]
    PROVE  Suspects' \subseteq Suspects
<1>1. \A v \in Updaters : upd'[v].pc \in {"judge", "send"} => upd'[v] = upd[v]
  BY DEF TypeOK
<1> QED
  BY <1>1 DEF Suspects

-----------------------------------------------------------------------------
(* The steps of the updaters, the worker and the recheck. *)

LEMMA UpdateRefines ==
    ASSUME TypeOK, NEW u \in Updaters, NEW ip \in IPs, NEW l, Update(u, ip, l),
           UNCHANGED <<orders, worker, store, rules>>
    PROVE  Abstract!Next
<1>1. CASE UNCHANGED upd
  BY <1>1, SameSuspects, Acquits
<1>2. CASE \E o \in EntryOf(ip) : upd' = [upd EXCEPT ![u] = [pc |-> "screen", obj |-> o]]
  BY <1>2, UpdaterDrops, Acquits
<1> QED
  BY <1>1, <1>2 DEF Update

\* ShouldBeBlocked: whoever passes the whitelist becomes a suspect.
LEMMA ScreenRefines ==
    ASSUME TypeOK, NEW u \in Updaters, Screen(u) PROVE Abstract!Next
<1>1. UNCHANGED <<orders, worker, store, rules>>
  BY DEF Screen, workVars, listVars, signalVars
<1>2. CASE upd' = [upd EXCEPT ![u] = IdleUpdater]
  BY <1>1, <1>2, UpdaterDrops, Acquits DEF IdleUpdater
<1>3. CASE upd' = [upd EXCEPT ![u].pc = "judge"] /\ ~Whitelisted(upd[u].obj[1], ipd[upd[u].obj].host)
  <2> DEFINE ip == upd[u].obj[1]
  <2>1. upd[u].pc = "screen" /\ upd[u] \in UpdaterStates
    BY DEF Screen, TypeOK
  <2>2. upd[u].obj \in Objs
    BY <2>1, UpdaterGoesOn
  <2>3. ip \in IPs /\ ip \notin rules.addr
    BY <1>3, <2>2 DEF Whitelisted, Objs
  <2>4. upd'[u].pc = "judge" /\ upd'[u].obj[1] = ip
    BY <1>3, <2>1, UpdaterGoesOn DEF TypeOK
  <2>5. \A v \in Updaters : v # u => upd'[v] = upd[v]
    BY <1>3 DEF TypeOK
  <2>6. Suspects' = Suspects \cup {ip}
    BY <1>1, <2>1, <2>3, <2>4, <2>5 DEF Suspects
  <2>7. Times' = Times
    BY <1>1 DEF Times
  <2>8. Abstract!Suspect(ip)
    BY <1>1, <2>3, <2>6, <2>7 DEF Abstract!Suspect
  <2> QED
    BY <2>3, <2>8 DEF Abstract!Next, Abstract!Running
<1> QED
  BY <1>2, <1>3 DEF Screen

LEMMA JudgeRefines ==
    ASSUME TypeOK, NEW u \in Updaters, Judge(u) PROVE Abstract!Next
<1>1. UNCHANGED <<orders, worker, store, rules>>
  BY DEF Judge, workVars, listVars, signalVars
<1>2. CASE upd' = [upd EXCEPT ![u] = IdleUpdater]
  BY <1>1, <1>2, UpdaterDrops, Acquits DEF IdleUpdater
<1>3. CASE upd' = [upd EXCEPT ![u].pc = "send"]
  <2>1. upd[u].pc = "judge" /\ upd[u] \in UpdaterStates
    BY DEF Judge, TypeOK
  <2>2. upd'[u].obj = upd[u].obj
    BY <1>3, <2>1, UpdaterGoesOn DEF TypeOK
  <2>3. \A v \in Updaters : v # u => upd'[v] = upd[v]
    BY <1>3 DEF TypeOK
  <2>4. Suspects' \subseteq Suspects
    BY <1>1, <2>1, <2>2, <2>3 DEF Suspects
  <2> QED
    BY <1>1, <2>4, Acquits
<1>4. CASE upd' = [upd EXCEPT ![u].pc = "mark"]
  <2>1. [upd[u] EXCEPT !.pc = "mark"].pc = "mark"
    BY UpdaterGoesOn DEF Judge, TypeOK
  <2>2. upd' = [upd EXCEPT ![u] = [upd[u] EXCEPT !.pc = "mark"]]
    BY <1>4
  <2> QED
    BY <1>1, <2>1, <2>2, UpdaterDrops, Acquits
<1> QED
  BY <1>2, <1>3, <1>4 DEF Judge

LEMMA MarkRefines ==
    ASSUME TypeOK, NEW u \in Updaters, Mark(u) PROVE Abstract!Next
<1>1. UNCHANGED <<orders, worker, store, rules>> /\ upd' = [upd EXCEPT ![u] = IdleUpdater]
  BY DEF Mark, workVars, listVars, signalVars
<1> QED
  BY <1>1, UpdaterDrops, Acquits DEF IdleUpdater

\* The send hands the suspicion over to the order.
LEMMA SendRefines ==
    ASSUME TypeOK, NEW u \in Updaters, Send(u) PROVE Abstract!Next
<1>1. UNCHANGED <<worker, store, rules>>
  BY DEF Send, listVars, signalVars
<1>2. orders \in Seq(Objs) /\ upd[u].obj \in Objs /\ orders' = Append(orders, upd[u].obj)
  BY UpdaterGoesOn DEF Send, TypeOK
<1>3. \A i \in 1..Len(orders') : orders'[i] = upd[u].obj \/ (i \in 1..Len(orders) /\ orders'[i] = orders[i])
  BY <1>2
<1>4. \A v \in Updaters : upd'[v] = upd[v] \/ upd'[v].pc = "idle"
  BY DEF Send, IdleUpdater, TypeOK
<1>5. Suspects' \subseteq Suspects
  BY <1>1, <1>3, <1>4 DEF Suspects, Send
<1> QED
  BY <1>1, <1>5, Acquits

LEMMA TakeRefines ==
    ASSUME TypeOK, Take PROVE Abstract!Next
<1>1. UNCHANGED <<upd, store, rules>>
  BY DEF Take, judgeVars, listVars, signalVars
<1>2. orders # <<>> /\ Head(orders) = orders[1] /\ 1 \in 1..Len(orders)
  BY DEF Take, TypeOK
<1>3. \A i \in 1..Len(orders') : i + 1 \in 1..Len(orders) /\ orders'[i] = orders[i + 1]
  BY DEF Take, TypeOK
<1>4. worker'.pc = "write" => worker'.obj = orders[1]
  BY <1>2 DEF Take, WorkerContinues, IdleWorker
<1>5. Suspects' \subseteq Suspects
  BY <1>1, <1>2, <1>3, <1>4 DEF Suspects
<1> QED
  BY <1>1, <1>5, Acquits

LEMMA WorkerHolds ==
    ASSUME NEW w \in WorkerStates, w.pc = "write" PROVE w.obj \in Objs
<1>1. IdleWorker.pc = "idle"
  BY DEF IdleWorker
<1>2. w \in [pc : {"write"}, obj : Objs, host : Hosts]
  BY <1>1 DEF WorkerStates
<1> QED
  BY <1>2

\* BlockIP lists the order's address, unless it is listed or the write fails.
LEMMA WriteRefines ==
    ASSUME TypeOK, NEW fails \in BOOLEAN, Write(fails) PROVE Abstract!Next
<1> DEFINE ip == worker.obj[1]
<1>1. UNCHANGED <<upd, orders, rules>>
  BY DEF Write, judgeVars, signalVars
<1>2. worker.pc = "write" /\ worker'.pc = "idle"
  BY DEF Write, WorkerContinues, IdleWorker
<1>3. ip \in IPs
  BY <1>2, WorkerHolds DEF TypeOK, Objs
<1>4. Suspects' \subseteq Suspects /\ Suspects \subseteq Suspects' \cup {ip} /\ ip \in Suspects
  BY <1>1, <1>2, <1>3 DEF Suspects
<1>5. CASE store' = store
  BY <1>1, <1>4, <1>5, Acquits
<1>6. CASE store' # store
  <2>1. store' = [store EXCEPT ![ip] = [ttl |-> BlockTTL, host |-> worker.host]] /\ ~(store[ip].ttl > 0)
    BY <1>3, <1>6 DEF Write, Written, TypeOK
  <2>2. Times[ip] = 0
    BY <1>3, <2>1 DEF Times, TypeOK, Entries
  <2>3. Times' = [Times EXCEPT ![ip] = BlockTTL]
    BY <1>3, <2>1 DEF Times, TypeOK
  <2>4. Suspects' \in {Suspects, Suspects \ {ip}}
    BY <1>4
  <2>5. Abstract!List(ip)
    BY <1>1, <1>4, <2>2, <2>3, <2>4 DEF Abstract!List, Abstract!Enter
  <2> QED
    BY <1>3, <2>5 DEF Abstract!Next, Abstract!Running
<1> QED
  BY <1>5, <1>6

\* RemoveIP in the recheck: the rules match the address or the host of the entry.
LEMMA ScanRefines ==
    ASSUME TypeOK, ScanOne PROVE Abstract!Next
<1>1. UNCHANGED <<upd, orders, worker, rules>>
  BY DEF ScanOne, judgeVars, workVars
<1>2. PICK e \in scan : store' = IF ToRemove(e) THEN [store EXCEPT ![e.ip] = Unlisted] ELSE store
  BY DEF ScanOne
<1>3. CASE ~ToRemove(e)
  BY <1>1, <1>2, <1>3, SameSuspects, Acquits
<1>4. CASE ToRemove(e)
  <2>1. e.ip \in IPs /\ e.ip \in rules.addr \cup rules.host
    BY <1>4 DEF ToRemove, Whitelisted, TypeOK
  <2>2. Times' = [Times EXCEPT ![e.ip] = 0]
    BY <1>2, <1>4, <2>1 DEF Times, Unlisted, TypeOK
  <2>3. Abstract!Pardon(e.ip)
    BY <1>1, <2>1, <2>2, SameSuspects DEF Abstract!Pardon, Abstract!Remove
  <2> QED
    BY <2>1, <2>3 DEF Abstract!Next, Abstract!Running
<1> QED
  BY <1>3, <1>4

LEMMA TickRefines ==
    ASSUME TypeOK, Tick PROVE Abstract!Next
<1>1. UNCHANGED <<upd, orders, worker, rules>>
  BY DEF Tick, judgeVars, workVars, signalVars
<1>2. \A ip \in IPs : store'[ip].ttl = IF store[ip].ttl > 0 THEN store[ip].ttl - 1 ELSE 0
  <2> SUFFICES ASSUME NEW ip \in IPs
               PROVE  store'[ip].ttl = IF store[ip].ttl > 0 THEN store[ip].ttl - 1 ELSE 0
    OBVIOUS
  <2>1. store[ip] \in Entries /\ store'[ip] = IF Listed(ip) THEN Aged(store[ip]) ELSE store[ip]
    BY DEF Tick, TypeOK
  <2>2. [store[ip] EXCEPT !.ttl = store[ip].ttl - 1].ttl = store[ip].ttl - 1
    BY <2>1 DEF Entries
  <2>3. store[ip].ttl \in Nat /\ Unlisted.ttl = 0
    BY <2>1, LimitAssumption DEF Entries, Unlisted
  <2>4. CASE store[ip].ttl > 1
    BY <2>1, <2>2, <2>3, <2>4 DEF Listed, Aged
  <2>5. CASE store[ip].ttl = 1
    BY <2>1, <2>3, <2>5 DEF Listed, Aged
  <2>6. CASE store[ip].ttl = 0
    BY <2>1, <2>6 DEF Listed
  <2> QED
    BY <2>3, <2>4, <2>5, <2>6
<1>3. Times' = [ip \in IPs |-> IF Times[ip] > 0 THEN Times[ip] - 1 ELSE 0]
  BY <1>2 DEF Times
<1>4. Abstract!Age
  BY <1>1, <1>3, SameSuspects DEF Abstract!Age, Abstract!Elapse
<1> QED
  BY <1>4 DEF Abstract!Next, Abstract!Running

LEMMA RulesRefine ==
    ASSUME LoadRules PROVE Abstract!Next
<1>1. UNCHANGED <<upd, orders, worker, store>> /\ rules' \in RuleSets
  BY DEF LoadRules, judgeVars, workVars, listVars
<1>2. Abstract!ChangeRules
  BY <1>1, SameSuspects DEF Abstract!ChangeRules, RuleSets, Named, Abstract!RuleSets, Times
<1> QED
  BY <1>2 DEF Abstract!Next, Abstract!Running

LEMMA RestartRefines ==
    ASSUME Restart PROVE Abstract!Next
<1>1. Suspects' = {}
  <2>1. \A u \in Updaters : upd'[u].pc = "idle"
    BY DEF Restart, IdleUpdater
  <2>2. worker'.pc = "idle" /\ Len(orders') = 0
    BY DEF Restart, IdleWorker
  <2> QED
    BY <2>1, <2>2 DEF Suspects
<1>2. Times' = IF ClearBlocked THEN [ip \in IPs |-> 0] ELSE Times
  BY DEF Restart, Times, Unlisted
<1>3. Abstract!StartAgain
  BY <1>1, <1>2 DEF Restart, Abstract!StartAgain, RuleSets, Named, Abstract!RuleSets
<1> QED
  BY <1>3 DEF Abstract!Next

-----------------------------------------------------------------------------

LEMMA StepRefines ==
    ASSUME TypeOK, [Next]_vars PROVE [Abstract!Next]_(Abstract!listVars)
<1>1. CASE UNCHANGED <<upd, orders, worker, store, rules>>
  BY <1>1, SameSuspects, Acquits
<1>2. ASSUME NEW i \in Ingesters, Receive(i) PROVE Abstract!Next
  <2>1. ing[i].ip \in IPs
    BY <1>2, IngesterSends DEF Receive, TypeOK, Levels
  <2> QED
    BY <1>2, <2>1, UpdateRefines DEF Receive, Updaters, workVars, listVars, signalVars
<1>3. CASE ReceiveNotice
  BY <1>3, UpdateRefines DEF ReceiveNotice, Updaters, workVars, listVars, signalVars, TypeOK
<1>4. CASE NextInBatch
  <2>1. PICK s \in batch : Update("asn", s.ip, s.level)
    BY <1>4 DEF NextInBatch
  <2> QED
    BY <1>4, <2>1, UpdateRefines DEF NextInBatch, Updaters, workVars, listVars, signalVars, TypeOK
<1> QED
  BY <1>1, <1>2, <1>3, <1>4, ScreenRefines, JudgeRefines, MarkRefines, SendRefines, TakeRefines,
     WriteRefines, ScanRefines, TickRefines, RulesRefine, RestartRefines
     DEF Next, Reloads, StaticNext, CalmNext, Requests, Updates, Networks, Blocking, Rechecking, Resolving,
         Faults, Insert, Record, Expire, PluginBlocks, PluginSignals, Collect, SignalRecheck,
         StartScan, Answer, GiveUp, judgeVars, workVars, listVars, signalVars, vars

\* Whoever reads the block list of BlockPipeline sees a BlockList, for any number
\* of addresses, goroutines, objects and networks, with the plugin or without.
THEOREM Implementation == Spec => ImplementsBlockList
<1>1. TypeOK /\ [Next]_vars => [Abstract!Next]_(Abstract!listVars)
  BY StepRefines
<1> QED
  BY InitRefines, <1>1, Typing, PTL DEF Spec, ImplementsBlockList, Abstract!Spec

-----------------------------------------------------------------------------
(* Hostnames: nobody who has a name is listed before a lookup, and nobody is  *)
(* listed under a name that is whitelisted.  Both need a single goroutine in  *)
(* IPData.Update.                                                             *)

(* What a step does to the hostname of an object somebody refers to. *)

\* An updater marks o as being resolved.
StartsLookup(o) == \E u \in Updaters : Mark(u) /\ upd[u].obj = o

\* An answer arrives for o.
GetsAnswer(o) == o \in history /\ Answer(o[1]) /\ ipd'[o].host \in {PTR[o[1]], "address"}

LEMMA NewHosts ==
    ASSUME NEW d \in IPDatas, NEW h
    PROVE  /\ [d EXCEPT !.age = 0, !.used = TRUE].host = d.host
           /\ [d EXCEPT !.wl = TRUE].host = d.host
           /\ [d EXCEPT !.isBlocked = TRUE].host = d.host
           /\ BeingResolved(d).host = "resolving"
           /\ [d EXCEPT !.host = h].host = h
           /\ [d EXCEPT !.age = OrMore(@, Retention + 1),
                        !.since = OrMore(@, BlockTTL + 1)].host = d.host
  BY Zenon DEF IPDatas, BeingResolved

LEMMA LevelHost ==
    ASSUME NEW d \in IPDatas, NEW l PROVE [d EXCEPT !.level = l].host = d.host
  BY Zenon DEF IPDatas

LEMMA OrderedHost ==
    ASSUME NEW d \in IPDatas, NEW u PROVE Ordered(u, d).host = d.host
  BY Zenon DEF IPDatas, Ordered

\* No step but a restart touches a hostname in use, except that an updater marks
\* it and that an answer sets it.
LEMMA HostSteps ==
    ASSUME TypeOK, [Next]_vars, ~Restart, NEW o \in Objs, Referenced(o)
    PROVE  \/ ipd'[o].host = ipd[o].host
           \/ StartsLookup(o) /\ ipd'[o].host = "resolving"
           \/ GetsAnswer(o)
<1> DEFINE Goal == \/ ipd'[o].host = ipd[o].host
                   \/ StartsLookup(o) /\ ipd'[o].host = "resolving"
                   \/ GetsAnswer(o)
<1>0. ipd \in [Objs -> IPDatas] /\ ipd[o] \in IPDatas
  BY DEF TypeOK
<1>1. CASE UNCHANGED ipd
  BY <1>1
<1>2. ASSUME NEW i \in Ingesters, NEW ip \in IPs, Insert(i, ip) PROVE Goal
  BY <1>0, <1>2 DEF Insert
<1>3. ASSUME NEW i \in Ingesters, Record(i) PROVE Goal
  <2>1. ASSUME NEW p \in EntryOf(ing[i].ip), ipd' = [ipd EXCEPT ![p] = [@ EXCEPT !.age = 0, !.used = TRUE]]
        PROVE  Goal
    <3>1. ipd'[o] = ipd[o] \/ ipd'[o] = [ipd[o] EXCEPT !.age = 0, !.used = TRUE]
      BY <1>0, <2>1
    <3> QED
      BY <1>0, <3>1, NewHosts
  <2> QED
    BY <1>1, <1>3, <2>1 DEF Record
<1>4. ASSUME NEW u \in Updaters, NEW ip, NEW l, Update(u, ip, l) PROVE Goal
  <2>1. ASSUME NEW p \in EntryOf(ip), ipd' = [ipd EXCEPT ![p].level = l] PROVE Goal
    <3>1. ipd'[o] = ipd[o] \/ ipd'[o] = [ipd[o] EXCEPT !.level = l]
      BY <1>0, <2>1
    <3> QED
      BY <1>0, <3>1, LevelHost
  <2> QED
    BY <1>1, <1>4, <2>1 DEF Update
<1>5. ASSUME NEW u \in Updaters, Screen(u) PROVE Goal
  <2>1. ipd'[o] = ipd[o] \/ ipd'[o] = [ipd[o] EXCEPT !.wl = TRUE]
    BY <1>0, <1>5 DEF Screen
  <2> QED
    BY <1>0, <2>1, NewHosts
<1>6. ASSUME NEW u \in Updaters, Judge(u) PROVE Goal
  <2>1. ipd'[o] = ipd[o] \/ ipd'[o] = Ordered(u, ipd[o])
    BY <1>0, <1>6 DEF Judge
  <2> QED
    BY <1>0, <2>1, OrderedHost
<1>10. ASSUME NEW u \in Updaters, Mark(u) PROVE Goal
  <2>1. ipd'[o] = ipd[o] \/ (upd[u].obj = o /\ ipd'[o] = BeingResolved(ipd[o]))
    BY <1>0, <1>10 DEF Mark
  <2> QED
    BY <1>0, <1>10, <2>1, NewHosts DEF StartsLookup
<1>7. ASSUME NEW fails \in BOOLEAN, Write(fails) PROVE Goal
  <2>1. ipd'[o] = ipd[o] \/ ipd'[o] = [ipd[o] EXCEPT !.isBlocked = TRUE]
    BY <1>0, <1>7 DEF Write
  <2> QED
    BY <1>0, <2>1, NewHosts
<1>8. ASSUME NEW ip \in IPs, Answer(ip) PROVE Goal
  <2>1. ASSUME NEW p \in EntryOf(ip), NEW host \in {PTR[ip], "address"},
               ipd' = [ipd EXCEPT ![p].host = host]
        PROVE  Goal
    <3>1. CASE p # o
      BY <1>0, <2>1, <3>1
    <3>2. CASE p = o
      <4>1. ipd'[o] = [ipd[o] EXCEPT !.host = host]
        BY <1>0, <2>1, <3>2
      <4>2. ipd'[o].host = host
        BY <1>0, <4>1, NewHosts
      <4>3. o \in history /\ o[1] = ip
        BY <2>1, <3>2 DEF EntryOf
      <4> QED
        BY <1>8, <2>1, <4>2, <4>3 DEF GetsAnswer
    <3> QED
      BY <3>1, <3>2
  <2> QED
    BY <1>1, <1>8, <2>1 DEF Answer
<1>9. CASE Tick
  <2>1. ipd'[o] = [ipd[o] EXCEPT !.age = OrMore(@, Retention + 1), !.since = OrMore(@, BlockTTL + 1)]
    BY <1>0, <1>9 DEF Tick
  <2> QED
    BY <1>0, <2>1, NewHosts
<1> QED
  <2>1. ASSUME NEW i \in Ingesters, Receive(i) PROVE Goal
    BY <2>1, <1>4 DEF Receive, Updaters
  <2>2. CASE ReceiveNotice
    BY <2>2, <1>4 DEF ReceiveNotice, Updaters
  <2>3. CASE NextInBatch
    BY <2>3, <1>4 DEF NextInBatch, Updaters
  <2> QED
    BY <1>1, <1>2, <1>3, <1>5, <1>6, <1>7, <1>8, <1>9, <1>10, <2>1, <2>2, <2>3
       DEF Next, Reloads, StaticNext, CalmNext, Requests, Updates, Networks, Blocking, Rechecking,
           Resolving, Faults, Send, Expire, PluginBlocks, PluginSignals, Collect, Take, LoadRules,
           SignalRecheck, StartScan, ScanOne, GiveUp, ingestVars, vars

\* What an answer brings.
LEMMA Answers == ASSUME NEW ip \in IPs PROVE {PTR[ip], "address"} \subseteq Hosts \ {"resolving"}
  BY PTRAssumption DEF Hosts

LEMMA NamedAnswers == ASSUME NEW ip \in Named PROVE {PTR[ip], "address"} \subseteq Known
  BY DEF Named, Known

\* The hostname of an object that is not being marked does not become the marker.
LEMMA NotResolvingStays ==
    ASSUME TypeOK, [Next]_vars, ~Restart, NEW o \in Objs, Referenced(o), ~StartsLookup(o),
           ipd[o].host # "resolving"
    PROVE  ipd'[o].host # "resolving"
<1>1. o[1] \in IPs
  BY DEF Objs
<1> QED
  BY <1>1, HostSteps, Answers DEF GetsAnswer

\* Nor does what is known of a name get lost.
LEMMA KnownStays ==
    ASSUME TypeOK, [Next]_vars, ~Restart, NEW o \in Objs, Referenced(o), ~StartsLookup(o),
           o[1] \in Named, ipd[o].host \in Known
    PROVE  ipd'[o].host \in Known
  BY HostSteps, NamedAnswers DEF GetsAnswer

-----------------------------------------------------------------------------
(* One updater.  If there is no Networks plugin, nobody signals               *)
(* blockASNNetWorker, which therefore never runs IPData.Update.               *)

SingleUpdater ==
    /\ plugin = "idle"
    /\ checks = 0
    /\ batch = {}
    /\ upd["asn"] = IdleUpdater

LEMMA SingleUpdaterInit == Init => SingleUpdater
  BY DEF Init, SingleUpdater, Updaters

LEMMA SingleUpdaterStep ==
    ASSUME ~WithNetworks, TypeOK, SingleUpdater, [Next]_vars PROVE SingleUpdater'
<1> USE DEF SingleUpdater
<1>1. ASSUME NEW u \in Updaters, upd[u].pc # "idle" PROVE u = "history"
  BY <1>1 DEF Updaters, IdleUpdater
<1>2. ASSUME NEW ip, NEW l, Update("history", ip, l) PROVE upd'["asn"] = upd["asn"]
  BY <1>2 DEF Update, TypeOK, Updaters
<1>3. ASSUME NEW u \in Updaters, Screen(u) \/ Judge(u) \/ Mark(u) \/ Send(u)
      PROVE  upd'["asn"] = upd["asn"] /\ UNCHANGED <<plugin, checks, batch>>
  <2>1. u = "history"
    BY <1>1, <1>3 DEF Screen, Judge, Mark, Send
  <2> QED
    BY <1>3, <2>1 DEF Screen, Judge, Mark, Send, TypeOK, Updaters, signalVars
<1>4. CASE Restart
  BY <1>4 DEF Restart, Updaters
<1>5. CASE UNCHANGED vars
  BY <1>5 DEF vars
<1>6. CASE Requests
  BY <1>2, <1>6 DEF Requests, Insert, Record, Receive, signalVars, judgeVars
<1>7. CASE ReceiveNotice
  BY <1>2, <1>7 DEF ReceiveNotice, signalVars
<1>11. ASSUME NEW ip, NEW g, NEW fails, PluginBlocks(ip, g, fails) PROVE FALSE
  BY <1>11 DEF PluginBlocks
<1>8. ~Networks
  <2>1. ASSUME NEW ip \in IPs, NEW g \in Groups, PluginBlocks(ip, g, FALSE) PROVE FALSE
    BY <1>11, <2>1
  <2>2. ~PluginSignals /\ ~Collect /\ ~NextInBatch
    BY DEF PluginSignals, Collect, NextInBatch
  <2> QED
    BY <2>1, <2>2, Zenon DEF Networks
<1>9. ASSUME UNCHANGED <<plugin, checks, batch, upd>> PROVE SingleUpdater'
  BY <1>9
<1>10. CASE Blocking \/ Rechecking \/ Resolving \/ Faults \/ Expire \/ Tick \/ Reloads
  BY <1>9, <1>10, <1>11 DEF Reloads, LoadRules, SignalRecheck, Blocking, Rechecking, Resolving,
     Faults, Expire, Take, Write, StartScan, ScanOne, Answer, GiveUp, Tick, judgeVars, signalVars
<1> QED
  BY <1>3, <1>4, <1>5, <1>6, <1>7, <1>8, <1>10 DEF Next, StaticNext, CalmNext, Updates

\* Only the history goroutine changes what it works on.
LEMMA UpdaterSteps ==
    ASSUME TypeOK, [Next]_vars, ~Restart
    PROVE  \/ upd'["history"] = upd["history"]
           \/ upd'["history"].pc = "idle"
           \/ upd'["history"].pc = "screen"
           \/ Screen("history") /\ upd'["history"].pc = "judge"
           \/ Judge("history") /\ upd'["history"].pc \in {"mark", "send"}
<1> DEFINE Goal == \/ upd'["history"] = upd["history"]
                   \/ upd'["history"].pc = "idle"
                   \/ upd'["history"].pc = "screen"
                   \/ Screen("history") /\ upd'["history"].pc = "judge"
                   \/ Judge("history") /\ upd'["history"].pc \in {"mark", "send"}
<1>1. CASE UNCHANGED upd
  BY <1>1
<1>2. ASSUME NEW u \in Updaters, NEW ip, NEW l, Update(u, ip, l) PROVE Goal
  BY <1>2 DEF Update, TypeOK, Updaters
<1>3. ASSUME NEW u \in Updaters, Screen(u) PROVE Goal
  <2>1. CASE u = "history"
    <3>1. [upd[u] EXCEPT !.pc = "judge"].pc = "judge"
      BY <1>3, UpdaterGoesOn DEF Screen, TypeOK
    <3>2. upd' = [upd EXCEPT ![u] = IdleUpdater] \/ upd' = [upd EXCEPT ![u].pc = "judge"]
      BY <1>3 DEF Screen
    <3>3. upd'[u] = IdleUpdater \/ upd'[u] = [upd[u] EXCEPT !.pc = "judge"]
      BY <3>2 DEF TypeOK
    <3>4. IdleUpdater.pc = "idle"
      BY DEF IdleUpdater
    <3> QED
      BY <1>3, <2>1, <3>1, <3>3, <3>4
  <2>2. CASE u # "history"
    BY <1>3, <2>2 DEF Screen, TypeOK, Updaters
  <2> QED
    BY <2>1, <2>2
<1>4. ASSUME NEW u \in Updaters, Judge(u) PROVE Goal
  <2>1. CASE u = "history"
    <3>1. [upd[u] EXCEPT !.pc = "send"].pc = "send" /\ [upd[u] EXCEPT !.pc = "mark"].pc = "mark"
      BY <1>4, UpdaterGoesOn DEF Judge, TypeOK
    <3>2. \/ upd' = [upd EXCEPT ![u] = IdleUpdater]
          \/ upd' = [upd EXCEPT ![u].pc = "mark"]
          \/ upd' = [upd EXCEPT ![u].pc = "send"]
      BY <1>4 DEF Judge
    <3>3. \/ upd'[u] = IdleUpdater
          \/ upd'[u] = [upd[u] EXCEPT !.pc = "mark"]
          \/ upd'[u] = [upd[u] EXCEPT !.pc = "send"]
      BY <3>2 DEF TypeOK
    <3>4. IdleUpdater.pc = "idle"
      BY DEF IdleUpdater
    <3> QED
      BY <1>4, <2>1, <3>1, <3>3, <3>4
  <2>2. CASE u # "history"
    BY <1>4, <2>2 DEF Judge, TypeOK, Updaters
  <2> QED
    BY <2>1, <2>2
<1>5. ASSUME NEW u \in Updaters, Mark(u) \/ Send(u) PROVE Goal
  BY <1>5 DEF Mark, Send, TypeOK, Updaters, IdleUpdater
<1> QED
  <2>1. ASSUME NEW i \in Ingesters, Receive(i) PROVE Goal
    BY <2>1, <1>2 DEF Receive, Updaters
  <2>2. CASE ReceiveNotice
    BY <2>2, <1>2 DEF ReceiveNotice, Updaters
  <2>3. CASE NextInBatch
    BY <2>3, <1>2 DEF NextInBatch, Updaters
  <2> QED
    BY <1>1, <1>3, <1>4, <1>5, <2>1, <2>2, <2>3
       DEF Next, Reloads, StaticNext, CalmNext, Requests, Updates, Networks, Blocking, Rechecking, Resolving,
           Faults, Insert, Record, Expire, PluginBlocks, PluginSignals, Collect, Take, Write,
           LoadRules, SignalRecheck, StartScan, ScanOne, Answer, GiveUp, Tick, judgeVars, vars

\* Who is in the queue, and whom the worker is about to write.
LEMMA QueueSteps ==
    ASSUME TypeOK, [Next]_vars, ~Restart
    PROVE  /\ \A i \in 1..Len(orders') :
                 \/ \E j \in 1..Len(orders) : orders'[i] = orders[j]
                 \/ \E u \in Updaters : Send(u) /\ orders'[i] = upd[u].obj
           /\ \/ UNCHANGED worker
              \/ worker'.pc = "idle"
              \/ /\ Take /\ orders # <<>>
                 /\ worker'.obj = orders[1] /\ worker'.host = ipd[orders[1]].host
<1>1. CASE UNCHANGED orders /\ (UNCHANGED worker \/ worker'.pc = "idle")
  BY <1>1
<1>2. ASSUME NEW u \in Updaters, Send(u)
      PROVE  UNCHANGED worker /\ \A i \in 1..Len(orders') :
                 (\E j \in 1..Len(orders) : orders'[i] = orders[j]) \/ orders'[i] = upd[u].obj
  <2>1. orders \in Seq(Objs) /\ upd[u].obj \in Objs /\ orders' = Append(orders, upd[u].obj)
    BY <1>2, UpdaterGoesOn DEF Send, TypeOK
  <2> QED
    BY <1>2, <2>1 DEF Send
<1>3. CASE Take
  <2>1. orders \in Seq(Objs) /\ orders # <<>> /\ orders' = Tail(orders) /\ Head(orders) = orders[1]
    BY <1>3 DEF Take, TypeOK
  <2>2. \A i \in 1..Len(orders') : i + 1 \in 1..Len(orders) /\ orders'[i] = orders[i + 1]
    BY <2>1
  <2> QED
    BY <1>3, <2>1, <2>2 DEF Take, WorkerContinues, IdleWorker
<1>4. ASSUME NEW fails \in BOOLEAN, Write(fails) PROVE UNCHANGED orders /\ worker'.pc = "idle"
  BY <1>4 DEF Write, WorkerContinues, IdleWorker
<1> QED
  BY <1>1, <1>2, <1>3, <1>4
     DEF Next, Reloads, StaticNext, CalmNext, Requests, Updates, Networks, Blocking, Rechecking, Resolving,
         Faults, Insert, Record, Receive, ReceiveNotice, Screen, Judge, Mark, Expire, PluginBlocks,
         PluginSignals, Collect, NextInBatch, LoadRules, SignalRecheck, StartScan, ScanOne, Answer, GiveUp,
         Tick, workVars, vars

\* What a step does to the block list.
LEMMA StoreSteps ==
    ASSUME TypeOK, [Next]_vars, NEW ip \in IPs, Listed(ip)'
    PROVE  \/ Listed(ip) /\ store'[ip].host = store[ip].host
           \/ worker.pc = "write" /\ worker.obj[1] = ip /\ store'[ip].host = worker.host
<1>1. CASE UNCHANGED store
  BY <1>1 DEF Listed
<1>2. ASSUME NEW fails \in BOOLEAN, Write(fails)
      PROVE  \/ store'[ip] = store[ip]
             \/ worker.pc = "write" /\ worker.obj[1] = ip /\ store'[ip].host = worker.host
  BY <1>2 DEF Write, Written, TypeOK
<1>3. CASE ScanOne
  <2>1. store'[ip] = store[ip] \/ store'[ip] = Unlisted
    BY <1>3 DEF ScanOne, TypeOK
  <2> QED
    BY <2>1, UnlistedIsNot DEF Listed
<1>4. CASE Tick
  <2>1. store'[ip] = store[ip] \/ (Listed(ip) /\ store'[ip] = Aged(store[ip]))
    BY <1>4 DEF Tick
  <2>2. Aged(store[ip]) = Unlisted \/ Aged(store[ip]).host = store[ip].host
    BY DEF Aged, TypeOK, Entries
  <2> QED
    BY <2>1, <2>2, UnlistedIsNot DEF Listed
<1>5. CASE Restart
  BY <1>5, UnlistedIsNot DEF Restart, Listed
<1> QED
  BY <1>1, <1>2, <1>3, <1>4, <1>5
     DEF Listed, Next, Reloads, StaticNext, CalmNext, Requests, Updates, Networks, Blocking, Rechecking,
         Resolving, Faults, Insert, Record, Receive, ReceiveNotice, Screen, Judge, Mark, Send, Expire,
         PluginBlocks, PluginSignals, Collect, NextInBatch, Take, LoadRules, SignalRecheck, StartScan, Answer,
         GiveUp, listVars, vars

-----------------------------------------------------------------------------
(* Nobody is listed before the lookup. *)

\* From Judge on, an object is not being resolved, and what has a name carries an
\* answer when it is ordered and keeps it as long as it is in the queue.
LookupInv ==
    /\ SingleUpdater
    /\ upd["history"].pc \in {"judge", "send"} => ipd[upd["history"].obj].host # "resolving"
    /\ upd["history"].pc = "send" /\ upd["history"].obj[1] \in Named
          => ipd[upd["history"].obj].host \in Known
    /\ \A i \in 1..Len(orders) : orders[i][1] \in Named =>
          /\ ipd[orders[i]].host \in Known
          /\ upd["history"].pc = "mark" => upd["history"].obj # orders[i]
    /\ worker.pc = "write" /\ worker.obj[1] \in Named => worker.host \in Known
    /\ LookupBeforeBlock

LEMMA LookupInvInit == Init => LookupInv
<1> SUFFICES ASSUME Init PROVE LookupInv
  OBVIOUS
<1>1. upd["history"].pc = "idle" /\ worker.pc = "idle" /\ Len(orders) = 0
  BY DEF Init, Updaters, IdleUpdater, IdleWorker
<1>2. \A ip \in IPs : ~Listed(ip)
  BY UnlistedIsNot DEF Init, Listed
<1> QED
  BY <1>1, <1>2, SingleUpdaterInit DEF LookupInv, LookupBeforeBlock, Named

\* The history goroutine's object, the queue's and the worker's are in use.
LEMMA InUse ==
    ASSUME TypeOK
    PROVE  /\ upd["history"].pc # "idle" => upd["history"].obj \in Objs /\ Referenced(upd["history"].obj)
           /\ \A i \in 1..Len(orders) : orders[i] \in Objs /\ Referenced(orders[i])
<1>1. ASSUME upd["history"].pc # "idle"
      PROVE  upd["history"].obj \in Objs /\ Referenced(upd["history"].obj)
  BY <1>1, UpdaterGoesOn DEF TypeOK, Updaters, Referenced
<1>2. ASSUME NEW i \in 1..Len(orders) PROVE orders[i] \in Objs /\ Referenced(orders[i])
  BY <1>2 DEF TypeOK, Referenced
<1> QED
  BY <1>1, <1>2

\* The only lookup a single updater can start is of the object it has at "mark",
\* and it then lets go of it.
LEMMA OneStarts ==
    ASSUME TypeOK, SingleUpdater, NEW o, StartsLookup(o)
    PROVE  /\ Mark("history") /\ upd["history"].pc = "mark" /\ upd["history"].obj = o
           /\ upd'["history"].pc = "idle"
<1>1. PICK u \in Updaters : Mark(u) /\ upd[u].obj = o
  BY DEF StartsLookup
<1>2. u = "history"
  BY <1>1 DEF Mark, SingleUpdater, Updaters, IdleUpdater
<1> QED
  BY <1>1, <1>2 DEF Mark, IdleUpdater, TypeOK, Updaters

\* An object the history goroutine goes on with, and what Judge makes of it.
LEMMA JudgeSends ==
    ASSUME TypeOK, Judge("history"), upd'["history"].pc = "send"
    PROVE  /\ upd["history"].pc = "judge" /\ upd["history"].obj \in Objs
           /\ upd'["history"].obj = upd["history"].obj
           /\ ipd'[upd["history"].obj].host = ipd[upd["history"].obj].host
           /\ ipd[upd["history"].obj].host # ""
<1> DEFINE o == upd["history"].obj
<1>1. /\ o \in Objs /\ upd["history"].pc = "judge"
      /\ [upd["history"] EXCEPT !.pc = "send"].obj = o
      /\ [upd["history"] EXCEPT !.pc = "mark"].pc = "mark"
  BY UpdaterGoesOn DEF Judge, TypeOK, Updaters
<1>2. ipd[o] \in IPDatas
  BY <1>1 DEF TypeOK
<1>3. ~AwaitsHost(o) /\ upd' = [upd EXCEPT !["history"].pc = "send"]
         /\ ipd' = [ipd EXCEPT ![o] = Ordered("history", ipd[o])]
  <2>1. IdleUpdater.pc = "idle" /\ "history" \in Updaters
    BY DEF IdleUpdater, Updaters
  <2>2. upd' # [upd EXCEPT !["history"] = IdleUpdater]
    BY <2>1 DEF TypeOK
  <2>3. upd' # [upd EXCEPT !["history"].pc = "mark"]
    BY <1>1, <2>1 DEF TypeOK
  <2> QED
    BY <2>2, <2>3 DEF Judge
<1>4. upd'["history"].obj = o
  BY <1>1, <1>3 DEF TypeOK, Updaters
<1>5. ipd'[o].host = ipd[o].host
  BY <1>1, <1>2, <1>3, OrderedHost DEF TypeOK
<1> QED
  BY <1>1, <1>3, <1>4, <1>5 DEF AwaitsHost

LEMMA JudgeMarks ==
    ASSUME TypeOK, Judge("history"), upd'["history"].pc = "mark"
    PROVE  /\ upd["history"].pc = "judge" /\ upd["history"].obj \in Objs
           /\ upd'["history"].obj = upd["history"].obj
           /\ ipd[upd["history"].obj].host = "" /\ UNCHANGED <<ipd, orders, lookups>>
<1> DEFINE o == upd["history"].obj
<1>1. /\ o \in Objs /\ upd["history"].pc = "judge"
      /\ [upd["history"] EXCEPT !.pc = "mark"].obj = o
      /\ [upd["history"] EXCEPT !.pc = "send"].pc = "send"
  BY UpdaterGoesOn DEF Judge, TypeOK, Updaters
<1>2. AwaitsHost(o) /\ upd' = [upd EXCEPT !["history"].pc = "mark"] /\ UNCHANGED ipd
  <2>1. IdleUpdater.pc = "idle" /\ "history" \in Updaters
    BY DEF IdleUpdater, Updaters
  <2>2. upd' # [upd EXCEPT !["history"] = IdleUpdater]
    BY <2>1 DEF TypeOK
  <2>3. upd' # [upd EXCEPT !["history"].pc = "send"]
    BY <1>1, <2>1 DEF TypeOK
  <2> QED
    BY <2>2, <2>3 DEF Judge
<1>3. upd'["history"].obj = o
  BY <1>1, <1>2 DEF TypeOK, Updaters
<1> QED
  BY <1>1, <1>2, <1>3 DEF AwaitsHost, Judge, workVars, resolveVars

LEMMA ScreenPasses ==
    ASSUME TypeOK, Screen("history"), upd'["history"].pc = "judge"
    PROVE  /\ upd'["history"].obj = upd["history"].obj /\ UNCHANGED ipd
           /\ ipd[upd["history"].obj].host # "resolving"
           /\ ~Whitelisted(upd["history"].obj[1], ipd[upd["history"].obj].host)
<1> DEFINE o == upd["history"].obj
<1>1. /\ upd' = [upd EXCEPT !["history"].pc = "judge"] /\ UNCHANGED ipd
      /\ ~LeftAlone(o) /\ ~Whitelisted(o[1], ipd[o].host)
  BY DEF Screen, TypeOK, Updaters, IdleUpdater
<1>2. upd'["history"].obj = o
  BY <1>1, UpdaterGoesOn DEF Screen, TypeOK, Updaters
<1> QED
  BY <1>1, <1>2 DEF LeftAlone

LEMMA LookupInvStep ==
    ASSUME ~WithNetworks, TypeOK, LookupInv, [Next]_vars PROVE LookupInv'
<1>1. SingleUpdater /\ SingleUpdater'
  BY SingleUpdaterStep DEF LookupInv
<1>2. CASE Restart
  <2>1. upd'["history"].pc = "idle" /\ worker'.pc = "idle" /\ Len(orders') = 0
    BY <1>2 DEF Restart, Updaters, IdleUpdater, IdleWorker
  <2>2. LookupBeforeBlock'
    <3>1. \A ip \in IPs : Listed(ip)' => Listed(ip) /\ store'[ip] = store[ip]
      BY <1>2, UnlistedIsNot DEF Restart, Listed
    <3> QED
      BY <3>1 DEF LookupInv, LookupBeforeBlock, Named
  <2> QED
    BY <1>1, <2>1, <2>2 DEF LookupInv
<1>3. CASE ~Restart
  <2> USE <1>3
  <2> DEFINE o == upd["history"].obj
  <2>0. ASSUME upd'["history"] = upd["history"], upd["history"].pc # "idle"
        PROVE  o \in Objs /\ Referenced(o) /\ ~StartsLookup(o)
    BY <1>1, <2>0, InUse, OneStarts
  <2>1. ASSUME upd'["history"].pc \in {"judge", "send"}
        PROVE  ipd'[upd'["history"].obj].host # "resolving"
    <3>1. CASE upd'["history"] = upd["history"]
      BY <2>0, <2>1, <3>1, NotResolvingStays DEF LookupInv
    <3>2. CASE Screen("history") /\ upd'["history"].pc = "judge"
      BY <3>2, ScreenPasses
    <3>3. CASE Judge("history") /\ upd'["history"].pc = "send"
      BY <3>3, JudgeSends DEF LookupInv
    <3> QED
      BY <2>1, <3>1, <3>2, <3>3, UpdaterSteps
  <2>2. ASSUME upd'["history"].pc = "send", upd'["history"].obj[1] \in Named
        PROVE  ipd'[upd'["history"].obj].host \in Known
    <3>1. CASE upd'["history"] = upd["history"]
      BY <2>0, <2>2, <3>1, KnownStays DEF LookupInv
    <3>2. CASE Judge("history") /\ upd'["history"].pc = "send"
      <4>1. ipd[o].host # "resolving" /\ ipd[o].host # "" /\ o \in Objs
        BY <3>2, JudgeSends DEF LookupInv
      <4>2. ipd[o].host \in Known
        BY <4>1 DEF TypeOK, IPDatas, Hosts, Known
      <4> QED
        BY <3>2, <4>2, JudgeSends
    <3> QED
      BY <2>2, <3>1, <3>2, UpdaterSteps
  <2>3. ASSUME NEW i \in 1..Len(orders'), orders'[i][1] \in Named
        PROVE  /\ ipd'[orders'[i]].host \in Known
               /\ upd'["history"].pc = "mark" => upd'["history"].obj # orders'[i]
    <3>1. ASSUME NEW j \in 1..Len(orders), orders'[i] = orders[j]
          PROVE  /\ ipd'[orders'[i]].host \in Known
                 /\ upd'["history"].pc = "mark" => upd'["history"].obj # orders'[i]
      <4> DEFINE p == orders[j]
      <4>1. p \in Objs /\ Referenced(p) /\ p[1] \in Named /\ ipd[p].host \in Known
        BY <2>3, <3>1, InUse DEF LookupInv
      <4>2. ~StartsLookup(p)
        BY <1>1, <2>3, <3>1, OneStarts DEF LookupInv
      <4>3. ipd'[p].host \in Known
        BY <4>1, <4>2, KnownStays
      <4>4. ASSUME upd'["history"].pc = "mark" PROVE upd'["history"].obj # p
        <5>1. CASE upd'["history"] = upd["history"]
          BY <2>3, <3>1, <4>4, <5>1 DEF LookupInv
        <5>2. CASE Judge("history")
          BY <4>1, <4>4, <5>2, JudgeMarks DEF Known
        <5> QED
          BY <4>4, <5>1, <5>2, UpdaterSteps
      <4> QED
        BY <3>1, <4>3, <4>4
    <3>2. ASSUME NEW u \in Updaters, Send(u), orders'[i] = upd[u].obj
          PROVE  /\ ipd'[orders'[i]].host \in Known
                 /\ upd'["history"].pc = "mark" => upd'["history"].obj # orders'[i]
      <4>1. u = "history"
        BY <1>1, <3>2 DEF Send, SingleUpdater, Updaters, IdleUpdater
      <4>2. upd'["history"].pc = "idle" /\ upd["history"].pc = "send" /\ UNCHANGED ipd
        BY <3>2, <4>1 DEF Send, TypeOK, IdleUpdater
      <4> QED
        BY <2>3, <3>2, <4>1, <4>2 DEF LookupInv
    <3> QED
      BY <3>1, <3>2, QueueSteps
  <2>4. ASSUME worker'.pc = "write", worker'.obj[1] \in Named PROVE worker'.host \in Known
    <3>1. CASE UNCHANGED worker
      BY <2>4, <3>1 DEF LookupInv
    <3>2. CASE orders # <<>> /\ worker'.obj = orders[1] /\ worker'.host = ipd[orders[1]].host
      <4>1. 1 \in 1..Len(orders)
        BY <3>2 DEF TypeOK
      <4> QED
        BY <2>4, <3>2, <4>1 DEF LookupInv
    <3> QED
      BY <2>4, <3>1, <3>2, QueueSteps
  <2>5. LookupBeforeBlock'
    BY StoreSteps DEF LookupInv, LookupBeforeBlock, Named
  <2> QED
    BY <1>1, <2>1, <2>2, <2>3, <2>4, <2>5 DEF LookupInv
<1> QED
  BY <1>2, <1>3

\* Without the Networks plugin no address that has a name is listed before a lookup
\* of it has been answered, by the name or by the address in its place, whatever
\* requests, reloads, failures and restarts happen (ShouldBeBlocked, SetHostname).
THEOREM LookedUpFirst == ASSUME ~WithNetworks PROVE Spec => []LookupBeforeBlock
<1>1. Spec => []LookupInv
  <2>1. TypeOK /\ LookupInv /\ [Next]_vars => LookupInv'
    BY LookupInvStep
  <2> QED
    BY LookupInvInit, <2>1, Typing, PTL DEF Spec
<1>2. LookupInv => LookupBeforeBlock
  BY DEF LookupInv
<1> QED
  BY <1>1, <1>2, PTL

-----------------------------------------------------------------------------
(* Nobody whose name is whitelisted is listed under it, if the rules stay and *)
(* no entry goes while its lookup is under way.                              *)

\* There is one entry per address, the one the history goroutine works on is among
\* them, a lookup in flight is the only one of its address and belongs to an entry
\* that waits for it, and none is in flight for an object about to be marked.
EntriesInv ==
    /\ \A o, p \in history : o[1] = p[1] => o = p
    /\ upd["history"].pc # "idle" => upd["history"].obj \in history
    /\ \A ip \in IPs : lookups[ip] # 0 =>
          lookups[ip] = 1 /\ \E o \in history : o[1] = ip /\ ipd[o].host = "resolving"
    /\ upd["history"].pc = "mark" => ipd[upd["history"].obj].host = ""

\* From Screen on a name is not whitelisted; what is ordered and written of the
\* addresses whose name is carries the address in its place.
HostInv ==
    /\ upd["history"].pc \in {"judge", "send"} /\ upd["history"].obj[1] \in rules.host
          => ipd[upd["history"].obj].host # "name"
    /\ \A i \in 1..Len(orders) : orders[i][1] \in rules.host => ipd[orders[i]].host = "address"
    /\ worker.pc = "write" /\ worker.obj[1] \in rules.host => worker.host = "address"
    /\ HostWhitelistRespected

PromptNext == StaticNext /\ PromptLookups

LEMMA StaticRules == ASSUME [StaticNext]_vars PROVE rules' = rules
  BY DEF StaticNext, CalmNext, Requests, Updates, Networks, Blocking, Rechecking, Resolving, Faults,
         Insert, Record, Receive, ReceiveNotice, Screen, Judge, Mark, Send, Expire, PluginBlocks,
         PluginSignals, Collect, NextInBatch, Take, Write, StartScan, ScanOne, Answer, GiveUp,
         Tick, signalVars, vars

\* What a step does to the history.
LEMMA HistorySteps ==
    ASSUME [StaticNext]_vars
    PROVE  \/ UNCHANGED history
           \/ Expire /\ history' \subseteq history
           \/ \E ip \in IPs, g \in Gens : /\ EntryOf(ip) = {}
                                          /\ history' = history \cup {<<ip, g>>}
                                          /\ UNCHANGED <<upd, lookups>>
  BY DEF StaticNext, CalmNext, Requests, Updates, Networks, Blocking, Rechecking, Resolving, Faults,
         Insert, Record, Receive, ReceiveNotice, Screen, Judge, Mark, Send, Expire, PluginBlocks,
         PluginSignals, Collect, NextInBatch, Take, Write, StartScan, ScanOne, Answer, GiveUp,
         Tick, ingestVars, judgeVars, resolveVars, vars

\* Only Mark starts a lookup, and an answer or giving up ends one.
LEMMA LookupSteps ==
    ASSUME TypeOK, SingleUpdater, [StaticNext]_vars, NEW ip \in IPs
    PROVE  \/ lookups'[ip] = lookups[ip] /\ ~Answer(ip)
           \/ lookups'[ip] = lookups[ip] - 1 /\ lookups[ip] > 0
           \/ /\ Mark("history") /\ upd["history"].obj[1] = ip
              /\ ipd'[upd["history"].obj].host = "resolving"
              /\ lookups'[ip] = OrMore(lookups[ip], MaxLookups + 1)
<1> DEFINE Goal == \/ lookups'[ip] = lookups[ip] /\ ~Answer(ip)
                   \/ lookups'[ip] = lookups[ip] - 1 /\ lookups[ip] > 0
                   \/ /\ Mark("history") /\ upd["history"].obj[1] = ip
                      /\ ipd'[upd["history"].obj].host = "resolving"
                      /\ lookups'[ip] = OrMore(lookups[ip], MaxLookups + 1)
<1>0. lookups \in [IPs -> Nat]
  BY DEF TypeOK
<1>1. CASE UNCHANGED lookups
  <2>1. ~Answer(ip)
    BY <1>0, <1>1 DEF Answer
  <2> QED
    BY <1>1, <2>1
<1>2. ASSUME NEW u \in Updaters, Mark(u) PROVE Goal
  <2>1. u = "history"
    BY <1>2 DEF Mark, SingleUpdater, Updaters, IdleUpdater
  <2> DEFINE o == upd["history"].obj
  <2>2. o \in Objs /\ ipd[o] \in IPDatas
    BY <1>2, <2>1, UpdaterGoesOn DEF Mark, TypeOK
  <2>3. /\ lookups' = [lookups EXCEPT ![o[1]] = OrMore(lookups[o[1]], MaxLookups + 1)]
        /\ ipd' = [ipd EXCEPT ![o] = BeingResolved(ipd[o])]
    BY <1>2, <2>1 DEF Mark
  <2>4. ipd'[o].host = "resolving"
    BY <2>2, <2>3, NewHosts DEF TypeOK
  <2>5. CASE o[1] = ip
    BY <1>0, <1>2, <2>1, <2>3, <2>4, <2>5
  <2>6. CASE o[1] # ip
    <3>1. lookups'[ip] = lookups[ip]
      BY <1>0, <2>3, <2>6
    <3>2. ~Answer(ip)
      BY <1>0, <3>1 DEF Answer
    <3> QED
      BY <3>1, <3>2
  <2> QED
    BY <2>5, <2>6
<1>3. ASSUME NEW x \in IPs, lookups[x] > 0, lookups' = [lookups EXCEPT ![x] = @ - 1] PROVE Goal
  <2>1. CASE x = ip
    BY <1>0, <1>3, <2>1
  <2>2. CASE x # ip
    <3>1. lookups'[ip] = lookups[ip]
      BY <1>0, <1>3, <2>2
    <3>2. ~Answer(ip)
      BY <1>0, <3>1 DEF Answer
    <3> QED
      BY <3>1, <3>2
  <2> QED
    BY <2>1, <2>2
<1> QED
  BY <1>1, <1>2, <1>3
     DEF StaticNext, CalmNext, Requests, Updates, Networks, Blocking, Rechecking, Resolving, Faults,
         Insert, Record, Receive, ReceiveNotice, Screen, Judge, Send, Expire, PluginBlocks,
         PluginSignals, Collect, NextInBatch, Take, Write, StartScan, ScanOne, Answer, GiveUp,
         Tick, resolveVars, vars

\* What the history goroutine takes up is in the history.
LEMMA UpdaterHolds ==
    ASSUME TypeOK, [StaticNext]_vars
    PROVE  \/ upd'["history"].pc = "idle"
           \/ upd["history"].pc # "idle" /\ upd'["history"].obj = upd["history"].obj
           \/ upd'["history"].obj \in history
<1> DEFINE Goal == \/ upd'["history"].pc = "idle"
                   \/ upd["history"].pc # "idle" /\ upd'["history"].obj = upd["history"].obj
                   \/ upd'["history"].obj \in history
<1>1. ASSUME upd'["history"] = upd["history"] PROVE Goal
  BY <1>1
<1>2. ASSUME NEW u \in Updaters, NEW ip, NEW l, Update(u, ip, l) PROVE Goal
  BY <1>1, <1>2 DEF Update, EntryOf, TypeOK, Updaters
<1>3. ASSUME NEW u \in Updaters, NEW s, upd[u].pc # "idle", upd' = [upd EXCEPT ![u] = s],
             s.pc = "idle" \/ s.obj = upd[u].obj
      PROVE  Goal
  BY <1>1, <1>3 DEF TypeOK, Updaters
<1>4. ASSUME NEW u \in Updaters, Screen(u) \/ Judge(u) \/ Mark(u) \/ Send(u) PROVE Goal
  <2>1. upd[u].pc \in {"screen", "judge", "mark", "send"} /\ upd[u] \in UpdaterStates
    BY <1>4 DEF Screen, Judge, Mark, Send, TypeOK
  <2>2. /\ [upd[u] EXCEPT !.pc = "judge"].obj = upd[u].obj
        /\ [upd[u] EXCEPT !.pc = "mark"].obj = upd[u].obj
        /\ [upd[u] EXCEPT !.pc = "send"].obj = upd[u].obj
        /\ IdleUpdater.pc = "idle"
    BY <2>1, UpdaterGoesOn DEF IdleUpdater
  <2>3. \/ upd' = [upd EXCEPT ![u] = IdleUpdater]
        \/ upd' = [upd EXCEPT ![u] = [upd[u] EXCEPT !.pc = "judge"]]
        \/ upd' = [upd EXCEPT ![u] = [upd[u] EXCEPT !.pc = "mark"]]
        \/ upd' = [upd EXCEPT ![u] = [upd[u] EXCEPT !.pc = "send"]]
    BY <1>4 DEF Screen, Judge, Mark, Send, TypeOK
  <2> QED
    BY <1>3, <2>1, <2>2, <2>3
<1> QED
  <2>1. ASSUME NEW i \in Ingesters, Receive(i) PROVE Goal
    BY <2>1, <1>2 DEF Receive, Updaters
  <2>2. CASE ReceiveNotice
    BY <2>2, <1>2 DEF ReceiveNotice, Updaters
  <2>3. CASE NextInBatch
    BY <2>3, <1>2 DEF NextInBatch, Updaters
  <2> QED
    BY <1>1, <1>4, <2>1, <2>2, <2>3
       DEF StaticNext, CalmNext, Requests, Updates, Networks, Blocking, Rechecking, Resolving,
           Faults, Insert, Record, Expire, PluginBlocks, PluginSignals, Collect, Take, Write,
           StartScan, ScanOne, Answer, GiveUp, Tick, judgeVars, vars

\* An entry that is not waiting for an answer gets none.
LEMMA NoAnswer ==
    ASSUME TypeOK, EntriesInv, NEW o \in history, ipd[o].host # "resolving"
    PROVE  lookups[o[1]] = 0 /\ ~Answer(o[1])
<1>1. o[1] \in IPs
  BY DEF TypeOK, Objs
<1>2. lookups[o[1]] = 0
  <2>1. \A p \in history : p[1] = o[1] => ipd[p].host # "resolving"
    BY DEF EntriesInv
  <2> QED
    BY <1>1, <2>1 DEF EntriesInv
<1> QED
  BY <1>2 DEF Answer

LEMMA EntriesStep ==
    ASSUME TypeOK, SingleUpdater, EntriesInv, [PromptNext]_vars, ~Restart PROVE EntriesInv'
<1>0. [StaticNext]_vars /\ [Next]_vars
  BY DEF PromptNext, Next
<1>1. \A o, p \in history' : o[1] = p[1] => o = p
  <2>1. ASSUME NEW ip \in IPs, NEW g \in Gens, EntryOf(ip) = {}, history' = history \cup {<<ip, g>>}
        PROVE  \A o, p \in history' : o[1] = p[1] => o = p
    <3>1. \A o \in history : o[1] # ip
      BY <2>1 DEF EntryOf
    <3>2. <<ip, g>>[1] = ip
      OBVIOUS
    <3> QED
      BY <2>1, <3>1, <3>2 DEF EntriesInv
  <2> QED
    BY <1>0, <2>1, HistorySteps DEF EntriesInv
<1>2. ASSUME Expire \/ ~(history \subseteq history')
      PROVE  Expire /\ upd'["history"].pc = "idle" /\ lookups' = lookups /\ \A ip \in IPs : lookups[ip] = 0
  <2>1. Expire
    BY <1>0, <1>2, HistorySteps
  <2>2. PromptLookups
    BY <2>1 DEF PromptNext, vars, PromptLookups, Expire
  <2> QED
    BY <2>1, <2>2 DEF Expire, PromptLookups, judgeVars, resolveVars
<1>3. upd'["history"].pc # "idle" => upd'["history"].obj \in history'
  BY <1>0, <1>2, UpdaterHolds DEF EntriesInv
<1>4. ASSUME NEW ip \in IPs, lookups'[ip] # 0
      PROVE  lookups'[ip] = 1 /\ \E o \in history' : o[1] = ip /\ ipd'[o].host = "resolving"
  <2>1. history \subseteq history'
    BY <1>2, <1>4
  <2>2. CASE lookups'[ip] = lookups[ip] /\ ~Answer(ip)
    <3>1. PICK o \in history : o[1] = ip /\ ipd[o].host = "resolving"
      BY <1>4, <2>2 DEF EntriesInv
    <3>2. o \in Objs /\ Referenced(o)
      BY <3>1 DEF TypeOK, Referenced
    <3>3. ipd'[o].host = "resolving"
      BY <1>0, <2>2, <3>1, <3>2, HostSteps DEF GetsAnswer
    <3> QED
      BY <1>4, <2>1, <2>2, <3>1, <3>3 DEF EntriesInv
  <2>3. CASE lookups'[ip] = lookups[ip] - 1 /\ lookups[ip] > 0
    <3>1. lookups[ip] # 0
      BY <2>3
    <3>2. lookups[ip] = 1
      BY <3>1 DEF EntriesInv
    <3> QED
      BY <1>4, <2>3, <3>2
  <2>4. CASE /\ Mark("history") /\ upd["history"].obj[1] = ip
             /\ ipd'[upd["history"].obj].host = "resolving"
             /\ lookups'[ip] = OrMore(lookups[ip], MaxLookups + 1)
    <3>1. upd["history"].obj \in history /\ ipd[upd["history"].obj].host = ""
      BY <2>4 DEF Mark, EntriesInv
    <3>2. lookups[ip] = 0
      BY <2>4, <3>1, NoAnswer
    <3>3. lookups'[ip] = 1
      BY <2>4, <3>2, LimitAssumption DEF OrMore
    <3> QED
      BY <2>1, <2>4, <3>1, <3>3
  <2> QED
    BY <1>0, <2>2, <2>3, <2>4, LookupSteps
<1>5. ASSUME upd'["history"].pc = "mark" PROVE ipd'[upd'["history"].obj].host = ""
  <2> DEFINE o == upd["history"].obj
  <2>1. CASE upd'["history"] = upd["history"]
    <3>1. o \in history /\ ipd[o].host = ""
      BY <1>5, <2>1 DEF EntriesInv
    <3>2. ~Answer(o[1])
      BY <3>1, NoAnswer
    <3>3. ~StartsLookup(o)
      BY <1>5, <2>1, OneStarts
    <3>4. o \in Objs /\ Referenced(o)
      BY <3>1 DEF TypeOK, Referenced
    <3> QED
      BY <1>0, <2>1, <3>1, <3>2, <3>3, <3>4, HostSteps DEF GetsAnswer
  <2>2. CASE Judge("history") /\ upd'["history"].pc = "mark"
    BY <2>2, JudgeMarks
  <2> QED
    BY <1>0, <1>5, <2>1, <2>2, UpdaterSteps
<1> QED
  BY <1>1, <1>3, <1>4, <1>5 DEF EntriesInv

\* An object that is past Screen gets no answer any more: it waits for none.
LEMMA HostStays ==
    ASSUME TypeOK, EntriesInv, LookupInv, [PromptNext]_vars, ~Restart,
           upd["history"].pc \in {"judge", "send"}, upd'["history"] = upd["history"]
    PROVE  ipd'[upd["history"].obj].host = ipd[upd["history"].obj].host
<1> DEFINE o == upd["history"].obj
<1>1. o \in history /\ o \in Objs /\ Referenced(o) /\ ipd[o].host # "resolving"
  BY DEF EntriesInv, LookupInv, TypeOK, Referenced
<1>2. ~Answer(o[1])
  BY <1>1, NoAnswer
<1>3. ~StartsLookup(o)
  BY OneStarts DEF LookupInv
<1>4. [Next]_vars
  BY DEF PromptNext, Next
<1> QED
  BY <1>1, <1>2, <1>3, <1>4, HostSteps DEF GetsAnswer

\* Nor does an object in the queue whose hostname is the address.
LEMMA AddressStays ==
    ASSUME TypeOK, SingleUpdater, EntriesInv, [PromptNext]_vars, ~Restart,
           NEW o \in Objs, Referenced(o), ipd[o].host = "address"
    PROVE  ipd'[o].host = "address"
<1>1. ~GetsAnswer(o)
  BY NoAnswer DEF GetsAnswer
<1>2. ~StartsLookup(o)
  BY OneStarts DEF EntriesInv
<1>3. [Next]_vars
  BY DEF PromptNext, Next
<1> QED
  BY <1>1, <1>2, <1>3, HostSteps

LEMMA HostStep ==
    ASSUME TypeOK, EntriesInv, LookupInv, HostInv, [PromptNext]_vars, ~Restart PROVE HostInv'
<1>0. [Next]_vars /\ rules' = rules /\ SingleUpdater /\ rules.host \subseteq Named
  BY StaticRules DEF PromptNext, Next, LookupInv, TypeOK, RuleSets
<1> DEFINE o == upd["history"].obj
<1>1. ASSUME upd'["history"].pc \in {"judge", "send"}, upd'["history"].obj[1] \in rules.host
      PROVE  ipd'[upd'["history"].obj].host # "name"
  <2>1. CASE upd'["history"] = upd["history"]
    BY <1>1, <2>1, HostStays DEF HostInv
  <2>2. CASE Screen("history") /\ upd'["history"].pc = "judge"
    BY <1>1, <2>2, ScreenPasses DEF Whitelisted
  <2>3. CASE Judge("history") /\ upd'["history"].pc = "send"
    BY <1>1, <2>3, JudgeSends DEF HostInv
  <2> QED
    BY <1>0, <1>1, <2>1, <2>2, <2>3, UpdaterSteps
<1>2. ASSUME NEW i \in 1..Len(orders'), orders'[i][1] \in rules.host
      PROVE  ipd'[orders'[i]].host = "address"
  <2>1. ASSUME NEW j \in 1..Len(orders), orders'[i] = orders[j] PROVE ipd'[orders'[i]].host = "address"
    BY <1>0, <1>2, <2>1, InUse, AddressStays DEF HostInv
  <2>2. ASSUME NEW u \in Updaters, Send(u), orders'[i] = upd[u].obj
        PROVE  ipd'[orders'[i]].host = "address"
    <3>1. u = "history" /\ upd[u].pc = "send" /\ UNCHANGED ipd
      BY <1>0, <2>2 DEF Send, SingleUpdater, Updaters, IdleUpdater
    <3>2. o[1] \in rules.host /\ o[1] \in Named
      BY <1>0, <1>2, <2>2, <3>1
    <3>3. ipd[o].host \in Known /\ ipd[o].host # "name"
      BY <3>1, <3>2 DEF LookupInv, HostInv
    <3> QED
      BY <2>2, <3>1, <3>3 DEF Known
  <2> QED
    BY <1>0, <2>1, <2>2, QueueSteps
<1>3. ASSUME worker'.pc = "write", worker'.obj[1] \in rules.host PROVE worker'.host = "address"
  <2>1. orders # <<>> => 1 \in 1..Len(orders)
    BY DEF TypeOK
  <2> QED
    BY <1>0, <1>3, <2>1, QueueSteps DEF HostInv
<1>4. HostWhitelistRespected'
  BY <1>0, StoreSteps DEF HostInv, HostWhitelistRespected, Named
<1> QED
  BY <1>0, <1>1, <1>2, <1>3, <1>4 DEF HostInv

LEMMA PromptRestart ==
    ASSUME TypeOK, HostInv, [PromptNext]_vars, Restart PROVE EntriesInv' /\ HostInv'
<1>1. /\ history' = {} /\ upd'["history"].pc = "idle" /\ worker'.pc = "idle" /\ Len(orders') = 0
  BY DEF Restart, Updaters, IdleUpdater, IdleWorker
<1>4. \A ip \in IPs : lookups'[ip] = 0
  BY DEF Restart
<1>2. \A ip \in IPs : Listed(ip)' => Listed(ip) /\ store'[ip] = store[ip]
  BY UnlistedIsNot DEF Restart, Listed
<1>3. rules' = rules
  BY StaticRules DEF PromptNext
<1> QED
  BY <1>1, <1>2, <1>3, <1>4 DEF EntriesInv, HostInv, HostWhitelistRespected, TypeOK, RuleSets, Named

LEMMA PromptInit == Init => EntriesInv /\ HostInv
<1> SUFFICES ASSUME Init PROVE EntriesInv /\ HostInv
  OBVIOUS
<1>1. /\ history = {} /\ upd["history"].pc = "idle" /\ worker.pc = "idle" /\ Len(orders) = 0
  BY DEF Init, Updaters, IdleUpdater, IdleWorker
<1>4. \A ip \in IPs : lookups[ip] = 0
  BY DEF Init
<1>2. \A ip \in IPs : ~Listed(ip)
  BY UnlistedIsNot DEF Init, Listed
<1>3. rules \in RuleSets
  BY DEF Init
<1> QED
  BY <1>1, <1>2, <1>3, <1>4 DEF EntriesInv, HostInv, HostWhitelistRespected, RuleSets, Named

\* Without the Networks plugin an address whose name a ClientHost rule whitelists is
\* listed only if its lookup gave the address in place of the name, while the rules
\* stay as they are and no entry expires during its lookup, for any number of
\* addresses, ingesters and objects (ShouldBeBlocked, IsWhitelistedByClientHost).
THEOREM HostWhitelisted == ASSUME ~WithNetworks PROVE PromptSpec => []HostWhitelistRespected
<1> DEFINE Inv == EntriesInv /\ HostInv
<1>1. [PromptNext]_vars => [Next]_vars
  BY DEF PromptNext, Next
<1>2. PromptSpec => [](TypeOK /\ LookupInv)
  <2>1. PromptSpec => Spec
    BY <1>1, PTL DEF PromptSpec, PromptNext, Spec
  <2>2. TypeOK /\ LookupInv /\ [Next]_vars => LookupInv'
    BY LookupInvStep
  <2> QED
    BY <2>1, <2>2, LookupInvInit, Typing, PTL DEF Spec
<1>3. TypeOK /\ LookupInv /\ Inv /\ [PromptNext]_vars => Inv'
  <2> SUFFICES ASSUME TypeOK, LookupInv, Inv, [PromptNext]_vars PROVE Inv'
    OBVIOUS
  <2>1. SingleUpdater
    BY DEF LookupInv
  <2> QED
    BY <2>1, EntriesStep, HostStep, PromptRestart
<1>4. Inv => HostWhitelistRespected
  BY DEF HostInv
<1> QED
  BY PromptInit, <1>2, <1>3, <1>4, PTL DEF PromptSpec, PromptNext
=============================================================================
