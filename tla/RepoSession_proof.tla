-------------------------- MODULE RepoSession_proof --------------------------
(***************************************************************************)
(* The live pipeline for any number of callbacks, requests, connections,   *)
(* repositories and working trees, any capacity of the channel and any     *)
(* number of changes: its type invariant; that updateMu makes every update *)
(* compare its repository with the one it replaces; that graph deltas are  *)
(* queued in the order of the graphs they lead between; and that what is   *)
(* on its way to a client leads to the cached graph.                       *)
(***************************************************************************)
EXTENDS RepoSession, LiveFeed_proof, SequenceTheorems, WellFoundedInduction

LEMMA ConstantTypes ==
    /\ Repos \subseteq Repository
    /\ broadcastChannelSize \in Nat \ {0} /\ MaxChanges \in Nat /\ Nobody \notin Updater
BY SessionAssumption

LEMMA EmptyTypes == EmptyRepository \in Repository /\ GraphOf(EmptyRepository) \in Graph
<1>1. [b \in {} |-> NoHash] \in [{} -> Commit]
  OBVIOUS
<1>2. [b \in {} |-> NoHash] \in PartialFcn(Branch, Commit)
  BY <1>1 DEF PartialFcn
<1>3. EmptyRepository \in Repository
  BY <1>2, EmptyAssumption DEF EmptyRepository, Repository
<1> QED BY <1>3 DEF Repository, GraphOf, Graph

LEMMA HeadInfoType ==
    ASSUME NEW repo \in Repository
    PROVE  HeadInfo(repo) \in HeadInfos
BY DEF Repository, HeadInfo, HeadInfos

LEMMA StatusType ==
    ASSUME NEW repo \in Repository, tree \in Trees, NEW st \in Status(repo)
    PROVE  st \in WorkingTreeStatus \cup {NoStatus}
BY DEF Status, StatusOf, Repository, WorkingTreeStatus

(* A message does to a browser's view what keeps it a view.                *)
View == [summary : Repository, graph : Graph, status : WorkingTreeStatus, head : HeadInfos]

LEMMA DeliverType ==
    ASSUME NEW v \in View, NEW msg \in Message
    PROVE  Deliver(v, msg) \in View
<1>1. CASE msg \in [type : {"graphDelta"}, delta : Delta, from : Nat, to : Nat]
  <2>1. msg.type = "graphDelta" /\ msg.delta \in Delta
    BY <1>1
  <2>2. applyDelta(v.graph, msg.delta) \in Graph
    BY <2>1, ApplyType DEF View
  <2> QED BY <2>1, <2>2 DEF Deliver, View
<1>2. CASE msg \in [type : {"status"}, status : WorkingTreeStatus]
  BY <1>2 DEF Deliver, View
<1>3. CASE msg \in [type : {"head"}, head : HeadInfos]
  <2>1. msg.type = "head" /\ msg.head \in HeadInfos
    BY <1>3
  <2>2. [v.graph EXCEPT !.head = msg.head.hash] \in Graph
    BY <2>1 DEF Graph, HeadInfos, View
  <2>3. Deliver(v, msg) = [[v EXCEPT !.head = msg.head] EXCEPT
                              !.graph = [v.graph EXCEPT !.head = msg.head.hash]]
    BY <2>1 DEF Deliver, View
  <2> QED BY <2>1, <2>2, <2>3 DEF View
<1> QED BY <1>1, <1>2, <1>3 DEF Message

(* Both of its branches leave the channel within its capacity.             *)
LEMMA BroadcastType ==
    ASSUME broadcast \in Seq(Message), Len(broadcast) <= broadcastChannelSize,
           behind \in [Conn -> BOOLEAN], NEW msg \in Message, broadcastUpdate(msg)
    PROVE  /\ broadcast' \in Seq(Message) /\ Len(broadcast') <= broadcastChannelSize
           /\ behind' \in [Conn -> BOOLEAN]
<1>1. CASE Len(broadcast) < broadcastChannelSize
  <2>1. broadcast' = Append(broadcast, msg) /\ behind' = behind
    BY <1>1 DEF broadcastUpdate
  <2>2. Len(broadcast') = Len(broadcast) + 1 /\ Len(broadcast) \in Nat
    BY <2>1
  <2>3. broadcastChannelSize \in Nat
    BY ConstantTypes
  <2> QED BY <1>1, <2>1, <2>2, <2>3
<1>2. CASE ~(Len(broadcast) < broadcastChannelSize)
  <2>1. /\ broadcast' = broadcast
        /\ behind' = [c \in Conn |-> behind[c] \/ msg.type = "graphDelta"]
    BY <1>2 DEF broadcastUpdate
  <2>2. \A c \in Conn : (behind[c] \/ msg.type = "graphDelta") \in BOOLEAN
    BY Zenon
  <2> QED BY <2>1, <2>2
<1> QED BY <1>1, <1>2

LEMMA ConcatType ==
    ASSUME NEW S, NEW a \in Seq(S), NEW b \in Seq(S), NEW c \in Seq(S)
    PROVE  a \o b \o c \in Seq(S)
<1>1. ASSUME NEW s \in Seq(S), NEW t \in Seq(S) PROVE s \o t \in Seq(S)
  OBVIOUS
<1> QED BY <1>1

LEMMA MessagesType ==
    ASSUME UpdateTypes, NEW u \in Updater, NEW st \in WorkingTreeStatus \cup {NoStatus}
    PROVE  Messages(u, st) \in Seq(Message)
<1> DEFINE opt(cond, msg) == IF cond THEN <<msg>> ELSE <<>>
           delta == GraphDelta(Changed(u), updater[u].from, updater[u].to)
           status == StatusMessage(st)
           head == HeadMessage(updater[u].new)
<1>1. /\ updater[u].new \in Repository /\ updater[u].old \in Repository
      /\ updater[u].from \in Nat /\ updater[u].to \in Nat
  BY DEF UpdateTypes, UpdateRecord
<1>2. delta \in Message
  BY <1>1, DiffType DEF Changed, GraphDelta, Message
<1>3. head \in Message
  BY <1>1, HeadInfoType DEF HeadMessage, Message
<1>4. st # NoStatus => status \in Message
  BY DEF StatusMessage, Message
<1>5. /\ opt(~IsEmpty(Changed(u)), delta) \in Seq(Message)
      /\ opt(st # NoStatus, status) \in Seq(Message)
      /\ opt(HeadInfo(updater[u].old) # HeadInfo(updater[u].new), head) \in Seq(Message)
  BY <1>2, <1>3, <1>4
<1> HIDE DEF opt, delta, status, head
<1>6. Messages(u, st) = opt(~IsEmpty(Changed(u)), delta) \o opt(st # NoStatus, status)
                        \o opt(HeadInfo(updater[u].old) # HeadInfo(updater[u].new), head)
  BY DEF Messages, opt, delta, status, head
<1> QED BY <1>5, <1>6, ConcatType

-----------------------------------------------------------------------------
LEMMA InitTypes == Init => TypeOK
<1> SUFFICES ASSUME Init PROVE TypeOK
  OBVIOUS
<1>1. DiskTypes
  <2>1. PICK repo \in Repos : disk = repo /\ CacheInit(repo)
    BY DEF Init
  <2>2. cached = repo
    BY <2>1 DEF CacheInit
  <2>3. tree \in Trees /\ changes = 0 /\ debounce = FALSE
    BY DEF Init
  <2>4. 0 \in 0..MaxChanges
    BY ConstantTypes
  <2> QED BY <2>1, <2>2, <2>3, <2>4 DEF DiskTypes
<1>2. UpdateTypes
  BY EmptyTypes DEF Init, UpdateTypes, UpdateRecord, IdleUpdater, UpdaterPC
<1>3. SendTypes
  BY ConstantTypes DEF Init, SendTypes, IdleSender
<1>4. ConnTypes
  BY EmptyTypes, HeadInfoType
     DEF Init, ConnTypes, NewConn, BlankView, ConnPC, EmptyStatus, WorkingTreeStatus
<1>5. PollTypes
  BY EmptyTypes DEF Init, PollTypes
<1> QED BY <1>1, <1>2, <1>3, <1>4, <1>5 DEF TypeOK, Init

-----------------------------------------------------------------------------
LEMMA ChangeTypes ==
    ASSUME TypeOK, ChangeRepository \/ ChangeTree
    PROVE  TypeOK'
<1>1. DiskTypes'
  <2>1. changes' \in 0..MaxChanges
    BY ConstantTypes DEF TypeOK, DiskTypes, ChangeRepository, ChangeTree
  <2>2. debounce' \in BOOLEAN
    BY SessionAssumption DEF TypeOK, DiskTypes, ChangeRepository, ChangeTree, diskVars
  <2>3. disk' \in Repos /\ cached' \in Repos /\ tree' \in Trees
    BY DEF TypeOK, DiskTypes, ChangeRepository, ChangeTree, cacheVars
  <2> QED BY <2>1, <2>2, <2>3 DEF DiskTypes
<1>2. UNCHANGED <<updateVars, broadcast, sender, connVars, poller, historyVars>>
  BY DEF ChangeRepository, ChangeTree
<1> QED BY <1>1, <1>2 DEF TypeOK, UpdateTypes, SendTypes, ConnTypes, PollTypes,
           updateVars, connVars, historyVars

(* An update moves on with well-typed fields.                              *)
LEMMA SetUpdaterTypes ==
    ASSUME UpdateTypes, NEW u \in Updater, NEW fields \in UpdateRecord,
           fields.pc = "install" => fields.new \in Repos,
           fields.pc = "send" => fields.outbox # <<>>,
           SetUpdater(u, fields), updateMu' \in Updater \cup {Nobody}
    PROVE  UpdateTypes'
BY DEF UpdateTypes, SetUpdater

LEMMA IdleUpdaterType ==
    /\ IdleUpdater \in UpdateRecord
    /\ IdleUpdater.pc = "idle"
BY EmptyTypes DEF IdleUpdater, UpdateRecord, UpdaterPC

LEMMA UnlockTypes ==
    ASSUME UpdateTypes, NEW u \in Updater, Unlock(u)
    PROVE  UpdateTypes'
BY IdleUpdaterType, SetUpdaterTypes DEF Unlock

LEMMA FireTypes ==
    ASSUME TypeOK, NEW u \in Updater, Fire(u)
    PROVE  TypeOK'
<1> DEFINE fields == [IdleUpdater EXCEPT !.pc = "lock"]
<1>1. fields \in UpdateRecord /\ fields.pc = "lock"
  BY IdleUpdaterType DEF UpdateRecord, UpdaterPC
<1>2. UpdateTypes'
  BY <1>1, SetUpdaterTypes DEF TypeOK, UpdateTypes, Fire
<1>3. debounce' = FALSE /\ UNCHANGED <<cached, disk, tree, changes>>
  BY DEF Fire, cacheVars
<1>4. UNCHANGED <<broadcast, sender, connVars, poller, historyVars>>
  BY DEF Fire
<1> QED BY <1>2, <1>3, <1>4 DEF TypeOK, DiskTypes, SendTypes, ConnTypes, PollTypes,
           connVars, historyVars

LEMMA LockTypes ==
    ASSUME TypeOK, NEW u \in Updater, Lock(u)
    PROVE  TypeOK'
<1> DEFINE fields == [IdleUpdater EXCEPT !.pc = "reload", !.old = cached, !.from = version]
<1>1. fields \in UpdateRecord /\ fields.pc = "reload"
  BY IdleUpdaterType, ConstantTypes DEF UpdateRecord, UpdaterPC, TypeOK, DiskTypes
<1>2. UpdateTypes'
  BY <1>1, SetUpdaterTypes DEF TypeOK, Lock
<1>3. UNCHANGED <<cacheVars, diskVars, broadcast, sender, connVars, poller, historyVars>>
  BY DEF Lock
<1> QED BY <1>2, <1>3 DEF TypeOK, DiskTypes, SendTypes, ConnTypes, PollTypes,
           cacheVars, diskVars, connVars, historyVars

LEMMA ReloadTypes ==
    ASSUME TypeOK, NEW u \in Updater, Reload(u) \/ ReloadFails(u)
    PROVE  TypeOK'
<1> DEFINE fields == [updater[u] EXCEPT !.pc = "install", !.new = disk]
<1>1. disk \in Repos /\ disk \in Repository
  BY ConstantTypes DEF TypeOK, DiskTypes
<1>2. fields \in UpdateRecord /\ fields.pc = "install" /\ fields.new = disk
  BY <1>1 DEF TypeOK, UpdateTypes, UpdateRecord, UpdaterPC
<1>3. UpdateTypes'
  <2>1. CASE Reload(u)
    BY <2>1, <1>1, <1>2, SetUpdaterTypes DEF TypeOK, UpdateTypes, Reload
  <2>2. CASE ReloadFails(u)
    BY <2>2, UnlockTypes DEF TypeOK, ReloadFails
  <2> QED BY <2>1, <2>2
<1>4. UNCHANGED <<cacheVars, diskVars, broadcast, sender, connVars, poller, historyVars>>
  BY DEF Reload, ReloadFails
<1> QED BY <1>3, <1>4 DEF TypeOK, DiskTypes, SendTypes, ConnTypes, PollTypes,
           cacheVars, diskVars, connVars, historyVars

LEMMA InstallTypes ==
    ASSUME TypeOK, NEW u \in Updater, Install(u)
    PROVE  TypeOK'
<1> DEFINE fields == [updater[u] EXCEPT !.pc = "clear", !.to = version']
<1>1. version' \in Nat
  BY DEF TypeOK, Install
<1>2. fields \in UpdateRecord /\ fields.pc = "clear"
  BY <1>1 DEF TypeOK, UpdateTypes, UpdateRecord, UpdaterPC
<1>3. UpdateTypes'
  BY <1>2, SetUpdaterTypes DEF TypeOK, UpdateTypes, Install
<1>4. cached' \in Repos
  BY DEF TypeOK, UpdateTypes, Install
<1>5. UNCHANGED <<diskVars, broadcast, sender, connVars, poller, behind>>
  BY DEF Install
<1> QED BY <1>1, <1>3, <1>4, <1>5 DEF TypeOK, DiskTypes, SendTypes, ConnTypes, PollTypes,
           diskVars, connVars

LEMMA ClearScheduleTypes ==
    ASSUME TypeOK, NEW u \in Updater, ClearCache(u) \/ Schedule(u)
    PROVE  TypeOK'
<1>1. PICK pc \in {"schedule", "status"} : SetUpdater(u, [updater[u] EXCEPT !.pc = pc])
  BY DEF ClearCache, Schedule
<1> DEFINE fields == [updater[u] EXCEPT !.pc = pc]
<1>2. fields \in UpdateRecord /\ fields.pc = pc
  BY DEF TypeOK, UpdateTypes, UpdateRecord, UpdaterPC
<1>3. UNCHANGED <<cached, diskVars, updateMu, broadcast, sender, connVars, poller, historyVars>>
  BY DEF ClearCache, Schedule
<1>4. UpdateTypes'
  BY <1>1, <1>2, <1>3, SetUpdaterTypes DEF TypeOK, UpdateTypes
<1> QED BY <1>3, <1>4 DEF TypeOK, DiskTypes, SendTypes, ConnTypes, PollTypes,
           diskVars, connVars, historyVars

LEMMA ReadStatusTypes ==
    ASSUME TypeOK, NEW u \in Updater, ReadStatus(u)
    PROVE  TypeOK'
<1>1. updater[u].new \in Repository /\ tree \in Trees
  BY DEF TypeOK, UpdateTypes, UpdateRecord, DiskTypes
<1>2. PICK st \in Status(updater[u].new) :
         IF Messages(u, st) = <<>> THEN Unlock(u)
         ELSE /\ SetUpdater(u, [updater[u] EXCEPT !.pc = "send", !.outbox = Messages(u, st)])
              /\ UNCHANGED updateMu
  BY DEF ReadStatus
<1>3. Messages(u, st) \in Seq(Message)
  BY <1>1, StatusType, MessagesType DEF TypeOK
<1> DEFINE fields == [updater[u] EXCEPT !.pc = "send", !.outbox = Messages(u, st)]
<1>4. fields \in UpdateRecord /\ fields.pc = "send" /\ fields.outbox = Messages(u, st)
  BY <1>3 DEF TypeOK, UpdateTypes, UpdateRecord, UpdaterPC
<1>5. UpdateTypes'
  <2>1. CASE Messages(u, st) = <<>>
    BY <2>1, <1>2, UnlockTypes DEF TypeOK
  <2>2. CASE Messages(u, st) # <<>>
    BY <2>2, <1>2, <1>4, SetUpdaterTypes DEF TypeOK, UpdateTypes
  <2> QED BY <2>1, <2>2
<1>6. UNCHANGED <<cacheVars, diskVars, broadcast, sender, connVars, poller, historyVars>>
  BY DEF ReadStatus
<1> QED BY <1>5, <1>6 DEF TypeOK, DiskTypes, SendTypes, ConnTypes, PollTypes,
           cacheVars, diskVars, connVars, historyVars

LEMMA SendTypesKept ==
    ASSUME TypeOK, NEW u \in Updater, Send(u)
    PROVE  TypeOK'
<1> DEFINE outbox == updater[u].outbox
           fields == [updater[u] EXCEPT !.outbox = Tail(outbox)]
<1>1. outbox \in Seq(Message) /\ outbox # <<>> /\ updater[u] \in UpdateRecord
  BY DEF TypeOK, UpdateTypes, UpdateRecord, Send
<1>2. Head(outbox) \in Message /\ Tail(outbox) \in Seq(Message)
  BY <1>1
<1>3. /\ broadcast' \in Seq(Message) /\ Len(broadcast') <= broadcastChannelSize
      /\ behind' \in [Conn -> BOOLEAN]
  BY <1>2, BroadcastType DEF TypeOK, SendTypes, Send
<1>4. UpdateTypes'
  <2>1. CASE Len(outbox) = 1
    BY <2>1, UnlockTypes DEF TypeOK, Send
  <2>2. CASE Len(outbox) # 1
    <3>1. fields \in UpdateRecord /\ fields.pc = "send" /\ fields.outbox = Tail(outbox)
      BY <1>1, <1>2 DEF UpdateRecord, Send
    <3>2. Tail(outbox) # <<>>
      <4>1. Len(outbox) \in Nat /\ Len(outbox) # 0
        BY <1>1
      <4>2. Len(Tail(outbox)) = Len(outbox) - 1
        BY <1>1
      <4>3. Len(outbox) - 1 # 0
        BY <2>2, <4>1
      <4>4. Len(<<>>) = 0
        OBVIOUS
      <4> QED BY <4>2, <4>3, <4>4
    <3>3. SetUpdater(u, fields) /\ updateMu' = updateMu
      BY <2>2 DEF Send
    <3> QED BY <3>1, <3>2, <3>3, SetUpdaterTypes DEF TypeOK, UpdateTypes
  <2> QED BY <2>1, <2>2
<1>5. UNCHANGED <<cacheVars, diskVars, sender, connVars, poller, version>>
  BY DEF Send
<1> QED BY <1>3, <1>4, <1>5 DEF TypeOK, DiskTypes, SendTypes, ConnTypes, PollTypes,
           cacheVars, diskVars, connVars

-----------------------------------------------------------------------------
(* The broadcaster. A connection that is dropped is a registered one.      *)
LEMMA SenderTypes ==
    ASSUME TypeOK, Sender
    PROVE  TypeOK'
<1>1. UNCHANGED <<cacheVars, diskVars, updateVars, poller, version>>
  BY DEF Sender, Take, CopyClients, Write, WriteFails, FinishSend, historyVars
<1>2. DiskTypes' /\ UpdateTypes' /\ PollTypes' /\ version' \in Nat
  BY <1>1 DEF TypeOK, DiskTypes, UpdateTypes, PollTypes, cacheVars, diskVars, updateVars
<1>3. CASE Take
  <2>1. /\ Head(broadcast) \in Message /\ Tail(broadcast) \in Seq(Message)
        /\ Len(Tail(broadcast)) = Len(broadcast) - 1 /\ Len(broadcast) \in Nat
    BY <1>3 DEF Take, TypeOK, SendTypes
  <2>2. SendTypes'
    <3>1. broadcast' \in Seq(Message)
      BY <1>3, <2>1 DEF Take
    <3>2. Len(broadcast') <= broadcastChannelSize
      BY <1>3, <2>1, ConstantTypes DEF Take, TypeOK, SendTypes
    <3>3. /\ sender' = [sender EXCEPT !.pc = "copy", !.msg = Head(broadcast)]
          /\ sender \in [pc : {"idle", "copy", "write"}, msg : Message \cup {NoStatus},
                         to : SUBSET Conn, failed : SUBSET Conn]
      BY <1>3 DEF Take, TypeOK, SendTypes
    <3>4. /\ sender' \in [pc : {"idle", "copy", "write"}, msg : Message \cup {NoStatus},
                         to : SUBSET Conn, failed : SUBSET Conn]
          /\ sender'.msg \in Message
      BY <2>1, <3>3
    <3> QED BY <3>1, <3>2, <3>4 DEF SendTypes
  <2>3. UNCHANGED <<connVars, behind>>
    BY <1>3 DEF Take, historyVars
  <2> QED BY <1>2, <2>2, <2>3 DEF TypeOK, ConnTypes, connVars
<1>4. CASE CopyClients
  <2>1. SendTypes'
    BY <1>4 DEF CopyClients, TypeOK, SendTypes, ConnTypes
  <2>2. behind' \in [Conn -> BOOLEAN]
    BY <1>4 DEF CopyClients
  <2>3. UNCHANGED connVars
    BY <1>4 DEF CopyClients
  <2> QED BY <1>2, <2>1, <2>2, <2>3 DEF TypeOK, ConnTypes, connVars
<1>5. ASSUME NEW c \in Conn, Write(c) PROVE TypeOK'
  <2>1. SendTypes'
    BY <1>5 DEF Write, TypeOK, SendTypes
  <2>2. Deliver(view[c], sender.msg) \in View
    BY <1>5, DeliverType DEF Write, TypeOK, SendTypes, ConnTypes, View
  <2>3. view' \in [Conn -> View]
    BY <1>5, <2>2 DEF Write, TypeOK, ConnTypes, View
  <2>4. UNCHANGED <<clients, conn, behind>>
    BY <1>5 DEF Write, historyVars
  <2>5. ConnTypes'
    BY <2>3, <2>4 DEF TypeOK, ConnTypes, View
  <2> QED BY <1>2, <2>1, <2>4, <2>5 DEF TypeOK
<1>6. ASSUME NEW c \in Conn, WriteFails(c) PROVE TypeOK'
  <2>1. SendTypes'
    BY <1>6 DEF WriteFails, TypeOK, SendTypes
  <2>2. UNCHANGED <<connVars, behind>>
    BY <1>6 DEF WriteFails, historyVars
  <2> QED BY <1>2, <2>1, <2>2 DEF TypeOK, ConnTypes, connVars
<1>7. CASE FinishSend
  <2>1. SendTypes'
    BY <1>7 DEF FinishSend, TypeOK, SendTypes, IdleSender
  <2>2. [NewConn EXCEPT !.pc = "closed"] \in [pc : ConnPC, repo : Repository, seen : Nat]
    BY EmptyTypes DEF NewConn, ConnPC
  <2>3. conn' \in [Conn -> [pc : ConnPC, repo : Repository, seen : Nat]]
    BY <1>7, <2>2 DEF FinishSend, TypeOK, ConnTypes
  <2>4. \A c \in Conn : conn'[c].pc = IF c \in sender.failed THEN "closed" ELSE conn[c].pc
    BY <1>7 DEF FinishSend, NewConn
  <2>5. clients' = {c \in Conn : conn'[c].pc \in {"open", "gone"}}
    BY <1>7, <2>4 DEF FinishSend, TypeOK, ConnTypes
  <2>6. UNCHANGED <<view, behind>>
    BY <1>7 DEF FinishSend, historyVars
  <2>7. ConnTypes'
    BY <2>3, <2>5, <2>6 DEF TypeOK, ConnTypes
  <2> QED BY <1>2, <2>1, <2>6, <2>7 DEF TypeOK
<1> QED BY <1>3, <1>4, <1>5, <1>6, <1>7 DEF Sender

-----------------------------------------------------------------------------
(* A connection's handshake and its end.                                   *)
LEMMA StepTypes ==
    ASSUME TypeOK, NEW c \in Conn, NEW from \in ConnPC, NEW to \in ConnPC, Step(c, from, to),
           clients' = {x \in Conn : conn'[x].pc \in {"open", "gone"}},
           view' \in [Conn -> View]
    PROVE  TypeOK'
<1>1. conn' \in [Conn -> [pc : ConnPC, repo : Repository, seen : Nat]]
  BY DEF Step, TypeOK, ConnTypes
<1>2. ConnTypes'
  BY <1>1 DEF ConnTypes, View
<1>3. UNCHANGED <<cacheVars, diskVars, updateVars, broadcast, sender, poller, historyVars>>
  BY DEF Step
<1> QED BY <1>2, <1>3 DEF TypeOK, DiskTypes, UpdateTypes, SendTypes, PollTypes,
           cacheVars, diskVars, updateVars, historyVars

LEMMA StepClients ==
    ASSUME TypeOK, NEW c \in Conn, NEW from, NEW to, Step(c, from, to)
    PROVE  /\ conn[c].pc = from /\ conn'[c].pc = to
           /\ \A x \in Conn \ {c} : conn'[x].pc = conn[x].pc
           /\ clients = {x \in Conn : conn[x].pc \in {"open", "gone"}}
BY DEF Step, TypeOK, ConnTypes

LEMMA SummaryTypes ==
    ASSUME TypeOK, NEW c \in Conn, SendSummary(c)
    PROVE  TypeOK'
<1>1. Step(c, "summary", "bootstrap")
  BY DEF SendSummary
<1>2. [BlankView EXCEPT !.summary = conn[c].repo] \in View
  BY EmptyTypes, HeadInfoType DEF BlankView, View, EmptyStatus, WorkingTreeStatus,
     TypeOK, ConnTypes
<1>3. view' \in [Conn -> View]
  BY <1>2 DEF SendSummary, TypeOK, ConnTypes, View
<1>4. clients' = {x \in Conn : conn'[x].pc \in {"open", "gone"}}
  BY <1>1, StepClients DEF SendSummary
<1> QED BY <1>1, <1>3, <1>4, StepTypes DEF ConnPC

LEMMA ChunksTypes ==
    ASSUME TypeOK, NEW c \in Conn, SendChunks(c)
    PROVE  TypeOK'
<1> DEFINE graph == applyDelta(view[c].graph,
                               DiffRepositories(conn[c].repo, EmptyRepository))
<1>1. Step(c, "chunks", "status")
  BY DEF SendChunks
<1>2. view[c] \in View /\ conn[c].repo \in Repository
  BY DEF TypeOK, ConnTypes, View
<1>3. graph \in Graph
  BY <1>2, EmptyTypes, DiffType, ApplyType DEF View
<1> HIDE DEF graph
<1>4. view' = [view EXCEPT ![c].graph = graph]
  BY DEF SendChunks, graph
<1>5. view' \in [Conn -> View]
  BY <1>3, <1>4 DEF TypeOK, ConnTypes, View
<1>6. clients' = {x \in Conn : conn'[x].pc \in {"open", "gone"}}
  BY <1>1, StepClients DEF SendChunks
<1> QED BY <1>1, <1>5, <1>6, StepTypes DEF ConnPC

LEMMA SendStatusTypes ==
    ASSUME TypeOK, NEW c \in Conn, SendStatus(c)
    PROVE  TypeOK'
<1>1. Step(c, "status", "head")
  BY DEF SendStatus
<1>2. conn[c].repo \in Repository /\ tree \in Trees
  BY DEF TypeOK, ConnTypes, DiskTypes
<1>3. PICK st \in Status(conn[c].repo) :
         view' = [view EXCEPT ![c].status = IF st = NoStatus THEN EmptyStatus ELSE st]
  BY DEF SendStatus
<1>4. (IF st = NoStatus THEN EmptyStatus ELSE st) \in WorkingTreeStatus
  BY <1>2, StatusType DEF EmptyStatus, WorkingTreeStatus
<1>5. view' \in [Conn -> View]
  BY <1>3, <1>4 DEF TypeOK, ConnTypes, View
<1>6. clients' = {x \in Conn : conn'[x].pc \in {"open", "gone"}}
  BY <1>1, StepClients DEF SendStatus
<1> QED BY <1>1, <1>5, <1>6, StepTypes DEF ConnPC

LEMMA SendHeadTypes ==
    ASSUME TypeOK, NEW c \in Conn, SendHead(c)
    PROVE  TypeOK'
<1>1. Step(c, "head", "register")
  BY DEF SendHead
<1>2. view[c] \in View /\ conn[c].repo \in Repository
  BY DEF TypeOK, ConnTypes, View
<1>3. HeadMessage(conn[c].repo) \in Message
  BY <1>2, HeadInfoType DEF HeadMessage, Message
<1>4. Deliver(view[c], HeadMessage(conn[c].repo)) \in View
  BY <1>2, <1>3, DeliverType
<1>5. view' \in [Conn -> View]
  BY <1>4 DEF SendHead, TypeOK, ConnTypes, View
<1>6. clients' = {x \in Conn : conn'[x].pc \in {"open", "gone"}}
  BY <1>1, StepClients DEF SendHead
<1> QED BY <1>1, <1>5, <1>6, StepTypes DEF ConnPC

(* The steps that read the session's repository into the connection.       *)
LEMMA ReadTypes ==
    ASSUME TypeOK, NEW c \in Conn, Accept(c) \/ ReadBootstrap(c)
    PROVE  TypeOK'
<1>1. cached \in Repository /\ version \in Nat
  BY ConstantTypes DEF TypeOK, DiskTypes
<1>2. conn' \in [Conn -> [pc : ConnPC, repo : Repository, seen : Nat]]
  BY <1>1 DEF Accept, ReadBootstrap, TypeOK, ConnTypes, ConnPC
<1>3. /\ \A x \in Conn \ {c} : conn'[x].pc = conn[x].pc
      /\ conn[c].pc \notin {"open", "gone"} /\ conn'[c].pc \notin {"open", "gone"}
  BY DEF Accept, ReadBootstrap, TypeOK, ConnTypes
<1>4. UNCHANGED <<cacheVars, diskVars, updateVars, broadcast, sender, clients, view,
                  poller, historyVars>>
  BY DEF Accept, ReadBootstrap
<1>5. ConnTypes'
  BY <1>2, <1>3, <1>4 DEF TypeOK, ConnTypes
<1> QED BY <1>4, <1>5 DEF TypeOK, DiskTypes, UpdateTypes, SendTypes, PollTypes,
           cacheVars, diskVars, updateVars, historyVars

LEMMA RegisterTypes ==
    ASSUME TypeOK, NEW c \in Conn, registerClient(c)
    PROVE  TypeOK'
<1>1. Step(c, "register", "open") /\ clients' = clients \cup {c} /\ view' = view
  BY DEF registerClient
<1>2. clients' = {x \in Conn : conn'[x].pc \in {"open", "gone"}}
  BY <1>1, StepClients
<1> QED BY <1>1, <1>2, StepTypes DEF ConnPC, TypeOK, ConnTypes, View

LEMMA LeaveTypes ==
    ASSUME TypeOK, NEW c \in Conn, Leave(c)
    PROVE  TypeOK'
<1>1. CASE HandshakeFails(c)
  <2>1. PICK pc \in {"summary", "chunks", "status", "head"} : Step(c, pc, "closed")
    BY <1>1 DEF HandshakeFails
  <2>2. clients' = clients /\ view' = view
    BY <1>1 DEF HandshakeFails
  <2>3. clients' = {x \in Conn : conn'[x].pc \in {"open", "gone"}}
    BY <2>1, <2>2, StepClients
  <2> QED BY <2>1, <2>2, <2>3, StepTypes DEF ConnPC, TypeOK, ConnTypes, View
<1>2. CASE PeerLeaves(c)
  <2>1. Step(c, "open", "gone") /\ clients' = clients /\ view' = view
    BY <1>2 DEF PeerLeaves
  <2>2. clients' = {x \in Conn : conn'[x].pc \in {"open", "gone"}}
    BY <2>1, StepClients
  <2> QED BY <2>1, <2>2, StepTypes DEF ConnPC, TypeOK, ConnTypes, View
<1>3. CASE removeClient(c)
  <2>1. Step(c, "gone", "closed") /\ clients' = clients \ {c} /\ view' = view
    BY <1>3 DEF removeClient
  <2>2. clients' = {x \in Conn : conn'[x].pc \in {"open", "gone"}}
    BY <2>1, StepClients
  <2> QED BY <2>1, <2>2, StepTypes DEF ConnPC, TypeOK, ConnTypes, View
<1> QED BY <1>1, <1>2, <1>3 DEF Leave

-----------------------------------------------------------------------------
LEMMA PollStepTypes ==
    ASSUME TypeOK, Poll
    PROVE  TypeOK'
<1>1. UNCHANGED <<cacheVars, diskVars, updateVars, sender, connVars, version>>
  BY DEF Poll, PollRepo, PollStatus, PollSend, historyVars
<1>2. DiskTypes' /\ UpdateTypes' /\ ConnTypes' /\ version' \in Nat
  BY <1>1 DEF TypeOK, DiskTypes, UpdateTypes, ConnTypes, cacheVars, diskVars, updateVars,
     connVars
<1>3. CASE PollRepo
  <2>1. cached \in Repository
    BY ConstantTypes DEF TypeOK, DiskTypes
  <2>2. PollTypes'
    BY <1>3, <2>1 DEF PollRepo, TypeOK, PollTypes
  <2>3. UNCHANGED <<broadcast, behind>>
    BY <1>3 DEF PollRepo, historyVars
  <2> QED BY <1>1, <1>2, <2>2, <2>3 DEF TypeOK, SendTypes
<1>4. CASE PollStatus
  <2>1. poller.repo \in Repository /\ tree \in Trees
    BY DEF TypeOK, PollTypes, DiskTypes
  <2>2. PICK st \in Status(poller.repo) :
           poller' = IF st \in {NoStatus, poller.last}
                     THEN [poller EXCEPT !.pc = "wait", !.repo = EmptyRepository]
                     ELSE [pc |-> "send", repo |-> EmptyRepository, last |-> st]
    BY <1>4 DEF PollStatus
  <2>3. st \in WorkingTreeStatus \cup {NoStatus}
    BY <2>1, StatusType
  <2>4. PollTypes'
    BY <2>2, <2>3, EmptyTypes DEF TypeOK, PollTypes
  <2>5. UNCHANGED <<broadcast, behind>>
    BY <1>4 DEF PollStatus, historyVars
  <2> QED BY <1>1, <1>2, <2>4, <2>5 DEF TypeOK, SendTypes
<1>5. CASE PollSend
  <2>1. StatusMessage(poller.last) \in Message
    BY <1>5 DEF PollSend, TypeOK, PollTypes, StatusMessage, Message
  <2>2. /\ broadcast' \in Seq(Message) /\ Len(broadcast') <= broadcastChannelSize
        /\ behind' \in [Conn -> BOOLEAN]
    BY <1>5, <2>1, BroadcastType DEF PollSend, TypeOK, SendTypes
  <2>3. PollTypes'
    BY <1>5 DEF PollSend, TypeOK, PollTypes
  <2> QED BY <1>1, <1>2, <2>2, <2>3 DEF TypeOK, SendTypes
<1> QED BY <1>3, <1>4, <1>5 DEF Poll

(* Handlers and prewarm goroutines only read the session's repository.     *)
LEMMA CachesKeep == CacheNext => cached' = cached
BY DEF CacheNext, Prewarm, PrewarmCheck, PrewarmGet, PrewarmBuild, PrewarmPut,
   Read, ReadRepo, ReaderGet, ReaderPut, ReaderFail, ReaderDone

LEMMA CachesTypes ==
    ASSUME TypeOK, Caches
    PROVE  TypeOK'
<1>1. UNCHANGED <<cached, diskVars, updateVars, broadcast, sender, connVars, poller, historyVars>>
  BY CachesKeep DEF Caches
<1> QED BY <1>1 DEF TypeOK, DiskTypes, UpdateTypes, SendTypes, ConnTypes, PollTypes,
           diskVars, updateVars, connVars, historyVars

-----------------------------------------------------------------------------
(* Every variable of the session keeps its type, the queue its capacity,   *)
(* and the clients map has exactly the connections that were registered    *)
(* and neither removed nor dropped (registerClient, removeClient,          *)
(* sendToAllClients).                                                      *)
THEOREM SessionTypes == Spec => []TypeOK
<1>1. Init => TypeOK
  BY InitTypes
<1>2. TypeOK /\ [Next]_vars => TypeOK'
  <2> SUFFICES ASSUME TypeOK, [Next]_vars PROVE TypeOK'
    OBVIOUS
  <2>1. CASE ChangeRepository \/ ChangeTree
    BY <2>1, ChangeTypes
  <2>2. ASSUME NEW u \in Updater, Fire(u) \/ Update(u) PROVE TypeOK'
    BY <2>2, FireTypes, LockTypes, ReloadTypes, InstallTypes, ClearScheduleTypes,
       ReadStatusTypes, SendTypesKept DEF Update
  <2>3. CASE Sender
    BY <2>3, SenderTypes
  <2>4. ASSUME NEW c \in Conn, Handshake(c) \/ Leave(c) PROVE TypeOK'
    BY <2>4, SummaryTypes, ChunksTypes, SendStatusTypes, SendHeadTypes, ReadTypes,
       RegisterTypes, LeaveTypes DEF Handshake
  <2>5. CASE Poll
    BY <2>5, PollStepTypes
  <2>6. CASE Caches
    BY <2>6, CachesTypes
  <2>7. CASE UNCHANGED vars
    BY <2>7 DEF vars, TypeOK, DiskTypes, UpdateTypes, SendTypes, ConnTypes, PollTypes,
       cacheVars, diskVars, updateVars, connVars, historyVars
  <2> QED BY <2>1, <2>2, <2>3, <2>4, <2>5, <2>6, <2>7 DEF Next
<1> QED BY <1>1, <1>2, PTL DEF Spec

-----------------------------------------------------------------------------
LEMMA InitExclusive == Init => UpdatesExclusive
BY DEF Init, UpdatesExclusive, IdleUpdater

(* The step of one update; the others are idle, wait, or do not hold what  *)
(* the lock protects.                                                      *)
LEMMA UpdateExclusive ==
    ASSUME TypeOK, UpdatesExclusive, NEW u \in Updater, Fire(u) \/ Update(u)
    PROVE  UpdatesExclusive'
<1>1. updater \in [Updater -> UpdateRecord] /\ Nobody \notin Updater
  BY ConstantTypes DEF TypeOK, UpdateTypes
<1>2. CASE Fire(u)
  BY <1>1, <1>2 DEF Fire, SetUpdater, IdleUpdater, UpdatesExclusive, cacheVars
<1>3. CASE Lock(u)
  BY <1>1, <1>3 DEF Lock, SetUpdater, IdleUpdater, UpdatesExclusive, cacheVars
<1>4. CASE Reload(u)
  BY <1>1, <1>4 DEF Reload, SetUpdater, UpdatesExclusive, cacheVars, UpdateRecord
<1>5. CASE ReloadFails(u)
  BY <1>1, <1>5 DEF ReloadFails, Unlock, SetUpdater, IdleUpdater, UpdatesExclusive, cacheVars
<1>6. CASE Install(u)
  BY <1>1, <1>6 DEF Install, SetUpdater, UpdatesExclusive, UpdateRecord
<1>7. CASE ClearCache(u)
  BY <1>1, <1>7 DEF ClearCache, SetUpdater, UpdatesExclusive, UpdateRecord
<1>8. CASE Schedule(u)
  BY <1>1, <1>8 DEF Schedule, SetUpdater, UpdatesExclusive, UpdateRecord
<1>9. CASE ReadStatus(u)
  <2>1. cached' = cached /\ updater[u].pc = "status"
    BY <1>9 DEF ReadStatus, cacheVars
  <2>2. \/ Unlock(u)
        \/ \E out : /\ SetUpdater(u, [updater[u] EXCEPT !.pc = "send", !.outbox = out])
                    /\ UNCHANGED updateMu
    BY <1>9 DEF ReadStatus
  <2>3. CASE Unlock(u)
    BY <1>1, <2>1, <2>3 DEF Unlock, SetUpdater, IdleUpdater, UpdatesExclusive
  <2>4. ASSUME NEW out, SetUpdater(u, [updater[u] EXCEPT !.pc = "send", !.outbox = out]),
               UNCHANGED updateMu
        PROVE  UpdatesExclusive'
    BY <1>1, <2>1, <2>4 DEF SetUpdater, UpdatesExclusive, UpdateRecord
  <2> QED BY <2>2, <2>3, <2>4
<1>10. CASE Send(u)
  <2>1. cached' = cached /\ updater[u].pc = "send"
    BY <1>10 DEF Send, cacheVars
  <2>2. CASE Unlock(u)
    BY <1>1, <2>1, <2>2 DEF Unlock, SetUpdater, IdleUpdater, UpdatesExclusive
  <2>3. CASE /\ SetUpdater(u, [updater[u] EXCEPT !.outbox = Tail(@)])
             /\ UNCHANGED updateMu
    BY <1>1, <2>1, <2>3 DEF SetUpdater, UpdatesExclusive, UpdateRecord
  <2> QED BY <1>10, <2>2, <2>3 DEF Send
<1> QED BY <1>2, <1>3, <1>4, <1>5, <1>6, <1>7, <1>8, <1>9, <1>10 DEF Update

(* Between Lock and Unlock an update is alone, and until it installs its   *)
(* repository nobody else replaces the cached one.                         *)
THEOREM Exclusion == Spec => []UpdatesExclusive
<1>1. Init => UpdatesExclusive
  BY InitExclusive
<1>2. TypeOK /\ UpdatesExclusive /\ [Next]_vars => UpdatesExclusive'
  <2> SUFFICES ASSUME TypeOK, UpdatesExclusive, [Next]_vars PROVE UpdatesExclusive'
    OBVIOUS
  <2>1. CASE ChangeRepository \/ ChangeTree
    BY <2>1 DEF ChangeRepository, ChangeTree, UpdatesExclusive, cacheVars, updateVars
  <2>2. ASSUME NEW u \in Updater, Fire(u) \/ Update(u) PROVE UpdatesExclusive'
    BY <2>2, UpdateExclusive
  <2>3. CASE Sender
    BY <2>3 DEF Sender, Take, CopyClients, Write, WriteFails, FinishSend,
       UpdatesExclusive, cacheVars, updateVars
  <2>4. ASSUME NEW c \in Conn, Handshake(c) \/ Leave(c) PROVE UpdatesExclusive'
    BY <2>4 DEF Handshake, Accept, SendSummary, ReadBootstrap, SendChunks, SendStatus,
       SendHead, registerClient, Leave, HandshakeFails, PeerLeaves, removeClient, Step,
       UpdatesExclusive, cacheVars, updateVars
  <2>5. CASE Poll
    BY <2>5 DEF Poll, PollRepo, PollStatus, PollSend, UpdatesExclusive, cacheVars, updateVars
  <2>6. CASE Caches
    BY <2>6, CachesKeep DEF Caches, UpdatesExclusive, updateVars
  <2>7. CASE UNCHANGED vars
    BY <2>7 DEF vars, UpdatesExclusive, cacheVars, updateVars
  <2> QED BY <2>1, <2>2, <2>3, <2>4, <2>5, <2>6, <2>7 DEF Next
<1> QED BY <1>1, <1>2, SessionTypes, PTL DEF Spec

(* "Serialized via updateMu to prevent concurrent reloads from computing   *)
(* incorrect deltas against a stale oldRepo" (session.go:152), for any     *)
(* number of watcher callbacks and graph-summary requests.                 *)
THEOREM DeltasAgainstCached == Spec => DeltaAgainstCached
<1>1. UpdatesExclusive /\ [Next]_vars =>
         [\A u \in Updater : Install(u) => updater[u].old = cached]_vars
  BY DEF UpdatesExclusive, Install
<1> QED BY <1>1, Exclusion, PTL DEF Spec, DeltaAgainstCached
-----------------------------------------------------------------------------
(* From Install to Unlock the repository an update has loaded is the       *)
(* cached one: nobody else holds the lock to replace it.                   *)
Installed ==
    \A u \in Updater :
        updater[u].pc \in {"clear", "schedule", "status"} => updater[u].new = cached

(* The prewarm goroutines are records whose fields have their types.       *)
PrewarmRecord == [pc : {"idle", "check", "get", "build", "recheck", "put"},
                  repo : Repository, next : Nat, current : BOOLEAN]

PrewarmTypes ==
    /\ prewarm \in [Prewarmer -> PrewarmRecord]
    /\ \A w \in Prewarmer : prewarm[w].pc # "idle" =>
          prewarm[w].repo \in Repos /\ prewarm[w].next \in 1..Len(Periods)

LEMMA PeriodsType == Len(Periods) \in Nat /\ DOMAIN Periods = 1..Len(Periods)
BY CacheAssumption

LEMMA IdlePrewarmerType == IdlePrewarmer \in PrewarmRecord /\ IdlePrewarmer.pc = "idle"
BY EmptyTypes DEF IdlePrewarmer, PrewarmRecord

LEMMA FinishTypes ==
    ASSUME PrewarmTypes, NEW w \in Prewarmer, Finish(w)
    PROVE  PrewarmTypes'
BY IdlePrewarmerType DEF PrewarmTypes, Finish

LEMMA AdvanceTypes ==
    ASSUME PrewarmTypes, NEW w \in Prewarmer, prewarm[w].pc # "idle",
           NEW pc \in {"check", "get", "build", "recheck", "put"}, Advance(w, pc)
    PROVE  PrewarmTypes'
BY DEF PrewarmTypes, Advance, PrewarmRecord

LEMMA NextPeriodTypes ==
    ASSUME PrewarmTypes, NEW w \in Prewarmer, prewarm[w].pc # "idle", NextPeriod(w)
    PROVE  PrewarmTypes'
<1>1. CASE prewarm[w].next = Len(Periods)
  BY <1>1, FinishTypes DEF NextPeriod
<1>2. CASE prewarm[w].next # Len(Periods)
  <2>1. prewarm' = [prewarm EXCEPT ![w].pc = "check", ![w].next = @ + 1]
    BY <1>2 DEF NextPeriod
  <2>2. prewarm[w].next + 1 \in 1..Len(Periods)
    BY <1>2, PeriodsType DEF PrewarmTypes
  <2> QED BY <2>1, <2>2 DEF PrewarmTypes, PrewarmRecord
<1> QED BY <1>1, <1>2

(* A goroutine's step keeps the types, and starts none.                    *)
LEMMA PrewarmStep ==
    ASSUME PrewarmTypes, NEW w \in Prewarmer, Prewarm(w)
    PROVE  PrewarmTypes' /\ cached' = cached /\ reader' = reader
<1>1. CASE PrewarmCheck(w)
  BY <1>1, FinishTypes, AdvanceTypes DEF PrewarmCheck
<1>2. CASE PrewarmGet(w)
  BY <1>2, NextPeriodTypes, AdvanceTypes DEF PrewarmGet
<1>3. CASE PrewarmBuild(w)
  BY <1>3, NextPeriodTypes, AdvanceTypes DEF PrewarmBuild
<1>4. CASE PrewarmPut(w)
  BY <1>4, NextPeriodTypes DEF PrewarmPut
<1> QED BY <1>1, <1>2, <1>3, <1>4 DEF Prewarm

LEMMA PrewarmKeepsRepo ==
    ASSUME PrewarmTypes, NEW w \in Prewarmer, Prewarm(w), NEW v \in Prewarmer,
           prewarm'[v].current
    PROVE  prewarm[v].current /\ prewarm'[v].repo = prewarm[v].repo
<1>1. CASE Finish(w)
  BY <1>1 DEF Finish, IdlePrewarmer, PrewarmTypes
<1>2. ASSUME NEW pc, Advance(w, pc)
      PROVE  prewarm[v].current /\ prewarm'[v].repo = prewarm[v].repo
  BY <1>2 DEF Advance, PrewarmTypes, PrewarmRecord
<1>3. CASE prewarm' = [prewarm EXCEPT ![w].pc = "check", ![w].next = @ + 1]
  BY <1>3 DEF PrewarmTypes, PrewarmRecord
<1> QED BY <1>1, <1>2, <1>3 DEF Prewarm, PrewarmCheck, PrewarmGet, PrewarmBuild, PrewarmPut,
           NextPeriod

(* After scheduling, the goroutine that is current is the new one.         *)
LEMMA ScheduleStep ==
    ASSUME PrewarmTypes, NEW repo \in Repos, scheduleAnalyticsPrewarm(repo)
    PROVE  PrewarmTypes' /\ \A w \in Prewarmer : prewarm'[w].current => prewarm'[w].repo = repo
<1>1. repo \in Repository
  BY ConstantTypes
<1> DEFINE retired(w) == [prewarm[w] EXCEPT !.current = FALSE]
           fresh == [pc |-> "check", repo |-> repo, next |-> 1, current |-> TRUE]
<1>2. ASSUME NEW w \in Prewarmer
      PROVE  /\ retired(w) \in PrewarmRecord /\ ~retired(w).current
             /\ retired(w).pc = prewarm[w].pc /\ retired(w).repo = prewarm[w].repo
             /\ retired(w).next = prewarm[w].next
  BY DEF PrewarmTypes, PrewarmRecord
<1>3. fresh \in PrewarmRecord /\ fresh.repo = repo /\ fresh.next = 1
  BY <1>1 DEF PrewarmRecord
<1>4. CASE Periods = <<>>
  <2>1. prewarm' = [w \in Prewarmer |-> retired(w)]
    BY <1>4 DEF scheduleAnalyticsPrewarm
  <2> QED BY <1>2, <2>1 DEF PrewarmTypes
<1>5. CASE Periods # <<>>
  <2>1. PICK new \in Prewarmer :
           prewarm' = [w \in Prewarmer |-> IF w = new THEN fresh ELSE retired(w)]
    BY <1>5 DEF scheduleAnalyticsPrewarm
  <2>2. 1 \in 1..Len(Periods)
    BY <1>5, CacheAssumption
  <2> HIDE DEF fresh, retired
  <2> QED BY <1>2, <1>3, <2>1, <2>2 DEF PrewarmTypes
<1> QED BY <1>4, <1>5

PrewarmInv == Installed /\ PrewarmTypes /\ PrewarmsCached

LEMMA InitPrewarm == Init => PrewarmInv
<1> SUFFICES ASSUME Init PROVE PrewarmInv
  OBVIOUS
<1>1. Installed
  BY DEF Init, Installed, IdleUpdater
<1>2. PICK repo \in Repos : CacheInit(repo)
  BY DEF Init
<1>3. cached = repo /\ repo \in Repository
  BY <1>2, ConstantTypes DEF CacheInit
<1> DEFINE fresh == [pc |-> "check", repo |-> repo, next |-> 1, current |-> TRUE]
           first == CHOOSE w \in Prewarmer : TRUE
<1>4. CASE Periods = <<>>
  <2>1. prewarm = [w \in Prewarmer |-> IdlePrewarmer]
    BY <1>2, <1>4 DEF CacheInit
  <2> QED BY <1>1, <2>1, IdlePrewarmerType
         DEF PrewarmInv, PrewarmTypes, PrewarmsCached, IdlePrewarmer
<1>5. CASE Periods # <<>>
  <2>1. prewarm = [w \in Prewarmer |-> IF w = first THEN fresh ELSE IdlePrewarmer]
    BY <1>2, <1>5 DEF CacheInit
  <2>2. fresh \in PrewarmRecord /\ fresh.repo = cached
    BY <1>3 DEF PrewarmRecord
  <2>3. 1 \in 1..Len(Periods)
    BY <1>5, CacheAssumption
  <2>4. PrewarmTypes
    BY <1>2, <1>3, <2>1, <2>2, <2>3, IdlePrewarmerType DEF PrewarmTypes
  <2>5. PrewarmsCached
    BY <2>1, <2>2 DEF PrewarmsCached, IdlePrewarmer
  <2> QED BY <1>1, <2>4, <2>5 DEF PrewarmInv
<1> QED BY <1>4, <1>5

(* What the record of an update becomes, step by step.                     *)
LEMMA OthersKept ==
    ASSUME TypeOK, NEW u \in Updater, Fire(u) \/ Update(u), NEW v \in Updater, v # u
    PROVE  updater'[v] = updater[v]
BY DEF Fire, Update, Lock, Reload, ReloadFails, Install, ClearCache, Schedule,
   ReadStatus, Send, Unlock, SetUpdater, TypeOK, UpdateTypes

LEMMA SetFields ==
    ASSUME TypeOK, NEW u \in Updater, NEW fields, SetUpdater(u, fields)
    PROVE  updater'[u] = fields
BY DEF SetUpdater, TypeOK, UpdateTypes

LEMMA RecordOf ==
    ASSUME TypeOK, NEW u \in Updater
    PROVE  updater[u] \in UpdateRecord
BY DEF TypeOK, UpdateTypes

LEMMA UnlockFields ==
    ASSUME TypeOK, NEW u \in Updater, Unlock(u)
    PROVE  updater'[u] = IdleUpdater /\ updateMu' = Nobody
BY SetFields DEF Unlock

LEMMA FireFields ==
    ASSUME TypeOK, NEW u \in Updater, Fire(u)
    PROVE  /\ updater'[u].pc = "lock" /\ updater[u].pc = "idle" /\ updateMu' = updateMu
           /\ UNCHANGED <<cached, broadcast, version>>
<1>1. updater'[u] = [IdleUpdater EXCEPT !.pc = "lock"]
  BY SetFields DEF Fire
<1> QED BY <1>1 DEF IdleUpdater, Fire, cacheVars, historyVars

LEMMA LockFields ==
    ASSUME TypeOK, NEW u \in Updater, Lock(u)
    PROVE  /\ updater'[u].pc = "reload" /\ updater'[u].old = cached
           /\ updater'[u].from = version /\ updater'[u].outbox = <<>>
           /\ updateMu = Nobody /\ updateMu' = u
           /\ UNCHANGED <<cached, broadcast, version>>
<1>1. updater'[u] = [IdleUpdater EXCEPT !.pc = "reload", !.old = cached, !.from = version]
  BY SetFields DEF Lock
<1> QED BY <1>1 DEF IdleUpdater, Lock, cacheVars, historyVars

LEMMA ReloadFields ==
    ASSUME TypeOK, NEW u \in Updater, Reload(u)
    PROVE  /\ updater[u].pc = "reload" /\ updater'[u].pc = "install" /\ updateMu' = updateMu
           /\ updater'[u].old = updater[u].old /\ updater'[u].from = updater[u].from
           /\ updater'[u].outbox = updater[u].outbox
           /\ UNCHANGED <<cached, broadcast, version>>
<1>1. updater'[u] = [updater[u] EXCEPT !.pc = "install", !.new = disk]
  BY SetFields DEF Reload
<1> QED BY <1>1, RecordOf DEF UpdateRecord, Reload, cacheVars, historyVars

LEMMA ReloadFailsFields ==
    ASSUME TypeOK, NEW u \in Updater, ReloadFails(u)
    PROVE  /\ updater[u].pc = "reload" /\ updater'[u] = IdleUpdater /\ updateMu' = Nobody
           /\ UNCHANGED <<cached, broadcast, version>>
BY UnlockFields DEF ReloadFails, cacheVars, historyVars

LEMMA InstallFields ==
    ASSUME TypeOK, NEW u \in Updater, Install(u)
    PROVE  /\ updater[u].pc = "install" /\ updater'[u].pc = "clear" /\ updateMu' = updateMu
           /\ updater'[u].old = updater[u].old /\ updater'[u].new = updater[u].new
           /\ updater'[u].from = updater[u].from /\ updater'[u].to = version'
           /\ updater'[u].outbox = updater[u].outbox
           /\ cached' = updater[u].new /\ broadcast' = broadcast
<1>1. updater'[u] = [updater[u] EXCEPT !.pc = "clear", !.to = version']
  BY SetFields DEF Install
<1> QED BY <1>1, RecordOf DEF UpdateRecord, Install

(* Between the two an update reads and prepares, and queues nothing.       *)
LEMMA ClearScheduleFields ==
    ASSUME TypeOK, NEW u \in Updater, ClearCache(u) \/ Schedule(u)
    PROVE  /\ updater[u].pc \in {"clear", "schedule"} /\ updateMu' = updateMu
           /\ updater'[u].pc \in {"schedule", "status"}
           /\ updater'[u].old = updater[u].old /\ updater'[u].new = updater[u].new
           /\ updater'[u].from = updater[u].from /\ updater'[u].to = updater[u].to
           /\ updater'[u].outbox = updater[u].outbox
           /\ UNCHANGED <<cached, broadcast, version>>
<1>1. PICK pc \in {"schedule", "status"} : updater'[u] = [updater[u] EXCEPT !.pc = pc]
  BY SetFields DEF ClearCache, Schedule
<1>2. updater[u].pc \in {"clear", "schedule"}
  BY DEF ClearCache, Schedule
<1>3. UNCHANGED <<cached, updateMu, broadcast, version>>
  BY DEF ClearCache, Schedule, historyVars
<1> QED BY <1>1, <1>2, <1>3, RecordOf DEF UpdateRecord

LEMMA ReadStatusFields ==
    ASSUME TypeOK, NEW u \in Updater, ReadStatus(u)
    PROVE  /\ updater[u].pc = "status"
           /\ \E st \in WorkingTreeStatus \cup {NoStatus} :
                 \/ /\ Messages(u, st) = <<>> /\ updater'[u] = IdleUpdater
                    /\ updateMu' = Nobody
                 \/ /\ Messages(u, st) # <<>> /\ updater'[u].pc = "send"
                    /\ updater'[u].outbox = Messages(u, st) /\ updateMu' = updateMu
           /\ UNCHANGED <<cached, broadcast, version>>
<1>1. updater[u].new \in Repository /\ tree \in Trees
  BY RecordOf DEF TypeOK, DiskTypes, UpdateRecord
<1>2. PICK st \in Status(updater[u].new) :
         IF Messages(u, st) = <<>> THEN Unlock(u)
         ELSE /\ SetUpdater(u, [updater[u] EXCEPT !.pc = "send", !.outbox = Messages(u, st)])
              /\ UNCHANGED updateMu
  BY DEF ReadStatus
<1>3. st \in WorkingTreeStatus \cup {NoStatus}
  BY <1>1, StatusType
<1>4. CASE Messages(u, st) = <<>>
  BY <1>2, <1>3, <1>4, UnlockFields DEF ReadStatus, cacheVars, historyVars
<1>5. CASE Messages(u, st) # <<>>
  <2>1. updater'[u] = [updater[u] EXCEPT !.pc = "send", !.outbox = Messages(u, st)]
    BY <1>2, <1>5, SetFields
  <2>2. updater'[u].pc = "send" /\ updater'[u].outbox = Messages(u, st)
    BY <2>1, RecordOf DEF UpdateRecord
  <2> QED BY <1>2, <1>3, <1>5, <2>2 DEF ReadStatus, cacheVars, historyVars
<1> QED BY <1>4, <1>5

LEMMA SendFields ==
    ASSUME TypeOK, NEW u \in Updater, Send(u)
    PROVE  /\ updater[u].pc = "send" /\ updater[u].outbox \in Seq(Message)
           /\ updater[u].outbox # <<>> /\ broadcastUpdate(Head(updater[u].outbox))
           /\ \/ /\ Len(updater[u].outbox) = 1 /\ updater'[u] = IdleUpdater
                 /\ updateMu' = Nobody
              \/ /\ updater'[u].pc = "send" /\ updater'[u].outbox = Tail(updater[u].outbox)
                 /\ updateMu' = updateMu
           /\ UNCHANGED <<cached, version>>
<1>1. /\ updater[u].pc = "send" /\ updater[u].outbox \in Seq(Message)
      /\ updater[u].outbox # <<>> /\ broadcastUpdate(Head(updater[u].outbox))
      /\ UNCHANGED <<cached, version>>
  BY RecordOf DEF Send, UpdateRecord, TypeOK, UpdateTypes, cacheVars
<1>2. CASE Len(updater[u].outbox) = 1
  BY <1>1, <1>2, UnlockFields DEF Send
<1>3. CASE Len(updater[u].outbox) # 1
  <2>1. /\ updater'[u] = [updater[u] EXCEPT !.outbox = Tail(updater[u].outbox)]
        /\ updateMu' = updateMu
    BY <1>3, SetFields DEF Send
  <2> QED BY <1>1, <2>1, RecordOf DEF UpdateRecord
<1> QED BY <1>2, <1>3

-----------------------------------------------------------------------------
(* Whoever installs a repository holds the lock, and leaves Installed of   *)
(* itself; the other updates are not past Lock.                            *)
LEMMA UpdateInstalled ==
    ASSUME TypeOK, UpdatesExclusive, Installed, NEW u \in Updater, Fire(u) \/ Update(u)
    PROVE  Installed'
<1>1. CASE Install(u)
  <2>1. \A v \in Updater \ {u} : updater[v].pc \in {"idle", "lock"}
    BY <1>1, InstallFields DEF UpdatesExclusive
  <2> QED BY <1>1, <2>1, InstallFields, OthersKept DEF Installed
<1>2. CASE Fire(u) \/ Lock(u) \/ Reload(u)
  BY <1>2, FireFields, LockFields, ReloadFields, OthersKept DEF Installed
<1>3. CASE ReloadFails(u)
  BY <1>3, ReloadFailsFields, OthersKept DEF Installed, IdleUpdater
<1>4. CASE ClearCache(u) \/ Schedule(u)
  BY <1>4, ClearScheduleFields, OthersKept DEF Installed
<1>5. CASE ReadStatus(u)
  <2>1. updater'[u].pc \in {"idle", "send"} /\ cached' = cached
    BY <1>5, ReadStatusFields DEF IdleUpdater
  <2> QED BY <1>5, <2>1, OthersKept DEF Installed
<1>6. CASE Send(u)
  <2>1. updater'[u].pc \in {"idle", "send"} /\ cached' = cached
    BY <1>6, SendFields DEF IdleUpdater
  <2> QED BY <1>6, <2>1, OthersKept DEF Installed
<1> QED BY <1>1, <1>2, <1>3, <1>4, <1>5, <1>6 DEF Update

(* Only updates, handlers and prewarm goroutines touch the session's       *)
(* repository and what is derived from it.                                 *)
LEMMA StepsOfNext ==
    ASSUME [Next]_vars
    PROVE  \/ \E u \in Updater : Fire(u) \/ Update(u)
           \/ Caches
           \/ UNCHANGED <<cacheVars, updateVars>>
<1>1. CASE ChangeRepository \/ ChangeTree
  BY <1>1 DEF ChangeRepository, ChangeTree
<1>2. CASE Sender
  BY <1>2 DEF Sender, Take, CopyClients, Write, WriteFails, FinishSend
<1>3. ASSUME NEW c \in Conn, Handshake(c) \/ Leave(c)
      PROVE  UNCHANGED <<cacheVars, updateVars>>
  BY <1>3 DEF Handshake, Accept, SendSummary, ReadBootstrap, SendChunks, SendStatus,
     SendHead, registerClient, Leave, HandshakeFails, PeerLeaves, removeClient, Step
<1>4. CASE Poll
  BY <1>4 DEF Poll, PollRepo, PollStatus, PollSend
<1>5. CASE UNCHANGED vars
  BY <1>5 DEF vars
<1> QED BY <1>1, <1>2, <1>3, <1>4, <1>5 DEF Next

(* Only Schedule touches the goroutines, and only Schedule takes its       *)
(* update out of the window in which they may be those of a repository     *)
(* that has been replaced.                                                 *)
LEMMA UpdatePrewarm ==
    ASSUME TypeOK, UpdatesExclusive, PrewarmInv, NEW u \in Updater, Fire(u) \/ Update(u)
    PROVE  PrewarmInv'
<1>1. Installed'
  BY UpdateInstalled DEF PrewarmInv
<1>2. CASE Schedule(u)
  <2>1. updater[u].new = cached /\ cached' = cached /\ cached \in Repos
    BY <1>2 DEF Schedule, PrewarmInv, Installed, TypeOK, DiskTypes
  <2>2. PrewarmTypes' /\ \A w \in Prewarmer : prewarm'[w].current => prewarm'[w].repo = cached
    BY <1>2, <2>1, ScheduleStep DEF Schedule, PrewarmInv
  <2> QED BY <1>1, <2>1, <2>2 DEF PrewarmInv, PrewarmsCached
<1>3. CASE ~Schedule(u)
  <2>1. prewarm' = prewarm
    BY <1>3 DEF Fire, Update, Lock, Reload, ReloadFails, Install, ClearCache, ReadStatus,
       Send, cacheVars
  <2>2. CASE Install(u)
    BY <1>1, <2>1, <2>2, InstallFields DEF PrewarmInv, PrewarmTypes, PrewarmsCached
  <2>3. CASE ~Install(u)
    <3>1. cached' = cached
      BY <1>3, <2>3 DEF Fire, Update, Lock, Reload, ReloadFails, ClearCache, ReadStatus,
         Send, cacheVars
    <3>2. ASSUME NEW v \in Updater, updater[v].pc \in {"clear", "schedule"}
          PROVE  updater'[v].pc \in {"clear", "schedule"}
      <4>1. CASE v # u
        BY <3>2, <4>1, OthersKept
      <4>2. CASE v = u
        <5>1. ClearCache(u)
          BY <1>3, <2>3, <3>2, <4>2 DEF Fire, Update, Lock, Reload, ReloadFails, ReadStatus, Send
        <5>2. updater'[u] = [updater[u] EXCEPT !.pc = "schedule"]
          BY <5>1, SetFields DEF ClearCache
        <5> QED BY <4>2, <5>2, RecordOf DEF UpdateRecord
      <4> QED BY <4>1, <4>2
    <3> QED BY <1>1, <2>1, <3>1, <3>2 DEF PrewarmInv, PrewarmTypes, PrewarmsCached
  <2> QED BY <2>2, <2>3
<1> QED BY <1>2, <1>3

LEMMA CachesPrewarm ==
    ASSUME PrewarmInv, Caches
    PROVE  PrewarmInv'
<1>1. UNCHANGED <<cached, updater>>
  BY CachesKeep DEF Caches, updateVars
<1>2. CASE \E w \in Prewarmer : Prewarm(w)
  BY <1>1, <1>2, PrewarmStep, PrewarmKeepsRepo DEF PrewarmInv, Installed, PrewarmsCached
<1>3. CASE \E r \in Reader : Read(r)
  <2>1. prewarm' = prewarm
    BY <1>3 DEF Read, ReadRepo, ReaderGet, ReaderPut, ReaderFail, ReaderDone
  <2> QED BY <1>1, <2>1 DEF PrewarmInv, Installed, PrewarmTypes, PrewarmsCached
<1> QED BY <1>2, <1>3 DEF Caches, CacheNext

(* However many updates and prewarm goroutines there are, the goroutine of *)
(* the latest generation works on the cached repository, unless an update  *)
(* is between installing its repository and scheduling its own goroutine   *)
(* (scheduleAnalyticsPrewarm, analyticsGenCurrent).                        *)
THEOREM PrewarmFollows == Spec => []PrewarmsCached
<1>1. Init => PrewarmInv
  BY InitPrewarm
<1>2. TypeOK /\ UpdatesExclusive /\ PrewarmInv /\ [Next]_vars => PrewarmInv'
  <2> SUFFICES ASSUME TypeOK, UpdatesExclusive, PrewarmInv, [Next]_vars PROVE PrewarmInv'
    OBVIOUS
  <2>1. CASE UNCHANGED <<cacheVars, updateVars>>
    BY <2>1 DEF cacheVars, updateVars, PrewarmInv, Installed, PrewarmTypes, PrewarmsCached
  <2> QED BY <2>1, UpdatePrewarm, CachesPrewarm, StepsOfNext
<1>3. PrewarmInv => PrewarmsCached
  BY DEF PrewarmInv
<1> QED BY <1>1, <1>2, <1>3, SessionTypes, Exclusion, PTL DEF Spec

-----------------------------------------------------------------------------
(* Filed: what may be stored under a key.                                  *)
Filed(key, val) ==
    key # BulkKey => \E repo \in Repos, i \in DOMAIN Periods :
                        key = CacheKey(repo, Periods[i]) /\ val = Response(repo)

IsRecord(c) == c = [items |-> c.items, order |-> c.order]

(* A handler that has read the session's repository keeps it, with a key   *)
(* of that repository, until it is done.                                   *)
AnyKey == {<<>>} \cup UNION {ReaderKeys(repo) : repo \in Repos}
ReaderRecord == [pc : {"idle", "get", "put", "done"}, repo : Repository, key : AnyKey,
                 served : SUBSET Commit]

ReaderTypes ==
    /\ reader \in [Reader -> ReaderRecord]
    /\ \A r \in Reader : reader[r].pc \in {"get", "put"} =>
          reader[r].repo \in Repos /\ reader[r].key \in ReaderKeys(reader[r].repo)

EntryTypes ==
    /\ IsRecord(diffCache)
    /\ \A key \in DOMAIN diffCache.items : diffCache.items[key] \in SUBSET Commit

LEMMA ResponseType ==
    ASSUME NEW repo \in Repos
    PROVE  Response(repo) \in SUBSET Commit
BY ConstantTypes DEF Response, Repository

(* Whatever Put evicts, each entry it leaves is the new one or an old one. *)
LEMMA EvictItems ==
    ASSUME NEW c, IsRecord(c)
    PROVE  /\ IsRecord(LRU!evictOldest(c))
           /\ DOMAIN LRU!evictOldest(c).items \subseteq DOMAIN c.items
           /\ \A key \in DOMAIN LRU!evictOldest(c).items :
                 LRU!evictOldest(c).items[key] = c.items[key]
BY DEF LRU!evictOldest, IsRecord

LEMMA PushItems ==
    ASSUME NEW c, NEW k, NEW v
    PROVE  /\ IsRecord(LRU!PushFront(c, k, v))
           /\ \A key \in DOMAIN LRU!PushFront(c, k, v).items :
                 \/ key = k /\ LRU!PushFront(c, k, v).items[key] = v
                 \/ /\ key \in DOMAIN c.items
                    /\ LRU!PushFront(c, k, v).items[key] = c.items[key]
BY DEF LRU!PushFront, IsRecord

LEMMA PutItems ==
    ASSUME NEW c, IsRecord(c), NEW k, NEW v
    PROVE  /\ IsRecord(LRU!PutCache(c, k, v))
           /\ \A key \in DOMAIN LRU!PutCache(c, k, v).items :
                 \/ key = k /\ LRU!PutCache(c, k, v).items[key] = v
                 \/ /\ key \in DOMAIN c.items
                    /\ LRU!PutCache(c, k, v).items[key] = c.items[key]
<1>1. CASE k \in DOMAIN c.items
  <2> DEFINE order == LRU!MoveToFront(c.order, LRU!Position(c.order, k))
  <2>1. LRU!PutCache(c, k, v) = [items |-> [c.items EXCEPT ![k] = v], order |-> order]
    BY <1>1 DEF LRU!PutCache
  <2> HIDE DEF order
  <2> QED BY <2>1 DEF IsRecord
<1>2. CASE k \notin DOMAIN c.items /\ LRU!Size(c) >= cacheSize
  <2>1. LRU!PutCache(c, k, v) = LRU!PushFront(LRU!evictOldest(c), k, v)
    BY <1>2 DEF LRU!PutCache
  <2> QED BY <2>1, EvictItems, PushItems
<1>3. CASE k \notin DOMAIN c.items /\ ~(LRU!Size(c) >= cacheSize)
  <2>1. LRU!PutCache(c, k, v) = LRU!PushFront(c, k, v)
    BY <1>3 DEF LRU!PutCache
  <2> QED BY <2>1, PushItems
<1> QED BY <1>1, <1>2, <1>3

LEMMA GetItems ==
    ASSUME NEW c, IsRecord(c), NEW k
    PROVE  IsRecord(LRU!GetCache(c, k)) /\ LRU!GetCache(c, k).items = c.items
<1> DEFINE order == LRU!MoveToFront(c.order, LRU!Position(c.order, k))
<1>1. CASE k \in DOMAIN c.items
  <2>1. LRU!GetCache(c, k) = [c EXCEPT !.order = order]
    BY <1>1 DEF LRU!GetCache
  <2> HIDE DEF order
  <2> QED BY <2>1 DEF IsRecord
<1>2. CASE k \notin DOMAIN c.items
  BY <1>2 DEF LRU!GetCache
<1> QED BY <1>1, <1>2

LEMMA NewCache ==
    IsRecord(LRU!NewLRUCache) /\ DOMAIN LRU!NewLRUCache.items = {}
BY DEF IsRecord, LRU!NewLRUCache

(* The three operations keep what is filed where it belongs.               *)
EntriesOK == EntryTypes /\ EntriesMatchKeys

LEMMA PutFiled ==
    ASSUME EntriesOK, NEW k, NEW v \in SUBSET Commit, Filed(k, v), Put(k, v)
    PROVE  EntriesOK'
BY PutItems DEF EntriesOK, EntryTypes, EntriesMatchKeys, Filed, Put

LEMMA GetFiled ==
    ASSUME EntriesOK, NEW k, Get(k)
    PROVE  EntriesOK'
BY GetItems DEF EntriesOK, EntryTypes, EntriesMatchKeys, Get

LEMMA ClearFiled ==
    ASSUME diffCache' = LRU!NewLRUCache
    PROVE  EntriesOK'
BY NewCache DEF EntriesOK, EntryTypes, EntriesMatchKeys

EntriesInv == PrewarmTypes /\ ReaderTypes /\ EntriesOK

LEMMA IdleReaderType == IdleReader \in ReaderRecord /\ IdleReader.pc = "idle"
<1>1. <<>> \in AnyKey
  BY DEF AnyKey
<1> QED BY <1>1, EmptyTypes DEF IdleReader, ReaderRecord

LEMMA InitEntries == Init => EntriesInv
<1> SUFFICES ASSUME Init PROVE EntriesInv
  OBVIOUS
<1>1. PICK repo \in Repos : CacheInit(repo)
  BY DEF Init
<1>2. PrewarmTypes
  BY InitPrewarm DEF PrewarmInv
<1>3. ReaderTypes
  BY <1>1, IdleReaderType DEF CacheInit, ReaderTypes
<1>4. EntriesOK
  BY <1>1, NewCache DEF CacheInit, EntriesOK, EntryTypes, EntriesMatchKeys
<1> QED BY <1>2, <1>3, <1>4 DEF EntriesInv

(* A goroutine stores what it computed from the repository it was given.   *)
LEMMA PrewarmEntries ==
    ASSUME EntriesInv, NEW w \in Prewarmer, Prewarm(w)
    PROVE  EntriesInv'
<1>1. PrewarmTypes' /\ reader' = reader
  BY PrewarmStep DEF EntriesInv
<1>2. ReaderTypes'
  BY <1>1 DEF EntriesInv, ReaderTypes
<1>3. CASE PrewarmCheck(w) \/ PrewarmBuild(w)
  BY <1>1, <1>2, <1>3 DEF EntriesInv, EntriesOK, EntryTypes, EntriesMatchKeys, PrewarmCheck,
     PrewarmBuild
<1>4. CASE PrewarmGet(w)
  BY <1>1, <1>2, <1>4, GetFiled DEF EntriesInv, PrewarmGet
<1>5. CASE PrewarmPut(w)
  <2>1. prewarm[w].repo \in Repos /\ prewarm[w].next \in DOMAIN Periods
    BY <1>5, PeriodsType DEF PrewarmPut, EntriesInv, PrewarmTypes
  <2>2. Filed(PrewarmKey(w), Response(prewarm[w].repo))
    BY <2>1 DEF Filed, PrewarmKey
  <2>3. Response(prewarm[w].repo) \in SUBSET Commit
    BY <2>1, ResponseType
  <2>4. EntriesOK'
    BY <1>5, <2>2, <2>3, PutFiled DEF EntriesInv, PrewarmPut
  <2> QED BY <1>1, <1>2, <2>4 DEF EntriesInv
<1> QED BY <1>3, <1>4, <1>5 DEF Prewarm

(* A handler stores what it computed from the repository it read first.    *)
LEMMA ReadEntries ==
    ASSUME TypeOK, EntriesInv, NEW r \in Reader, Read(r)
    PROVE  EntriesInv'
<1>1. prewarm' = prewarm
  BY DEF Read, ReadRepo, ReaderGet, ReaderPut, ReaderFail, ReaderDone
<1>2. PrewarmTypes'
  BY <1>1 DEF EntriesInv, PrewarmTypes
<1>3. reader \in [Reader -> ReaderRecord]
  BY DEF EntriesInv, ReaderTypes
<1>4. CASE ReadRepo(r)
  <2>1. cached \in Repos /\ cached \in Repository
    BY ConstantTypes DEF TypeOK, DiskTypes
  <2>2. PICK key \in ReaderKeys(cached) :
           reader' = [reader EXCEPT ![r] = [pc |-> "get", repo |-> cached,
                                            key |-> key, served |-> {}]]
    BY <1>4 DEF ReadRepo
  <2>3. key \in AnyKey
    BY <2>1 DEF AnyKey
  <2>4. ReaderTypes'
    BY <1>3, <2>1, <2>2, <2>3 DEF EntriesInv, ReaderTypes, ReaderRecord
  <2> QED BY <1>2, <1>4, <2>4 DEF EntriesInv, EntriesOK, EntryTypes, EntriesMatchKeys, ReadRepo
<1>5. CASE ReaderGet(r)
  <2>1. EntriesOK'
    BY <1>5, GetFiled DEF EntriesInv, ReaderGet
  <2>2. CASE Hit(reader[r].key)
    <3>1. diffCache.items[reader[r].key] \in SUBSET Commit
      BY <2>2 DEF Hit, EntriesInv, EntriesOK, EntryTypes
    <3>2. reader' = [reader EXCEPT ![r].pc = "done",
                                   ![r].served = diffCache.items[reader[r].key]]
      BY <1>5, <2>2 DEF ReaderGet
    <3>3. ReaderTypes'
      BY <1>3, <3>1, <3>2 DEF EntriesInv, ReaderTypes, ReaderRecord
    <3> QED BY <1>2, <2>1, <3>3 DEF EntriesInv
  <2>3. CASE ~Hit(reader[r].key)
    <3>1. reader' = [reader EXCEPT ![r].pc = "put"] /\ reader[r].pc = "get"
      BY <1>5, <2>3 DEF ReaderGet
    <3>2. ReaderTypes'
      BY <1>3, <3>1 DEF EntriesInv, ReaderTypes, ReaderRecord
    <3> QED BY <1>2, <2>1, <3>2 DEF EntriesInv
  <2> QED BY <2>2, <2>3
<1>6. CASE ReaderPut(r)
  <2>1. reader[r].repo \in Repos /\ reader[r].key \in ReaderKeys(reader[r].repo)
    BY <1>6 DEF ReaderPut, EntriesInv, ReaderTypes
  <2>2. Response(reader[r].repo) \in SUBSET Commit
    BY <2>1, ResponseType
  <2>3. Filed(reader[r].key, Response(reader[r].repo))
    BY <2>1 DEF Filed, ReaderKeys
  <2>4. EntriesOK'
    BY <1>6, <2>2, <2>3, PutFiled DEF EntriesInv, ReaderPut
  <2>5. ReaderTypes'
    BY <1>3, <1>6, <2>2 DEF ReaderPut, EntriesInv, ReaderTypes, ReaderRecord
  <2> QED BY <1>2, <2>4, <2>5 DEF EntriesInv
<1>7. CASE ReaderFail(r) \/ ReaderDone(r)
  <2>1. ReaderTypes'
    BY <1>3, <1>7, IdleReaderType DEF ReaderFail, ReaderDone, EntriesInv, ReaderTypes
  <2> QED BY <1>2, <1>7, <2>1 DEF EntriesInv, EntriesOK, EntryTypes, EntriesMatchKeys, ReaderFail,
             ReaderDone
<1> QED BY <1>4, <1>5, <1>6, <1>7 DEF Read

(* An update empties the cache or leaves it; whatever a handler is in the  *)
(* middle of, it goes on with the repository it has read.                  *)
LEMMA UpdateEntries ==
    ASSUME TypeOK, EntriesInv, PrewarmInv', NEW u \in Updater, Fire(u) \/ Update(u)
    PROVE  EntriesInv'
<1>1. reader' = reader
  BY DEF Fire, Update, Lock, Reload, ReloadFails, Install, ClearCache, Schedule, ReadStatus,
     Send, cacheVars
<1>2. diffCache' = diffCache \/ diffCache' = LRU!NewLRUCache
  BY DEF Fire, Update, Lock, Reload, ReloadFails, Install, ClearCache, Schedule, ReadStatus,
     Send, cacheVars
<1>3. EntriesOK'
  BY <1>2, ClearFiled DEF EntriesInv, EntriesOK, EntryTypes, EntriesMatchKeys
<1> QED BY <1>1, <1>3 DEF PrewarmInv, EntriesInv, ReaderTypes

(* Every analytics response in the cache is filed under a key of the       *)
(* repository it was computed from (handleAnalytics, the prewarm           *)
(* goroutines, LRUCache.Put), however many updates ran in between, and     *)
(* however long ago the handler read the repository.                       *)
THEOREM EntriesFiled == Spec => []EntriesMatchKeys
<1>1. Init => PrewarmInv /\ EntriesInv
  BY InitPrewarm, InitEntries
<1>2. TypeOK /\ UpdatesExclusive /\ PrewarmInv /\ EntriesInv /\ [Next]_vars
         => PrewarmInv' /\ EntriesInv'
  <2> SUFFICES ASSUME TypeOK, UpdatesExclusive, PrewarmInv, EntriesInv, [Next]_vars
               PROVE  PrewarmInv' /\ EntriesInv'
    OBVIOUS
  <2>1. CASE UNCHANGED <<cacheVars, updateVars>>
    BY <2>1 DEF cacheVars, updateVars, PrewarmInv, Installed, PrewarmTypes, PrewarmsCached,
       EntriesInv, ReaderTypes, EntriesOK, EntryTypes, EntriesMatchKeys
  <2>2. CASE \E u \in Updater : Fire(u) \/ Update(u)
    BY <2>2, UpdatePrewarm, UpdateEntries
  <2>3. CASE Caches
    BY <2>3, CachesPrewarm, PrewarmEntries, ReadEntries DEF Caches, CacheNext
  <2> QED BY <2>1, <2>2, <2>3, StepsOfNext
<1>3. EntriesInv => EntriesMatchKeys
  BY DEF EntriesInv, EntriesOK
<1> QED BY <1>1, <1>2, <1>3, SessionTypes, Exclusion, PTL DEF Spec

-----------------------------------------------------------------------------

(* Sequences of messages, cut and joined.                                  *)
LEMMA JoinedAt ==
    ASSUME NEW S, NEW s \in Seq(S), NEW t \in Seq(S)
    PROVE  /\ s \o t \in Seq(S) /\ Len(s \o t) = Len(s) + Len(t)
           /\ Len(s) \in Nat /\ Len(t) \in Nat
           /\ \A i \in 1..Len(s) : (s \o t)[i] = s[i]
           /\ \A j \in 1..Len(t) : (s \o t)[Len(s) + j] = t[j]
           /\ \A k \in 1..Len(s \o t) :
                 \/ k \in 1..Len(s)
                 \/ \E j \in 1..Len(t) : k = Len(s) + j
<1>1. /\ s \o t \in Seq(S) /\ Len(s \o t) = Len(s) + Len(t)
      /\ Len(s) \in Nat /\ Len(t) \in Nat
  BY ConcatProperties, LenProperties
<1>2. \A i \in 1 .. Len(s) + Len(t) : (s \o t)[i] = IF i <= Len(s) THEN s[i] ELSE t[i - Len(s)]
  BY ConcatProperties
<1>3. ASSUME NEW j \in 1..Len(t) PROVE (s \o t)[Len(s) + j] = t[j]
  <2>1. Len(s) + j \in 1 .. Len(s) + Len(t) /\ ~(Len(s) + j <= Len(s))
    BY <1>1
  <2>2. (Len(s) + j) - Len(s) = j
    BY <1>1
  <2> QED BY <1>2, <2>1, <2>2
<1>4. ASSUME NEW k \in 1..Len(s \o t), k \notin 1..Len(s)
      PROVE  \E j \in 1..Len(t) : k = Len(s) + j
  <2>1. k - Len(s) \in 1..Len(t) /\ k = Len(s) + (k - Len(s))
    BY <1>1, <1>4
  <2> QED BY <2>1
<1>5. \A i \in 1..Len(s) : (s \o t)[i] = s[i]
  BY <1>1, <1>2
<1> QED BY <1>1, <1>3, <1>4, <1>5

LEMMA HeadAndTail ==
    ASSUME NEW S, NEW s \in Seq(S), s # <<>>
    PROVE  /\ Head(s) \in S /\ Tail(s) \in Seq(S)
           /\ s = <<Head(s)>> \o Tail(s)
           /\ Len(s) = 1 => Tail(s) = <<>>
<1>1. /\ Head(s) \in S /\ Tail(s) \in Seq(S) /\ Len(Tail(s)) = Len(s) - 1
      /\ \A i \in 1 .. Len(Tail(s)) : Tail(s)[i] = s[i + 1]
      /\ Len(s) \in Nat \ {0}
  BY HeadTailProperties, EmptySeq
<1>2. /\ <<Head(s)>> \in Seq(S) /\ Len(<<Head(s)>>) = 1 /\ Head(s) = s[1]
      /\ <<Head(s)>>[1] = s[1]
  BY <1>1
<1>3. <<Head(s)>> \o Tail(s) \in Seq(S) /\ Len(<<Head(s)>> \o Tail(s)) = Len(s)
  BY <1>1, <1>2, JoinedAt
<1>4. ASSUME NEW i \in 1..Len(s) PROVE s[i] = (<<Head(s)>> \o Tail(s))[i]
  <2>1. CASE i = 1
    BY <1>1, <1>2, <2>1, JoinedAt
  <2>2. CASE i # 1
    <3>1. i - 1 \in 1..Len(Tail(s)) /\ i = 1 + (i - 1)
      BY <1>1, <2>2
    <3>2. (<<Head(s)>> \o Tail(s))[1 + (i - 1)] = Tail(s)[i - 1]
      BY <1>1, <1>2, <3>1, JoinedAt
    <3>3. Tail(s)[i - 1] = s[(i - 1) + 1]
      BY <1>1, <3>1
    <3> QED BY <3>1, <3>2, <3>3
  <2> QED BY <2>1, <2>2
<1>5. s = <<Head(s)>> \o Tail(s)
  BY <1>3, <1>4, SeqEqual
<1>6. Len(s) = 1 => Tail(s) = <<>>
  <2>1. Len(s) = 1 => Len(Tail(s)) = 0
    BY <1>1
  <2> QED BY <1>1, <2>1, EmptySeq, Zenon
<1> QED BY <1>1, <1>5, <1>6

(* The least element of a set of numbers, as an induction.                 *)
LEMMA Induction ==
    ASSUME NEW T \in SUBSET Nat, 0 \in T, \A n \in T : n + 1 \in T
    PROVE  \A n \in Nat : n \in T
<1> SUFFICES ASSUME Nat \ T # {} PROVE FALSE
  OBVIOUS
<1>1. IsWellFoundedOn(OpToRel(<, Nat), Nat)
  BY NatLessThanWellFounded
<1>2. PICK n \in Nat \ T : \A m \in Nat \ T : ~(<<m, n>> \in OpToRel(<, Nat))
  BY <1>1, WFMin, Zenon
<1>3. \A m \in Nat \ T : ~(m < n)
  BY <1>2 DEF OpToRel
<1>4. n # 0 /\ n - 1 \in Nat /\ n - 1 < n
  OBVIOUS
<1>5. n - 1 \in T
  BY <1>3, <1>4
<1>6. (n - 1) + 1 \in T
  BY <1>5
<1> QED BY <1>6

-----------------------------------------------------------------------------
(* The order of graph deltas, for the parts of what is queued.             *)
Elems(s) == {s[i] : i \in 1..Len(s)}

Numbered(s, v) == \A m \in Elems(s) : IsDelta(m) => m.to = m.from + 1 /\ m.to <= v

Quiet(s) == \A m \in Elems(s) : ~IsDelta(m)

Before(s, t) == \A m \in Elems(s), n \in Elems(t) : IsDelta(m) /\ IsDelta(n) => m.to <= n.from

Ordered(s) ==
    \A i, j \in 1..Len(s) :
        i < j /\ IsDelta(s[i]) /\ IsDelta(s[j]) => s[i].to <= s[j].from

LEMMA ElemsJoin ==
    ASSUME NEW S, NEW s \in Seq(S), NEW t \in Seq(S)
    PROVE  Elems(s \o t) = Elems(s) \cup Elems(t)
<1>1. ASSUME NEW i \in 1..Len(s) PROVE s[i] \in Elems(s \o t)
  <2>1. i \in 1..Len(s \o t) /\ (s \o t)[i] = s[i]
    BY JoinedAt
  <2> QED BY <2>1 DEF Elems
<1>2. ASSUME NEW j \in 1..Len(t) PROVE t[j] \in Elems(s \o t)
  <2>1. Len(s) + j \in 1..Len(s \o t) /\ (s \o t)[Len(s) + j] = t[j]
    BY JoinedAt
  <2> QED BY <2>1 DEF Elems
<1>3. ASSUME NEW k \in 1..Len(s \o t) PROVE (s \o t)[k] \in Elems(s) \cup Elems(t)
  BY JoinedAt DEF Elems
<1> QED BY <1>1, <1>2, <1>3 DEF Elems

LEMMA ElemsOne ==
    ASSUME NEW m
    PROVE  Elems(<<m>>) = {m} /\ Elems(<<>>) = {}
<1>1. Len(<<m>>) = 1 /\ <<m>>[1] = m /\ Len(<<>>) = 0
  OBVIOUS
<1>2. 1..1 = {1} /\ 1..0 = {}
  OBVIOUS
<1> QED BY <1>1, <1>2 DEF Elems

LEMMA OrderedJoin ==
    ASSUME NEW S, NEW s \in Seq(S), NEW t \in Seq(S)
    PROVE  Ordered(s \o t) <=> Ordered(s) /\ Ordered(t) /\ Before(s, t)
<1> DEFINE st == s \o t
<1>0. /\ Len(st) = Len(s) + Len(t) /\ Len(s) \in Nat /\ Len(t) \in Nat
      /\ \A i \in 1..Len(s) : st[i] = s[i]
      /\ \A j \in 1..Len(t) : st[Len(s) + j] = t[j]
      /\ \A k \in 1..Len(st) : k \in 1..Len(s) \/ \E j \in 1..Len(t) : k = Len(s) + j
  BY JoinedAt
<1> HIDE DEF st
<1>1. ASSUME Ordered(st) PROVE Ordered(s)
  <2> SUFFICES ASSUME NEW i \in 1..Len(s), NEW j \in 1..Len(s),
                      i < j /\ IsDelta(s[i]) /\ IsDelta(s[j])
               PROVE  s[i].to <= s[j].from
    BY DEF Ordered
  <2>1. i \in 1..Len(st) /\ j \in 1..Len(st) /\ st[i] = s[i] /\ st[j] = s[j]
    BY <1>0
  <2> QED BY <1>1, <2>1 DEF Ordered
<1>2. ASSUME Ordered(st) PROVE Ordered(t)
  <2> SUFFICES ASSUME NEW i \in 1..Len(t), NEW j \in 1..Len(t),
                      i < j /\ IsDelta(t[i]) /\ IsDelta(t[j])
               PROVE  t[i].to <= t[j].from
    BY DEF Ordered
  <2>1. /\ Len(s) + i \in 1..Len(st) /\ Len(s) + j \in 1..Len(st)
        /\ Len(s) + i < Len(s) + j
    BY <1>0
  <2>2. st[Len(s) + i] = t[i] /\ st[Len(s) + j] = t[j]
    BY <1>0
  <2>3. st[Len(s) + i].to <= st[Len(s) + j].from
    BY <1>2, <2>1, <2>2 DEF Ordered
  <2> QED BY <2>2, <2>3
<1>3. ASSUME Ordered(st) PROVE Before(s, t)
  <2> SUFFICES ASSUME NEW i \in 1..Len(s), NEW j \in 1..Len(t),
                      IsDelta(s[i]) /\ IsDelta(t[j])
               PROVE  s[i].to <= t[j].from
    BY DEF Before, Elems
  <2>1. i \in 1..Len(st) /\ Len(s) + j \in 1..Len(st) /\ i < Len(s) + j
    BY <1>0
  <2>2. st[i] = s[i] /\ st[Len(s) + j] = t[j]
    BY <1>0
  <2>3. st[i].to <= st[Len(s) + j].from
    BY <1>3, <2>1, <2>2 DEF Ordered
  <2> QED BY <2>2, <2>3
<1>4. ASSUME Ordered(s), Ordered(t), Before(s, t),
             NEW k \in 1..Len(st), NEW l \in 1..Len(st), k < l,
             IsDelta(st[k]), IsDelta(st[l])
      PROVE  st[k].to <= st[l].from
  <2>1. CASE k \in 1..Len(s) /\ l \in 1..Len(s)
    BY <1>0, <1>4, <2>1 DEF Ordered
  <2>2. CASE l \notin 1..Len(s) /\ k \in 1..Len(s)
    <3>1. PICK j \in 1..Len(t) : l = Len(s) + j
      BY <1>0, <2>2
    <3>2. st[k] \in Elems(s) /\ st[l] \in Elems(t)
      BY <1>0, <2>2, <3>1 DEF Elems
    <3> QED BY <1>4, <3>2 DEF Before
  <2>3. CASE k \notin 1..Len(s)
    <3>1. PICK i \in 1..Len(t) : k = Len(s) + i
      BY <1>0, <2>3
    <3>2. PICK j \in 1..Len(t) : l = Len(s) + j
      <4>1. l \notin 1..Len(s)
        BY <1>0, <1>4, <3>1
      <4> QED BY <1>0, <4>1
    <3>3. i < j /\ st[k] = t[i] /\ st[l] = t[j]
      BY <1>0, <1>4, <3>1, <3>2
    <3> QED BY <1>4, <3>3 DEF Ordered
  <2> QED BY <2>1, <2>2, <2>3
<1>5. Ordered(s) /\ Ordered(t) /\ Before(s, t) => Ordered(st)
  BY <1>4 DEF Ordered
<1> QED BY <1>1, <1>2, <1>3, <1>5 DEF st

LEMMA OrderedOne ==
    ASSUME NEW m
    PROVE  Ordered(<<m>>) /\ Ordered(<<>>)
<1>1. Len(<<m>>) = 1 /\ Len(<<>>) = 0
  OBVIOUS
<1> QED BY <1>1 DEF Ordered

(* The order, together with what the updates hold and will queue: the      *)
(* graph an update replaces is the one the last delta queued leads to, or  *)
(* a later one.                                                            *)
OrderOf(u) ==
    /\ updater[u].pc # "send" => updater[u].outbox = <<>>
    /\ updater[u].pc \in {"reload", "install"} => updater[u].from = version
    /\ updater[u].pc \in {"clear", "schedule", "status"} =>
          /\ Numbered(broadcast, updater[u].from)
          /\ updater[u].to = version
          /\ ~IsEmpty(Changed(u)) => updater[u].to = updater[u].from + 1
    /\ updater[u].pc = "send" =>
          /\ Ordered(updater[u].outbox)
          /\ Numbered(updater[u].outbox, version)
          /\ Before(broadcast, updater[u].outbox)

OrderInv ==
    /\ Ordered(broadcast) /\ Numbered(broadcast, version)
    /\ \A u \in Updater : OrderOf(u)

(* What an update queues: its graph delta if there is one, then the rest.  *)
FirstMessage(u) ==
    IF ~IsEmpty(Changed(u))
    THEN <<GraphDelta(Changed(u), updater[u].from, updater[u].to)>> ELSE <<>>

LEMMA FirstMessageType ==
    ASSUME TypeOK, NEW u \in Updater
    PROVE  FirstMessage(u) \in Seq(Message)
<1>1. /\ updater[u].new \in Repository /\ updater[u].old \in Repository
      /\ updater[u].from \in Nat /\ updater[u].to \in Nat
  BY RecordOf DEF UpdateRecord
<1>2. GraphDelta(Changed(u), updater[u].from, updater[u].to) \in Message
  BY <1>1, DiffType DEF Changed, GraphDelta, Message
<1> QED BY <1>2 DEF FirstMessage

LEMMA QuietOne ==
    ASSUME NEW m, ~IsDelta(m)
    PROVE  Quiet(<<m>>) /\ Quiet(<<>>)
BY ElemsOne DEF Quiet

LEMMA QuietJoin ==
    ASSUME NEW s \in Seq(Message), NEW t \in Seq(Message), Quiet(s), Quiet(t)
    PROVE  Quiet(s \o t)
BY ElemsJoin DEF Quiet

LEMMA MessagesSplit ==
    ASSUME TypeOK, NEW u \in Updater, NEW st \in WorkingTreeStatus \cup {NoStatus}
    PROVE  \E rest \in Seq(Message) :
              Quiet(rest) /\ Messages(u, st) = FirstMessage(u) \o rest
<1> DEFINE opt(cond, msg) == IF cond THEN <<msg>> ELSE <<>>
           status == StatusMessage(st)
           head == HeadMessage(updater[u].new)
           two == opt(st # NoStatus, status)
           three == opt(HeadInfo(updater[u].old) # HeadInfo(updater[u].new), head)
<1>1. updater[u].new \in Repository
  BY RecordOf DEF UpdateRecord
<1>2. head \in Message /\ ~IsDelta(head)
  BY <1>1, HeadInfoType DEF HeadMessage, Message, IsDelta
<1>3. st # NoStatus => status \in Message /\ ~IsDelta(status)
  BY DEF StatusMessage, Message, IsDelta
<1>4. two \in Seq(Message) /\ Quiet(two)
  BY <1>3, QuietOne, ElemsOne DEF Quiet
<1>5. three \in Seq(Message) /\ Quiet(three)
  BY <1>2, QuietOne
<1>6. Messages(u, st) = FirstMessage(u) \o two \o three
  BY DEF Messages, FirstMessage
<1> HIDE DEF two, three
<1>7. FirstMessage(u) \o two \o three = FirstMessage(u) \o (two \o three)
  BY <1>4, <1>5, FirstMessageType, ConcatAssociative
<1>8. two \o three \in Seq(Message) /\ Quiet(two \o three)
  BY <1>4, <1>5, JoinedAt, QuietJoin
<1> QED BY <1>6, <1>7, <1>8

(* A message reaches the channel, or is dropped and it stays as it is.     *)
LEMMA BroadcastJoin ==
    ASSUME TypeOK, NEW msg \in Message, broadcastUpdate(msg)
    PROVE  \/ broadcast' = broadcast \o <<msg>> /\ behind' = behind
           \/ /\ broadcast' = broadcast
              /\ behind' = [c \in Conn |-> behind[c] \/ IsDelta(msg)]
BY AppendIsConcat DEF broadcastUpdate, TypeOK, SendTypes, IsDelta

-----------------------------------------------------------------------------
LEMMA DeltaMessage ==
    ASSUME NEW m \in Message, IsDelta(m)
    PROVE  m.delta \in Delta /\ m.from \in Nat /\ m.to \in Nat
BY DEF Message, IsDelta

LEMMA ElemsType ==
    ASSUME NEW S, NEW s \in Seq(S)
    PROVE  Elems(s) \subseteq S
BY DEF Elems

LEMMA OrderParts ==
    ASSUME NEW s \in Seq(Message), NEW t \in Seq(Message)
    PROVE  /\ \A v : Numbered(s \o t, v) <=> Numbered(s, v) /\ Numbered(t, v)
           /\ \A r : Before(r, s \o t) <=> Before(r, s) /\ Before(r, t)
           /\ \A r : Before(s \o t, r) <=> Before(s, r) /\ Before(t, r)
           /\ Ordered(s \o t) <=> Ordered(s) /\ Ordered(t) /\ Before(s, t)
<1>1. Elems(s \o t) = Elems(s) \cup Elems(t)
  BY ElemsJoin
<1>2. Ordered(s \o t) <=> Ordered(s) /\ Ordered(t) /\ Before(s, t)
  BY OrderedJoin
<1> QED BY <1>1, <1>2 DEF Numbered, Before

LEMMA NumberedLater ==
    ASSUME NEW s \in Seq(Message), NEW v \in Nat, NEW w \in Nat, v <= w, Numbered(s, v)
    PROVE  Numbered(s, w)
<1>1. \A m \in Elems(s) : IsDelta(m) => m.to \in Nat
  BY ElemsType, DeltaMessage
<1> QED BY <1>1 DEF Numbered

LEMMA QuietOrder ==
    ASSUME NEW s, Quiet(s)
    PROVE  /\ Ordered(s) /\ \A v : Numbered(s, v)
           /\ \A r : Before(r, s) /\ Before(s, r)
BY DEF Quiet, Ordered, Numbered, Before, Elems

LEMMA InitOrder == Init => OrderInv
<1> SUFFICES ASSUME Init PROVE OrderInv
  OBVIOUS
<1>1. broadcast = <<>> /\ \A u \in Updater : updater[u] = IdleUpdater
  BY DEF Init
<1>2. Quiet(<<>>)
  BY ElemsOne DEF Quiet
<1> QED BY <1>1, <1>2, QuietOrder DEF OrderInv, OrderOf, IdleUpdater

(* The queue may lose messages at its front and take on quiet ones.        *)
LEMMA QueueOrder ==
    ASSUME OrderInv, UNCHANGED <<updater, version>>, Ordered(broadcast'),
           \A m \in Elems(broadcast') : IsDelta(m) => m \in Elems(broadcast)
    PROVE  OrderInv'
<1>1. ASSUME NEW v, Numbered(broadcast, v) PROVE Numbered(broadcast', v)
  BY <1>1 DEF Numbered
<1>2. ASSUME NEW r, Before(broadcast, r) PROVE Before(broadcast', r)
  BY <1>2 DEF Before
<1>3. ASSUME NEW u \in Updater PROVE OrderOf(u)'
  <2>1. OrderOf(u) /\ updater' = updater /\ version' = version
    BY DEF OrderInv
  <2>2. Changed(u)' = Changed(u)
    BY <2>1 DEF Changed
  <2> QED BY <1>1, <1>2, <2>1, <2>2 DEF OrderOf
<1> QED BY <1>1, <1>3 DEF OrderInv

LEMMA TakeOrder ==
    ASSUME TypeOK, OrderInv, Take
    PROVE  OrderInv'
<1> DEFINE s == <<Head(broadcast)>>
           t == Tail(broadcast)
<1>1. /\ Head(broadcast) \in Message /\ t \in Seq(Message) /\ s \in Seq(Message)
      /\ broadcast = s \o t
  BY HeadAndTail DEF Take, TypeOK, SendTypes
<1>2. broadcast' = t /\ UNCHANGED <<updater, version>>
  BY DEF Take, updateVars, historyVars
<1> HIDE DEF s, t
<1>3. Ordered(t) /\ Elems(t) \subseteq Elems(broadcast)
  BY <1>1, OrderParts, ElemsJoin DEF OrderInv
<1> QED BY <1>2, <1>3, QueueOrder

LEMMA PollOrder ==
    ASSUME TypeOK, OrderInv, PollSend
    PROVE  OrderInv'
<1> DEFINE msg == StatusMessage(poller.last)
<1>1. msg \in Message /\ ~IsDelta(msg) /\ broadcastUpdate(msg)
  BY DEF PollSend, TypeOK, PollTypes, StatusMessage, Message, IsDelta
<1>2. UNCHANGED <<updater, version>>
  BY DEF PollSend, updateVars
<1> HIDE DEF msg
<1>3. CASE broadcast' = broadcast
  BY <1>2, <1>3, QueueOrder DEF OrderInv
<1>4. CASE broadcast' = broadcast \o <<msg>>
  <2>1. broadcast \in Seq(Message) /\ <<msg>> \in Seq(Message) /\ Quiet(<<msg>>)
    BY <1>1, QuietOne DEF TypeOK, SendTypes
  <2>2. Ordered(broadcast')
    BY <1>4, <2>1, OrderParts, QuietOrder DEF OrderInv
  <2>3. \A m \in Elems(broadcast') : IsDelta(m) => m \in Elems(broadcast)
    <3>1. Elems(broadcast \o <<msg>>) = Elems(broadcast) \cup Elems(<<msg>>)
      BY <2>1, ElemsJoin
    <3>2. Elems(<<msg>>) = {msg}
      BY ElemsOne
    <3> QED BY <1>1, <1>4, <3>1, <3>2
  <2> QED BY <1>2, <2>2, <2>3, QueueOrder
<1> QED BY <1>1, <1>3, <1>4, BroadcastJoin

(* An update that queues moves the front of its outbox to the back of the  *)
(* channel, or drops it; nobody else queues a delta meanwhile.             *)
LEMMA SendOrder ==
    ASSUME TypeOK, UpdatesExclusive, OrderInv, NEW u \in Updater, Send(u)
    PROVE  OrderInv'
<1> DEFINE h == Head(updater[u].outbox)
           s == <<h>>
           t == Tail(updater[u].outbox)
<1>1. /\ updater[u].pc = "send" /\ h \in Message /\ s \in Seq(Message) /\ t \in Seq(Message)
      /\ updater[u].outbox = s \o t /\ broadcastUpdate(h) /\ version' = version
      /\ \/ updater'[u] = IdleUpdater
         \/ updater'[u].pc = "send" /\ updater'[u].outbox = t
  BY SendFields, HeadAndTail
<1>2. broadcast \in Seq(Message)
  BY DEF TypeOK, SendTypes
<1> HIDE DEF h, s, t
<1>3. Ordered(s \o t) /\ Numbered(s \o t, version) /\ Before(broadcast, s \o t)
  BY <1>1 DEF OrderInv, OrderOf
<1>4. /\ Ordered(s) /\ Ordered(t) /\ Before(s, t) /\ Numbered(s, version)
      /\ Numbered(t, version) /\ Before(broadcast, s) /\ Before(broadcast, t)
  BY <1>1, <1>2, <1>3, OrderParts
<1>5. broadcast' = broadcast \/ broadcast' = broadcast \o s
  BY <1>1, BroadcastJoin DEF s
<1>6. Ordered(broadcast') /\ Numbered(broadcast', version') /\ Before(broadcast', t)
  <2>1. Ordered(broadcast) /\ Numbered(broadcast, version)
    BY DEF OrderInv
  <2>2. /\ Ordered(broadcast \o s) /\ Numbered(broadcast \o s, version)
        /\ Before(broadcast \o s, t)
    BY <1>1, <1>2, <1>4, <2>1, OrderParts
  <2> QED BY <1>1, <1>4, <1>5, <2>1, <2>2
<1>7. ASSUME NEW v \in Updater PROVE OrderOf(v)'
  <2>1. CASE v = u
    BY <1>1, <1>4, <1>6, <2>1 DEF OrderOf, IdleUpdater
  <2>2. CASE v # u
    <3>1. updater'[v] = updater[v] /\ updater[v].pc \in {"idle", "lock"}
      BY <1>1, <2>2, OthersKept DEF UpdatesExclusive, Update
    <3> QED BY <3>1 DEF OrderInv, OrderOf
  <2> QED BY <2>1, <2>2
<1> QED BY <1>6, <1>7 DEF OrderInv

(* What is queued up to the graph an update replaces comes before what it  *)
(* will queue itself.                                                      *)
LEMMA ReadStatusOrder ==
    ASSUME TypeOK, UpdatesExclusive, OrderInv, NEW u \in Updater, ReadStatus(u)
    PROVE  OrderOf(u)'
<1>1. /\ updater[u].pc = "status"
      /\ UNCHANGED <<broadcast, version>>
  BY ReadStatusFields
<1>2. PICK st \in WorkingTreeStatus \cup {NoStatus} :
         \/ updater'[u] = IdleUpdater
         \/ updater'[u].pc = "send" /\ updater'[u].outbox = Messages(u, st)
  BY ReadStatusFields
<1>3. CASE updater'[u] = IdleUpdater
  BY <1>3 DEF OrderOf, IdleUpdater
<1>4. CASE updater'[u].pc = "send" /\ updater'[u].outbox = Messages(u, st)
  <2>1. PICK rest \in Seq(Message) :
           Quiet(rest) /\ Messages(u, st) = FirstMessage(u) \o rest
    BY MessagesSplit
  <2>2. /\ Ordered(FirstMessage(u)) /\ Numbered(FirstMessage(u), version)
        /\ Before(broadcast, FirstMessage(u))
    <3>1. /\ Numbered(broadcast, updater[u].from) /\ updater[u].to = version
          /\ ~IsEmpty(Changed(u)) => updater[u].to = updater[u].from + 1
      BY <1>1 DEF OrderInv, OrderOf
    <3>2. version \in Nat
      BY DEF TypeOK
    <3>3. CASE IsEmpty(Changed(u))
      <4>1. FirstMessage(u) = <<>>
        BY <3>3 DEF FirstMessage
      <4>2. Quiet(<<>>)
        BY ElemsOne DEF Quiet
      <4> QED BY <4>1, <4>2, QuietOrder
    <3>4. CASE ~IsEmpty(Changed(u))
      <4> DEFINE m == GraphDelta(Changed(u), updater[u].from, updater[u].to)
      <4>1. FirstMessage(u) = <<m>> /\ m.from = updater[u].from /\ m.to = version
        BY <3>1, <3>4 DEF FirstMessage, GraphDelta
      <4>2. Elems(<<m>>) = {m} /\ Ordered(<<m>>)
        BY ElemsOne, OrderedOne
      <4> HIDE DEF m
      <4>3. m.to = m.from + 1 /\ m.to <= version
        BY <3>1, <3>2, <3>4, <4>1
      <4>4. Numbered(<<m>>, version)
        BY <4>2, <4>3 DEF Numbered
      <4>5. Before(broadcast, <<m>>)
        BY <3>1, <4>1, <4>2 DEF Before, Numbered
      <4> QED BY <4>1, <4>2, <4>4, <4>5
    <3> QED BY <3>3, <3>4
  <2>3. /\ Ordered(rest) /\ Numbered(rest, version) /\ Before(broadcast, rest)
        /\ Before(FirstMessage(u), rest)
    BY <2>1, QuietOrder
  <2>4. FirstMessage(u) \in Seq(Message) /\ rest \in Seq(Message)
    BY FirstMessageType
  <2>5. /\ Ordered(Messages(u, st)) /\ Numbered(Messages(u, st), version)
        /\ Before(broadcast, Messages(u, st))
    BY <2>1, <2>2, <2>3, <2>4, OrderParts
  <2> QED BY <1>1, <1>4, <2>5 DEF OrderOf
<1> QED BY <1>2, <1>3, <1>4

(* The repository that is installed gets a number of its own, above those  *)
(* of all that is queued, exactly if there will be a delta to it.          *)
LEMMA InstallOrder ==
    ASSUME TypeOK, UpdatesExclusive, OrderInv, NEW u \in Updater, Install(u)
    PROVE  OrderOf(u)' /\ version' \in Nat /\ version <= version'
<1>1. /\ updater[u].pc = "install" /\ updater'[u].pc = "clear"
      /\ updater'[u].from = updater[u].from /\ updater'[u].to = version'
      /\ updater'[u].old = updater[u].old /\ updater'[u].new = updater[u].new
      /\ updater'[u].outbox = updater[u].outbox /\ broadcast' = broadcast
  BY InstallFields
<1>2. updater[u].from = version /\ updater[u].outbox = <<>> /\ Numbered(broadcast, version)
  BY <1>1 DEF OrderInv, OrderOf
<1>3. version' = version + IF IsEmpty(Changed(u)) THEN 0 ELSE 1
  BY DEF Install
<1>4. Changed(u)' = Changed(u)
  BY <1>1 DEF Changed
<1>5. version \in Nat
  BY DEF TypeOK
<1>6. version' \in Nat /\ version <= version'
  BY <1>3, <1>5
<1>7. ~IsEmpty(Changed(u)) => version' = version + 1
  BY <1>3
<1> QED BY <1>1, <1>2, <1>4, <1>6, <1>7 DEF OrderOf

LEMMA UpdateOrder ==
    ASSUME TypeOK, UpdatesExclusive, OrderInv, NEW u \in Updater, Fire(u) \/ Update(u)
    PROVE  OrderInv'
<1>0. OrderOf(u) /\ Ordered(broadcast) /\ Numbered(broadcast, version)
  BY DEF OrderInv
<1>1. CASE Send(u)
  BY <1>1, SendOrder
<1>2. CASE Install(u)
  <2>1. /\ OrderOf(u)' /\ version' \in Nat /\ version <= version' /\ version \in Nat
        /\ broadcast' = broadcast /\ broadcast \in Seq(Message)
    BY <1>2, InstallOrder, InstallFields DEF TypeOK, SendTypes
  <2>2. Numbered(broadcast', version')
    BY <1>0, <2>1, NumberedLater
  <2>3. ASSUME NEW v \in Updater, v # u PROVE OrderOf(v)'
    <3>1. updater'[v] = updater[v] /\ updater[v].pc \in {"idle", "lock"}
      BY <1>2, <2>3, OthersKept, InstallFields DEF UpdatesExclusive
    <3> QED BY <3>1 DEF OrderInv, OrderOf
  <2> QED BY <1>0, <2>1, <2>2, <2>3 DEF OrderInv
<1>3. CASE ~Send(u) /\ ~Install(u)
  <2>1. UNCHANGED <<broadcast, version>>
    BY <1>3, FireFields, LockFields, ReloadFields, ReloadFailsFields, ClearScheduleFields,
       ReadStatusFields DEF Update
  <2>2. OrderOf(u)'
    <3>1. CASE Fire(u)
      <4>1. updater'[u] = [IdleUpdater EXCEPT !.pc = "lock"]
        BY <3>1, SetFields DEF Fire
      <4> QED BY <4>1 DEF OrderOf, IdleUpdater
    <3>2. CASE Lock(u)
      BY <3>2, LockFields DEF OrderOf
    <3>3. CASE Reload(u)
      BY <1>0, <3>3, ReloadFields DEF OrderOf
    <3>4. CASE ReloadFails(u)
      BY <3>4, ReloadFailsFields DEF OrderOf, IdleUpdater
    <3>5. CASE ClearCache(u) \/ Schedule(u)
      <4>1. Changed(u)' = Changed(u)
        BY <3>5, ClearScheduleFields DEF Changed
      <4> QED BY <1>0, <3>5, <4>1, ClearScheduleFields DEF OrderOf
    <3>6. CASE ReadStatus(u)
      BY <3>6, ReadStatusOrder
    <3> QED BY <1>3, <3>1, <3>2, <3>3, <3>4, <3>5, <3>6 DEF Update
  <2>3. ASSUME NEW v \in Updater, v # u PROVE OrderOf(v)'
    <3>1. updater'[v] = updater[v] /\ OrderOf(v)
      BY <2>3, OthersKept DEF OrderInv
    <3>2. Changed(v)' = Changed(v)
      BY <3>1 DEF Changed
    <3> QED BY <2>1, <3>1, <3>2 DEF OrderOf
  <2> QED BY <1>0, <2>1, <2>2, <2>3 DEF OrderInv
<1> QED BY <1>1, <1>2, <1>3

(* The steps that concern neither the queue nor the updates.               *)
LEMMA StepsOfQueue ==
    ASSUME [Next]_vars
    PROVE  \/ \E u \in Updater : Fire(u) \/ Update(u)
           \/ Take \/ PollSend
           \/ UNCHANGED <<cached, updateVars, broadcast, version>>
<1>1. CASE ChangeRepository \/ ChangeTree
  BY <1>1 DEF ChangeRepository, ChangeTree, cacheVars, historyVars
<1>2. CASE Sender
  BY <1>2 DEF Sender, Take, CopyClients, Write, WriteFails, FinishSend, cacheVars, historyVars
<1>3. ASSUME NEW c \in Conn, Handshake(c) \/ Leave(c)
      PROVE  UNCHANGED <<cached, updateVars, broadcast, version>>
  BY <1>3 DEF Handshake, Accept, SendSummary, ReadBootstrap, SendChunks, SendStatus,
     SendHead, registerClient, Leave, HandshakeFails, PeerLeaves, removeClient, Step,
     cacheVars, historyVars
<1>4. CASE Poll
  BY <1>4 DEF Poll, PollRepo, PollStatus, cacheVars, historyVars
<1>5. CASE Caches
  BY <1>5, CachesKeep DEF Caches, historyVars
<1>6. CASE UNCHANGED vars
  BY <1>6 DEF vars, cacheVars, historyVars
<1> QED BY <1>1, <1>2, <1>3, <1>4, <1>5, <1>6 DEF Next

(* What the lock's holder still has to queue continues the channel.        *)
LEMMA OrderShown == TypeOK /\ UpdatesExclusive /\ OrderInv => DeltasInOrder
<1> SUFFICES ASSUME TypeOK, UpdatesExclusive, OrderInv PROVE DeltasInOrder
  OBVIOUS
<1> DEFINE rest == IF updateMu = Nobody THEN <<>> ELSE updater[updateMu].outbox
<1>1. broadcast \in Seq(Message) /\ Ordered(broadcast) /\ Numbered(broadcast, version)
  BY DEF TypeOK, SendTypes, OrderInv
<1>2. /\ rest \in Seq(Message) /\ Ordered(rest) /\ Numbered(rest, version)
      /\ Before(broadcast, rest)
  <2>1. CASE rest = <<>>
    <3> HIDE DEF rest
    <3>1. Quiet(<<>>)
      BY ElemsOne DEF Quiet
    <3>2. <<>> \in Seq(Message)
      OBVIOUS
    <3> QED BY <2>1, <3>1, <3>2, QuietOrder
  <2>2. CASE rest # <<>>
    <3>1. PICK u \in Updater : updateMu = u /\ rest = updater[u].outbox
      BY <2>2 DEF TypeOK, UpdateTypes
    <3>2. OrderOf(u) /\ updater[u] \in UpdateRecord
      BY RecordOf DEF OrderInv
    <3>3. updater[u].pc = "send"
      BY <2>2, <3>1, <3>2 DEF OrderOf
    <3> QED BY <3>1, <3>2, <3>3 DEF OrderOf, UpdateRecord
  <2> QED BY <2>1, <2>2
<1>3. Queued = broadcast \o rest
  BY DEF Queued
<1> HIDE DEF rest
<1>4. Ordered(Queued) /\ Numbered(Queued, version)
  BY <1>1, <1>2, <1>3, OrderParts
<1>5. ASSUME NEW i \in 1..Len(Queued), IsDelta(Queued[i])
      PROVE  Queued[i].to = Queued[i].from + 1 /\ Queued[i].to <= version
  BY <1>4, <1>5 DEF Numbered, Elems
<1>6. ASSUME NEW i \in 1..Len(Queued), NEW j \in 1..Len(Queued),
             IsDelta(Queued[i]), i < j, IsDelta(Queued[j])
      PROVE  Queued[i].to <= Queued[j].from
  BY <1>4, <1>6 DEF Ordered
<1> QED BY <1>5, <1>6 DEF DeltasInOrder

LEMMA OrderStep ==
    ASSUME TypeOK, UpdatesExclusive, OrderInv, [Next]_vars
    PROVE  OrderInv'
<1>1. CASE UNCHANGED <<cached, updateVars, broadcast, version>>
  <2>1. \A u \in Updater : Changed(u)' = Changed(u)
    BY <1>1 DEF Changed, updateVars
  <2> QED BY <1>1, <2>1 DEF OrderInv, OrderOf, updateVars
<1> QED BY <1>1, StepsOfQueue, UpdateOrder, TakeOrder, PollOrder

LEMMA OrderInvariant == Spec => []OrderInv
<1>1. Init => OrderInv
  BY InitOrder
<1>2. TypeOK /\ UpdatesExclusive /\ OrderInv /\ [Next]_vars => OrderInv'
  BY OrderStep
<1> QED BY <1>1, <1>2, SessionTypes, Exclusion, PTL DEF Spec

(* Graph deltas are queued in the order of the graphs they lead between,   *)
(* none twice and none across another, whatever updates overlap and        *)
(* whichever messages the full channel refuses (session.go:152).           *)
THEOREM DeltasQueuedInOrder == Spec => []DeltasInOrder
<1>1. TypeOK /\ UpdatesExclusive /\ OrderInv => DeltasInOrder
  BY OrderShown
<1> QED BY <1>1, OrderInvariant, SessionTypes, Exclusion, PTL

-----------------------------------------------------------------------------
(* A registered client that no graph delta has passed by ends up with the  *)
(* cached commits and branches. The proof follows one commit or branch, an *)
(* item, through the messages on their way: what the last message that     *)
(* speaks of the item says of it is what the cached repository says, and   *)
(* when none speaks of it the client's graph already agrees.               *)
(* ClientsCatchUp alone is not inductive: it says nothing of a client that *)
(* is still bootstrapped, and nothing of the messages that the last of     *)
(* them overrules.                                                         *)

Items == ({"commit"} \X Commit) \cup ({"branch"} \X Branch)

Agree(x, g, h) == IF x[1] = "commit" THEN AgreeOnCommit(x[2], g, h)
                                     ELSE AgreeOnBranch(x[2], g, h)

(* A delta does not speak of an item, or says of it what h says.           *)
Silent(m, x) == IsDelta(m) => \A g \in Graph : Agree(x, applyDelta(g, m.delta), g)
Gives(m, x, h) == IsDelta(m) /\ \A g \in Graph : Agree(x, applyDelta(g, m.delta), h)

AllSilent(s, x) == \A m \in Elems(s) : Silent(m, x)

(* None of the deltas to graph n or a later one speaks of the item.        *)
SilentFrom(s, x, n) == \A m \in Elems(s) : IsDelta(m) /\ n <= m.to => Silent(m, x)

(* The last of the first n messages that speaks of the item says what h    *)
(* says.                                                                   *)
LastUpTo(s, n, x, h) ==
    \A i \in 1..n : \/ Silent(s[i], x) \/ Gives(s[i], x, h)
                    \/ \E j \in i + 1 .. n : ~Silent(s[j], x)

LastGives(s, x, h) == LastUpTo(s, Len(s), x, h)

(* The parts of what is on its way: for everyone, and for one connection.  *)
Sending == IF sender.pc = "idle" THEN <<>> ELSE <<sender.msg>>

Own(c) == IF sender.pc = "copy" \/ (sender.pc = "write" /\ c \in sender.to)
          THEN <<sender.msg>> ELSE <<>>

Coming == IF updateMu = Nobody THEN <<>> ELSE PendingDelta(updateMu)

Waiting == broadcast \o Coming

(* Of an item that the deltas on their way, from graph n on, are silent    *)
(* of, the graph g already says what h says.                               *)
Reaches(own, waiting, g, n, h) ==
    \A x \in Items : SilentFrom(own, x, n) /\ SilentFrom(waiting, x, n) => Agree(x, g, h)

CatchesUp(c, g, n) == Reaches(Own(c), Waiting, g, n, cached)

(* A connection, from its bootstrap until it leaves.                       *)
ConnOf(c) ==
    /\ conn[c].seen <= version
    /\ c \in sender.to => conn[c].pc \in {"open", "gone", "closed"}
    /\ conn[c].pc \in {"bootstrap", "chunks"} => view[c].graph = GraphOf(EmptyRepository)
    /\ conn[c].pc \in {"status", "head", "register"} => SameGraph(view[c].graph, conn[c].repo)
    /\ ~behind[c] /\ conn[c].pc \in {"chunks", "status", "head", "register"} =>
          CatchesUp(c, conn[c].repo, conn[c].seen + 1)
    /\ ~behind[c] /\ conn[c].pc = "open" /\ c \notin sender.failed =>
          CatchesUp(c, view[c].graph, 0)

CatchUpInv ==
    /\ (\E c \in Conn : ~behind[c]) => \A x \in Items : LastGives(Sending \o Waiting, x, cached)
    /\ \A c \in Conn : ConnOf(c)

-----------------------------------------------------------------------------
(* Agreeing on an item.                                                    *)
LEMMA AgreeEquivalence ==
    ASSUME NEW x \in Items, NEW g, NEW h, NEW k
    PROVE  /\ Agree(x, g, g)
           /\ Agree(x, g, h) => Agree(x, h, g)
           /\ Agree(x, g, h) /\ Agree(x, h, k) => Agree(x, g, k)
BY DEF Agree, AgreeOnCommit, AgreeOnBranch

LEMMA AgreeOnItems ==
    ASSUME NEW g, NEW h, SameGraph(g, h), NEW x \in Items
    PROVE  Agree(x, g, h)
BY DEF SameGraph, Agree, AgreeOnCommit, AgreeOnBranch

LEMMA ItemsAgree ==
    ASSUME NEW g \in Graph \cup Repository, NEW h \in Graph \cup Repository,
           \A x \in Items : Agree(x, g, h)
    PROVE  SameGraph(g, h)
<1>1. ASSUME NEW c \in Commit PROVE AgreeOnCommit(c, g, h)
  <2>1. <<"commit", c>> \in Items
    BY DEF Items
  <2>2. Agree(<<"commit", c>>, g, h)
    BY <2>1
  <2> QED BY <2>2 DEF Agree
<1>2. ASSUME NEW b \in Branch PROVE AgreeOnBranch(b, g, h)
  <2>1. <<"branch", b>> \in Items
    BY DEF Items
  <2>2. Agree(<<"branch", b>>, g, h)
    BY <2>1
  <2> QED BY <2>2 DEF Agree
<1>3. /\ g.commits \in SUBSET Commit /\ g.branches \in PartialFcn(Branch, Commit)
      /\ h.commits \in SUBSET Commit /\ h.branches \in PartialFcn(Branch, Commit)
  BY DEF Graph, Repository
<1> QED BY <1>1, <1>2, <1>3, AgreeEverywhere

LEMMA GraphOfGraph ==
    ASSUME NEW repo \in Repository
    PROVE  GraphOf(repo) \in Graph /\ \A x \in Items : Agree(x, GraphOf(repo), repo)
<1>1. GraphOf(repo) \in Graph /\ SameGraph(GraphOf(repo), repo)
  BY DEF Repository, GraphOf, Graph, SameGraph
<1> QED BY <1>1, AgreeOnItems

(* Where two repositories agree, the delta between them changes nothing.   *)
LEMMA UnchangedItem ==
    ASSUME NEW new \in Repository, NEW old \in Repository, NEW x \in Items,
           Agree(x, old, new), NEW g \in Graph
    PROVE  Agree(x, applyDelta(g, DiffRepositories(new, old)), g)
<1> DEFINE d == DiffRepositories(new, old)
           h == applyDelta(g, d)
<1>1. CASE x[1] = "commit"
  BY <1>1 DEF Agree, AgreeOnCommit, applyDelta, DiffRepositories
<1>2. CASE x[1] # "commit"
  <2> DEFINE b == x[2]
  <2>1. /\ b \in DOMAIN old.branches <=> b \in DOMAIN new.branches
        /\ b \in DOMAIN old.branches => old.branches[b] = new.branches[b]
    BY <1>2 DEF Agree, AgreeOnBranch
  <2>2. /\ DOMAIN d.addedBranches = DOMAIN new.branches \ DOMAIN old.branches
        /\ DOMAIN d.amendedBranches = {y \in DOMAIN new.branches \cap DOMAIN old.branches :
                                          new.branches[y] # old.branches[y]}
        /\ d.deletedBranches = DOMAIN old.branches \ DOMAIN new.branches
    BY DEF DiffRepositories
  <2>3. /\ b \notin DOMAIN d.addedBranches /\ b \notin DOMAIN d.amendedBranches
        /\ b \notin d.deletedBranches
    BY <2>1, <2>2
  <2> HIDE DEF d
  <2>4. DOMAIN h.branches = (DOMAIN g.branches \cup (DOMAIN d.addedBranches \cup
                                DOMAIN d.amendedBranches)) \ d.deletedBranches
    BY DEF applyDelta
  <2>5. b \in DOMAIN h.branches => h.branches[b] = g.branches[b]
    BY <2>3, <2>4 DEF applyDelta
  <2>6. Agree(x, h, g)
    BY <1>2, <2>3, <2>4, <2>5 DEF Agree, AgreeOnBranch
  <2> QED BY <2>6 DEF d
<1> QED BY <1>1, <1>2

(* A graph delta is silent of an item exactly when the repositories agree, *)
(* and gives what the new one says when they do not.                       *)
LEMMA DeltaSpeaks ==
    ASSUME NEW new \in Repository, NEW old \in Repository, NEW x \in Items,
           NEW m, IsDelta(m), m.delta = DiffRepositories(new, old)
    PROVE  /\ Silent(m, x) <=> Agree(x, old, new)
           /\ Silent(m, x) \/ Gives(m, x, new)
<1>1. Agree(x, old, new) => Silent(m, x)
  BY UnchangedItem DEF Silent
<1>2. ASSUME NEW g \in Graph
      PROVE  Agree(x, applyDelta(g, m.delta), new) \/ Agree(x, old, new)
  BY DeltaOnCommit, DeltaOnBranch DEF Agree
<1>3. Silent(m, x) => Agree(x, old, new)
  <2> DEFINE g == GraphOf(old)
             h == applyDelta(g, m.delta)
  <2>1. g \in Graph /\ Agree(x, g, old)
    BY GraphOfGraph
  <2>2. SUFFICES ASSUME Silent(m, x), Agree(x, h, new) PROVE Agree(x, old, new)
    BY <1>2, <2>1
  <2>3. Agree(x, h, g)
    BY <2>1, <2>2 DEF Silent
  <2> HIDE DEF g, h
  <2> QED BY <2>1, <2>2, <2>3, AgreeEquivalence
<1>4. ~Agree(x, old, new) => Gives(m, x, new)
  BY <1>2 DEF Gives
<1> QED BY <1>1, <1>3, <1>4

LEMMA EmptyDelta ==
    ASSUME NEW new \in Repository, NEW old \in Repository, NEW x \in Items,
           IsEmpty(DiffRepositories(new, old))
    PROVE  Agree(x, old, new)
<1> DEFINE d == DiffRepositories(new, old)
<1>1. /\ new.commits \ old.commits = {} /\ old.commits \ new.commits = {}
      /\ DOMAIN new.branches \ DOMAIN old.branches = {}
      /\ DOMAIN old.branches \ DOMAIN new.branches = {}
      /\ {b \in DOMAIN new.branches \cap DOMAIN old.branches :
             new.branches[b] # old.branches[b]} = {}
  BY DEF IsEmpty, DiffRepositories
<1> QED BY <1>1 DEF Agree, AgreeOnCommit, AgreeOnBranch

-----------------------------------------------------------------------------
(* Sequences of messages, joined.                                          *)
LEMMA SilentJoin ==
    ASSUME NEW s \in Seq(Message), NEW t \in Seq(Message)
    PROVE  /\ \A x : AllSilent(s \o t, x) <=> AllSilent(s, x) /\ AllSilent(t, x)
           /\ \A x, n : SilentFrom(s \o t, x, n) <=> SilentFrom(s, x, n) /\ SilentFrom(t, x, n)
<1>1. Elems(s \o t) = Elems(s) \cup Elems(t)
  BY ElemsJoin
<1> QED BY <1>1 DEF AllSilent, SilentFrom

LEMMA SilentAll ==
    ASSUME NEW s \in Seq(Message), NEW x
    PROVE  SilentFrom(s, x, 0) <=> AllSilent(s, x)
<1>1. \A m \in Elems(s) : IsDelta(m) => 0 <= m.to
  BY ElemsType, DeltaMessage
<1> QED BY <1>1 DEF SilentFrom, AllSilent, Silent

LEMMA LastJoin ==
    ASSUME NEW s \in Seq(Message), NEW t \in Seq(Message), NEW x, NEW h
    PROVE  LastGives(s \o t, x, h) <=>
              LastGives(t, x, h) /\ (AllSilent(t, x) => LastGives(s, x, h))
<1> DEFINE st == s \o t
           Fine(m) == Silent(m, x) \/ Gives(m, x, h)
<1>0. /\ Len(st) = Len(s) + Len(t) /\ Len(s) \in Nat /\ Len(t) \in Nat
      /\ \A i \in 1..Len(s) : st[i] = s[i]
      /\ \A j \in 1..Len(t) : st[Len(s) + j] = t[j]
      /\ \A k \in 1..Len(st) : k \in 1..Len(s) \/ \E j \in 1..Len(t) : k = Len(s) + j
  BY JoinedAt
<1>1. /\ LastGives(st, x, h) <=>
            \A i \in 1..Len(st) : Fine(st[i]) \/ \E j \in i + 1 .. Len(st) : ~Silent(st[j], x)
      /\ LastGives(s, x, h) <=>
            \A i \in 1..Len(s) : Fine(s[i]) \/ \E j \in i + 1 .. Len(s) : ~Silent(s[j], x)
      /\ LastGives(t, x, h) <=>
            \A i \in 1..Len(t) : Fine(t[i]) \/ \E j \in i + 1 .. Len(t) : ~Silent(t[j], x)
  BY DEF LastGives, LastUpTo
<1>2. AllSilent(t, x) <=> \A j \in 1..Len(t) : Silent(t[j], x)
  BY DEF AllSilent, Elems
<1> HIDE DEF st, Fine
<1>3. ASSUME LastGives(st, x, h) PROVE LastGives(t, x, h)
  <2> SUFFICES ASSUME NEW i \in 1..Len(t), ~Fine(t[i])
               PROVE  \E j \in i + 1 .. Len(t) : ~Silent(t[j], x)
    BY <1>1
  <2>1. Len(s) + i \in 1..Len(st) /\ st[Len(s) + i] = t[i]
    BY <1>0
  <2>2. PICK k \in Len(s) + i + 1 .. Len(st) : ~Silent(st[k], x)
    BY <1>1, <1>3, <2>1
  <2>3. /\ k - Len(s) \in 1..Len(t) /\ k - Len(s) \in i + 1 .. Len(t)
        /\ Len(s) + (k - Len(s)) = k
    BY <1>0, <2>2
  <2>4. st[k] = t[k - Len(s)]
    BY <1>0, <2>3
  <2> QED BY <2>2, <2>3, <2>4
<1>4. ASSUME LastGives(st, x, h), AllSilent(t, x) PROVE LastGives(s, x, h)
  <2> SUFFICES ASSUME NEW i \in 1..Len(s), ~Fine(s[i])
               PROVE  \E j \in i + 1 .. Len(s) : ~Silent(s[j], x)
    BY <1>1
  <2>1. i \in 1..Len(st) /\ st[i] = s[i]
    BY <1>0
  <2>2. PICK k \in i + 1 .. Len(st) : ~Silent(st[k], x)
    BY <1>1, <1>4, <2>1
  <2>3. k \in 1..Len(st)
    BY <1>0, <2>2
  <2>4. k \in 1..Len(s)
    <3> SUFFICES ASSUME NEW j \in 1..Len(t), k = Len(s) + j PROVE FALSE
      BY <1>0, <2>3
    <3>1. st[k] = t[j]
      BY <1>0
    <3> QED BY <1>2, <1>4, <2>2, <3>1
  <2>5. st[k] = s[k] /\ k \in i + 1 .. Len(s)
    BY <1>0, <2>2, <2>4
  <2> QED BY <2>2, <2>5
<1>5. ASSUME LastGives(t, x, h), AllSilent(t, x) => LastGives(s, x, h)
      PROVE  LastGives(st, x, h)
  <2> SUFFICES ASSUME NEW i \in 1..Len(st), ~Fine(st[i])
               PROVE  \E j \in i + 1 .. Len(st) : ~Silent(st[j], x)
    BY <1>1
  <2>1. CASE i \in 1..Len(s) /\ AllSilent(t, x)
    <3>1. PICK k \in i + 1 .. Len(s) : ~Silent(s[k], x)
      BY <1>0, <1>1, <1>5, <2>1
    <3>2. k \in i + 1 .. Len(st) /\ st[k] = s[k]
      BY <1>0, <2>1, <3>1
    <3> QED BY <3>1, <3>2
  <2>2. CASE i \in 1..Len(s) /\ ~AllSilent(t, x)
    <3>1. PICK j \in 1..Len(t) : ~Silent(t[j], x)
      BY <1>2, <2>2
    <3>2. Len(s) + j \in i + 1 .. Len(st) /\ st[Len(s) + j] = t[j]
      BY <1>0, <2>2
    <3> QED BY <3>1, <3>2
  <2>3. CASE i \notin 1..Len(s)
    <3>1. PICK j \in 1..Len(t) : i = Len(s) + j
      BY <1>0, <2>3
    <3>2. PICK k \in j + 1 .. Len(t) : ~Silent(t[k], x)
      BY <1>0, <1>1, <1>5, <3>1
    <3>3. k \in 1..Len(t) /\ Len(s) + k \in i + 1 .. Len(st)
      BY <1>0, <3>1, <3>2
    <3>4. st[Len(s) + k] = t[k]
      BY <1>0, <3>3
    <3> QED BY <3>2, <3>3, <3>4
  <2> QED BY <2>1, <2>2, <2>3
<1> QED BY <1>3, <1>4, <1>5 DEF st

LEMMA LastOne ==
    ASSUME NEW m, NEW x, NEW h
    PROVE  /\ LastGives(<<m>>, x, h) <=> Silent(m, x) \/ Gives(m, x, h)
           /\ LastGives(<<>>, x, h)
           /\ AllSilent(<<m>>, x) <=> Silent(m, x)
           /\ AllSilent(<<>>, x)
<1>1. Len(<<m>>) = 1 /\ <<m>>[1] = m /\ Len(<<>>) = 0
  OBVIOUS
<1>2. LastGives(<<m>>, x, h) <=> Silent(m, x) \/ Gives(m, x, h)
  <2>1. 1..1 = {1} /\ 1 + 1 .. 1 = {}
    OBVIOUS
  <2> QED BY <1>1, <2>1 DEF LastGives, LastUpTo
<1>3. LastGives(<<>>, x, h)
  BY <1>1 DEF LastGives, LastUpTo
<1> QED BY <1>2, <1>3, ElemsOne DEF AllSilent

LEMMA LastQuiet ==
    ASSUME NEW s \in Seq(Message), Quiet(s)
    PROVE  /\ \A x : AllSilent(s, x)
           /\ \A x, h : LastGives(s, x, h)
           /\ \A x, n : SilentFrom(s, x, n)
<1>1. \A m \in Elems(s) : ~IsDelta(m)
  BY DEF Quiet
<1>2. \A x : AllSilent(s, x)
  BY <1>1 DEF AllSilent, Silent
<1>3. \A x, h : LastGives(s, x, h)
  BY <1>1 DEF LastGives, LastUpTo, Silent, Elems
<1>4. \A x, n : SilentFrom(s, x, n)
  BY <1>1 DEF SilentFrom
<1> QED BY <1>2, <1>3, <1>4

(* Where two repositories agree, giving one is giving the other.           *)
LEMMA LastAgree ==
    ASSUME NEW s, NEW x \in Items, NEW g, NEW h, Agree(x, g, h), LastGives(s, x, g)
    PROVE  LastGives(s, x, h)
<1>1. ASSUME NEW m, Gives(m, x, g) PROVE Gives(m, x, h)
  BY <1>1, AgreeEquivalence DEF Gives
<1> QED BY <1>1 DEF LastGives, LastUpTo

-----------------------------------------------------------------------------
(* What a sequence of messages does to a graph: Replay is defined, and     *)
(* takes its messages one by one.                                          *)
Replayed(g, msgs, n) ==
    CHOOSE f : f = [k \in 0..n |-> IF k = 0 THEN g ELSE Apply(f[k - 1], msgs[k])]

IsReplay(f, g, msgs, n) ==
    f = [k \in 0..n |-> IF k = 0 THEN g ELSE Apply(f[k - 1], msgs[k])]

LEMMA ReplayExists ==
    ASSUME NEW g, NEW msgs
    PROVE  \A n \in Nat : \E f : IsReplay(f, g, msgs, n)
<1> DEFINE T == {n \in Nat : \E f : IsReplay(f, g, msgs, n)}
<1>1. 0 \in T
  <2> DEFINE f == [k \in 0..0 |-> g]
  <2>1. f = [k \in 0..0 |-> IF k = 0 THEN g ELSE Apply(f[k - 1], msgs[k])]
    OBVIOUS
  <2>2. IsReplay(f, g, msgs, 0)
    BY <2>1 DEF IsReplay
  <2> QED BY <2>2
<1>2. ASSUME NEW n \in T PROVE n + 1 \in T
  <2>1. PICK f : IsReplay(f, g, msgs, n)
    BY <1>2
  <2>2. \A k \in 0..n : f[k] = IF k = 0 THEN g ELSE Apply(f[k - 1], msgs[k])
    BY <2>1 DEF IsReplay
  <2> DEFINE h == [k \in 0 .. n + 1 |-> IF k = n + 1 THEN Apply(f[n], msgs[n + 1]) ELSE f[k]]
             r == [k \in 0 .. n + 1 |-> IF k = 0 THEN g ELSE Apply(h[k - 1], msgs[k])]
  <2>3. ASSUME NEW k \in 0 .. n + 1 PROVE h[k] = r[k]
    <3>1. CASE k = n + 1
      <4>1. h[n] = f[n] /\ (n + 1) - 1 = n /\ n + 1 # 0 /\ n + 1 \in 0 .. n + 1
        OBVIOUS
      <4> QED BY <3>1, <4>1
    <3>2. CASE k = 0
      <4>1. f[0] = g /\ 0 # n + 1
        BY <2>2
      <4> QED BY <3>2, <4>1
    <3>3. CASE k # n + 1 /\ k # 0
      <4>1. k \in 0..n /\ k - 1 \in 0 .. n + 1 /\ k - 1 # n + 1
        BY <3>3
      <4>2. h[k - 1] = f[k - 1] /\ h[k] = f[k]
        BY <3>3, <4>1
      <4>3. f[k] = Apply(f[k - 1], msgs[k])
        BY <2>2, <3>3, <4>1
      <4> QED BY <3>3, <4>2, <4>3
    <3> QED BY <3>1, <3>2, <3>3
  <2>4. h = r
    BY <2>3
  <2>5. IsReplay(h, g, msgs, n + 1)
    BY <2>4 DEF IsReplay
  <2> QED BY <2>5
<1>3. \A n \in T : n + 1 \in T
  BY <1>2
<1> HIDE DEF T
<1>4. \A n \in Nat : n \in T
  BY <1>1, <1>3, Induction DEF T
<1> QED BY <1>4 DEF T

LEMMA ReplaySteps ==
    ASSUME NEW g, NEW msgs \in Seq(Message)
    PROVE  \E after : /\ after[0] = g /\ Replay(g, msgs) = after[Len(msgs)]
                      /\ \A n \in 1..Len(msgs) : after[n] = Apply(after[n - 1], msgs[n])
<1> DEFINE after == Replayed(g, msgs, Len(msgs))
<1>1. Len(msgs) \in Nat
  OBVIOUS
<1>2. \E f : f = [k \in 0..Len(msgs) |-> IF k = 0 THEN g ELSE Apply(f[k - 1], msgs[k])]
  <2>1. \E f : IsReplay(f, g, msgs, Len(msgs))
    BY <1>1, ReplayExists
  <2> QED BY <2>1 DEF IsReplay
<1>3. after = [k \in 0..Len(msgs) |-> IF k = 0 THEN g ELSE Apply(after[k - 1], msgs[k])]
  BY <1>2 DEF Replayed
<1>4. Replay(g, msgs) = after[Len(msgs)]
  BY DEF Replay, Replayed
<1> HIDE DEF after
<1>5. after[0] = g /\ \A n \in 1..Len(msgs) : after[n] = Apply(after[n - 1], msgs[n])
  BY <1>1, <1>3
<1> QED BY <1>4, <1>5

LEMMA ApplyGraph ==
    ASSUME NEW g \in Graph, NEW m \in Message
    PROVE  /\ Apply(g, m) \in Graph
           /\ \A x \in Items : Silent(m, x) => Agree(x, Apply(g, m), g)
           /\ \A x, h : Gives(m, x, h) => Agree(x, Apply(g, m), h)
<1>1. CASE IsDelta(m)
  <2>1. Apply(g, m) = applyDelta(g, m.delta) /\ m.delta \in Delta
    BY <1>1, DeltaMessage DEF Apply
  <2> QED BY <1>1, <2>1, ApplyType DEF Silent, Gives
<1>2. CASE ~IsDelta(m)
  <2>1. Apply(g, m) = g
    BY <1>2 DEF Apply
  <2> QED BY <1>2, <2>1, AgreeEquivalence DEF Gives
<1> QED BY <1>1, <1>2

LEMMA ReplayType ==
    ASSUME NEW g \in Graph, NEW msgs \in Seq(Message)
    PROVE  Replay(g, msgs) \in Graph
<1>1. PICK after : /\ after[0] = g /\ Replay(g, msgs) = after[Len(msgs)]
                   /\ \A n \in 1..Len(msgs) : after[n] = Apply(after[n - 1], msgs[n])
  BY ReplaySteps
<1>2. Len(msgs) \in Nat /\ \A n \in 1..Len(msgs) : msgs[n] \in Message
  OBVIOUS
<1> DEFINE T == {n \in Nat : n <= Len(msgs) => after[n] \in Graph}
<1>3. 0 \in T
  BY <1>1
<1>4. ASSUME NEW n \in T PROVE n + 1 \in T
  <2> SUFFICES ASSUME n + 1 <= Len(msgs) PROVE after[n + 1] \in Graph
    OBVIOUS
  <2>1. n + 1 \in 1..Len(msgs) /\ n <= Len(msgs) /\ (n + 1) - 1 = n
    BY <1>2
  <2>2. after[n + 1] = Apply(after[n], msgs[n + 1]) /\ msgs[n + 1] \in Message
    BY <1>1, <1>2, <2>1
  <2>3. after[n] \in Graph
    BY <2>1
  <2> QED BY <2>2, <2>3, ApplyGraph
<1>5. (\A n \in T : n + 1 \in T) /\ T \in SUBSET Nat
  BY <1>4
<1> HIDE DEF T
<1>6. Len(msgs) \in T
  BY <1>2, <1>3, <1>5, Induction
<1> QED BY <1>1, <1>2, <1>6 DEF T

(* The last message that speaks of an item decides; if there is none, the  *)
(* graph itself.                                                           *)
LEMMA ReplayAgrees ==
    ASSUME NEW g \in Graph, NEW msgs \in Seq(Message), NEW x \in Items, NEW h,
           LastGives(msgs, x, h), AllSilent(msgs, x) => Agree(x, g, h)
    PROVE  Agree(x, Replay(g, msgs), h)
<1>1. PICK after : /\ after[0] = g /\ Replay(g, msgs) = after[Len(msgs)]
                   /\ \A n \in 1..Len(msgs) : after[n] = Apply(after[n - 1], msgs[n])
  BY ReplaySteps
<1>2. Len(msgs) \in Nat /\ \A n \in 1..Len(msgs) : msgs[n] \in Message
  OBVIOUS
<1> DEFINE SilentTo(n) == \A i \in 1..n : Silent(msgs[i], x)
           Claim(n) == LastUpTo(msgs, n, x, h) /\ (SilentTo(n) => Agree(x, g, h))
                          => Agree(x, after[n], h)
           T == {n \in Nat : n <= Len(msgs) => after[n] \in Graph /\ Claim(n)}
<1>3. 0 \in T
  <2>1. SilentTo(0)
    OBVIOUS
  <2> HIDE DEF SilentTo
  <2> QED BY <1>1, <2>1
<1>4. ASSUME NEW n \in T PROVE n + 1 \in T
  <2> SUFFICES ASSUME n + 1 <= Len(msgs) PROVE after[n + 1] \in Graph /\ Claim(n + 1)
    OBVIOUS
  <2>1. n \in Nat /\ n + 1 \in 1..Len(msgs) /\ n <= Len(msgs) /\ (n + 1) - 1 = n
    BY <1>2
  <2>2. after[n] \in Graph /\ Claim(n)
    BY <2>1
  <2> DEFINE m == msgs[n + 1]
  <2>3. m \in Message /\ after[n + 1] = Apply(after[n], m)
    BY <1>1, <1>2, <2>1
  <2> HIDE DEF m
  <2>4. /\ after[n + 1] \in Graph
        /\ Silent(m, x) => Agree(x, after[n + 1], after[n])
        /\ Gives(m, x, h) => Agree(x, after[n + 1], h)
    BY <2>2, <2>3, ApplyGraph
  <2>5. ASSUME LastUpTo(msgs, n + 1, x, h), SilentTo(n + 1) => Agree(x, g, h)
        PROVE  Agree(x, after[n + 1], h)
    <3>1. Silent(m, x) \/ Gives(m, x, h)
      <4>1. (n + 1) + 1 .. n + 1 = {} /\ n + 1 \in 1 .. n + 1
        BY <2>1
      <4> QED BY <2>5, <4>1 DEF LastUpTo, m
    <3>2. CASE Silent(m, x)
      <4>1. LastUpTo(msgs, n, x, h)
        <5> SUFFICES ASSUME NEW i \in 1..n, ~Silent(msgs[i], x), ~Gives(msgs[i], x, h)
                     PROVE  \E j \in i + 1 .. n : ~Silent(msgs[j], x)
          BY DEF LastUpTo
        <5>1. i \in 1 .. n + 1
          BY <2>1
        <5>2. PICK j \in i + 1 .. n + 1 : ~Silent(msgs[j], x)
          BY <2>5, <5>1 DEF LastUpTo
        <5>3. j # n + 1
          BY <3>2, <5>2 DEF m
        <5>4. j \in i + 1 .. n
          BY <2>1, <5>3
        <5> QED BY <5>2, <5>4
      <4>2. SilentTo(n) => SilentTo(n + 1)
        <5>1. \A i \in 1 .. n + 1 : i \in 1..n \/ i = n + 1
          BY <2>1
        <5> QED BY <3>2, <5>1 DEF m
      <4> HIDE DEF SilentTo
      <4>3. Agree(x, after[n], h)
        BY <2>2, <2>5, <4>1, <4>2
      <4> QED BY <2>4, <3>2, <4>3, AgreeEquivalence
    <3> QED BY <2>4, <3>1, <3>2
  <2> QED BY <2>4, <2>5
<1>5. \A n \in T : n + 1 \in T
  BY <1>4
<1>6. T \in SUBSET Nat
  OBVIOUS
<1> HIDE DEF T
<1>7. Len(msgs) \in T
  BY <1>2, <1>3, <1>5, <1>6, Induction
<1>8. Claim(Len(msgs))
  BY <1>2, <1>7 DEF T
<1>9. SilentTo(Len(msgs)) => Agree(x, g, h)
  BY DEF AllSilent, Elems
<1> HIDE DEF SilentTo
<1> QED BY <1>1, <1>8, <1>9 DEF LastGives

-----------------------------------------------------------------------------
LEMMA PendingType ==
    ASSUME TypeOK, NEW u \in Updater
    PROVE  PendingDelta(u) \in Seq(Message)
<1>1. /\ updater[u].new \in Repository /\ updater[u].old \in Repository
      /\ updater[u].from \in Nat /\ updater[u].to \in Nat
      /\ updater[u].outbox \in Seq(Message)
  BY RecordOf DEF UpdateRecord
<1>2. GraphDelta(Changed(u), updater[u].from, updater[u].to) \in Message
  BY <1>1, DiffType DEF Changed, GraphDelta, Message
<1> QED BY <1>1, <1>2 DEF PendingDelta

LEMMA FlightTypes ==
    ASSUME TypeOK
    PROVE  /\ broadcast \in Seq(Message) /\ Coming \in Seq(Message)
           /\ Waiting \in Seq(Message) /\ Sending \in Seq(Message)
           /\ cached \in Repository
           /\ \A c \in Conn : /\ Own(c) \in Seq(Message) /\ Own(c) \in {Sending, <<>>}
                              /\ InFlight(c) = Own(c) \o Waiting
<1>1. broadcast \in Seq(Message)
  BY DEF TypeOK, SendTypes
<1>2. Coming \in Seq(Message)
  <2>1. CASE updateMu = Nobody
    BY <2>1 DEF Coming
  <2>2. CASE updateMu \in Updater
    BY <2>2, PendingType, ConstantTypes DEF Coming
  <2> QED BY <2>1, <2>2 DEF TypeOK, UpdateTypes
<1>3. Waiting \in Seq(Message)
  BY <1>1, <1>2, JoinedAt DEF Waiting
<1>4. sender.pc # "idle" => <<sender.msg>> \in Seq(Message)
  BY DEF TypeOK, SendTypes
<1>5. Sending \in Seq(Message)
  BY <1>4 DEF Sending
<1>6. ASSUME NEW c \in Conn
      PROVE  /\ Own(c) \in Seq(Message) /\ Own(c) \in {Sending, <<>>}
             /\ InFlight(c) = Own(c) \o Waiting
  <2>1. Own(c) \in Seq(Message) /\ Own(c) \in {Sending, <<>>}
    BY <1>4 DEF Own, Sending
  <2>2. InFlight(c) = Own(c) \o broadcast \o Coming
    BY DEF InFlight, Own, Coming
  <2>3. Own(c) \o broadcast \o Coming = Own(c) \o (broadcast \o Coming)
    BY <1>1, <1>2, <2>1, ConcatAssociative
  <2> QED BY <2>1, <2>2, <2>3 DEF Waiting
<1>7. cached \in Repository
  BY ConstantTypes DEF TypeOK, DiskTypes
<1> QED BY <1>1, <1>2, <1>3, <1>5, <1>6, <1>7

(* The invariant, once everything on its way arrives.                      *)
LEMMA CatchUpShown == TypeOK /\ CatchUpInv => ClientsCatchUp
<1> SUFFICES ASSUME TypeOK, CatchUpInv,
                    NEW c \in clients,
                    conn[c].pc = "open" /\ ~behind[c] /\ c \notin sender.failed
             PROVE  SameGraph(Replay(view[c].graph, InFlight(c)), cached)
  BY DEF ClientsCatchUp
<1> DEFINE g == view[c].graph
           msgs == InFlight(c)
<1>1. c \in Conn /\ g \in Graph
  BY DEF TypeOK, ConnTypes
<1>2. /\ Own(c) \in Seq(Message) /\ Waiting \in Seq(Message) /\ Sending \in Seq(Message)
      /\ Own(c) \in {Sending, <<>>} /\ msgs = Own(c) \o Waiting /\ cached \in Repository
  BY <1>1, FlightTypes
<1>3. msgs \in Seq(Message)
  BY <1>2, JoinedAt
<1>4. CatchesUp(c, g, 0)
  BY <1>1 DEF CatchUpInv, ConnOf
<1> HIDE DEF g, msgs
<1>5. ASSUME NEW x \in Items
      PROVE  LastGives(msgs, x, cached) /\ (AllSilent(msgs, x) => Agree(x, g, cached))
  <2>1. LastGives(Sending \o Waiting, x, cached)
    BY <1>1 DEF CatchUpInv
  <2>2. LastGives(Waiting, x, cached)
        /\ (AllSilent(Waiting, x) => LastGives(Sending, x, cached))
    BY <1>2, <2>1, LastJoin
  <2>3. LastGives(<<>>, x, cached)
    BY LastOne
  <2>4. LastGives(Own(c) \o Waiting, x, cached)
    BY <1>2, <2>2, <2>3, LastJoin
  <2>5. AllSilent(msgs, x) => SilentFrom(Own(c), x, 0) /\ SilentFrom(Waiting, x, 0)
    BY <1>2, SilentJoin, SilentAll
  <2> QED BY <1>2, <1>4, <2>4, <2>5 DEF CatchesUp, Reaches
<1>6. ASSUME NEW x \in Items PROVE Agree(x, Replay(g, msgs), cached)
  BY <1>1, <1>3, <1>5, ReplayAgrees
<1>7. Replay(g, msgs) \in Graph
  BY <1>1, <1>3, ReplayType
<1>8. SameGraph(Replay(g, msgs), cached)
  BY <1>2, <1>6, <1>7, ItemsAgree
<1> QED BY <1>8 DEF g, msgs

-----------------------------------------------------------------------------
(* Two queues whose deltas, and the order that matters, are the same.      *)
SameDeltas(s, t) ==
    /\ \A x, h : LastGives(s, x, h) <=> LastGives(t, x, h)
    /\ \A m : IsDelta(m) => (m \in Elems(s) <=> m \in Elems(t))

LEMMA SameSilent ==
    ASSUME NEW s, NEW t, SameDeltas(s, t)
    PROVE  /\ \A x : AllSilent(s, x) <=> AllSilent(t, x)
           /\ \A x, n : SilentFrom(s, x, n) <=> SilentFrom(t, x, n)
BY DEF SameDeltas, AllSilent, SilentFrom, Silent

(* Quiet messages come and go.                                             *)
LEMMA QuietBetween ==
    ASSUME NEW a \in Seq(Message), NEW q \in Seq(Message), NEW r \in Seq(Message),
           NEW b \in Seq(Message), Quiet(q), Quiet(r)
    PROVE  SameDeltas(a \o (q \o b), a \o (r \o b))
<1>1. ASSUME NEW p \in Seq(Message), Quiet(p)
      PROVE  /\ p \o b \in Seq(Message)
             /\ \A x, h : LastGives(p \o b, x, h) <=> LastGives(b, x, h)
             /\ \A x : AllSilent(p \o b, x) <=> AllSilent(b, x)
             /\ \A m : IsDelta(m) => (m \in Elems(p \o b) <=> m \in Elems(b))
  <2>1. p \o b \in Seq(Message) /\ Elems(p \o b) = Elems(p) \cup Elems(b)
    BY JoinedAt, ElemsJoin
  <2>2. \A x, h : LastGives(p \o b, x, h) <=> LastGives(b, x, h)
    BY <1>1, LastJoin, LastQuiet
  <2>3. \A x : AllSilent(p \o b, x) <=> AllSilent(b, x)
    BY <1>1, SilentJoin, LastQuiet
  <2> QED BY <1>1, <2>1, <2>2, <2>3 DEF Quiet
<1> DEFINE qb == q \o b
           rb == r \o b
<1>2. /\ qb \in Seq(Message) /\ rb \in Seq(Message)
      /\ \A x, h : LastGives(qb, x, h) <=> LastGives(rb, x, h)
      /\ \A x : AllSilent(qb, x) <=> AllSilent(rb, x)
      /\ \A m : IsDelta(m) => (m \in Elems(qb) <=> m \in Elems(rb))
  BY <1>1
<1> HIDE DEF qb, rb
<1>3. \A x, h : LastGives(a \o qb, x, h) <=> LastGives(a \o rb, x, h)
  BY <1>2, LastJoin
<1>4. Elems(a \o qb) = Elems(a) \cup Elems(qb) /\ Elems(a \o rb) = Elems(a) \cup Elems(rb)
  BY <1>2, ElemsJoin
<1> QED BY <1>2, <1>3, <1>4 DEF SameDeltas, qb, rb

LEMMA EmptySides ==
    ASSUME NEW s \in Seq(Message)
    PROVE  /\ s \o <<>> = s /\ <<>> \o s = s /\ <<>> \in Seq(Message) /\ Quiet(<<>>)
<1>1. s \o <<>> = s /\ <<>> \o s = s /\ <<>> \in Seq(Message)
  BY ConcatEmptySeq
<1> QED BY <1>1, ElemsOne DEF Quiet

(* What the lock's holder has yet to queue.                                *)
LEMMA ComingIs ==
    ASSUME TypeOK, OrderInv
    PROVE  /\ updateMu = Nobody => Coming = <<>>
           /\ \A u \in Updater : updateMu = u =>
                 /\ updater[u].pc \in {"clear", "schedule", "status"} => Coming = FirstMessage(u)
                 /\ updater[u].pc = "send" => Coming = updater[u].outbox
                 /\ updater[u].pc \notin {"clear", "schedule", "status", "send"} => Coming = <<>>
<1>1. ASSUME NEW u \in Updater, updateMu = u
      PROVE  /\ updater[u].pc \in {"clear", "schedule", "status"} => Coming = FirstMessage(u)
             /\ updater[u].pc = "send" => Coming = updater[u].outbox
             /\ updater[u].pc \notin {"clear", "schedule", "status", "send"} => Coming = <<>>
  <2>1. Coming = PendingDelta(u)
    BY <1>1, ConstantTypes DEF Coming
  <2>2. updater[u].pc # "send" => updater[u].outbox = <<>>
    BY DEF OrderInv, OrderOf
  <2> QED BY <2>1, <2>2 DEF PendingDelta, FirstMessage
<1> QED BY <1>1 DEF Coming

(* An update up to Install, and between Install and the status, leaves     *)
(* what is on its way as it is.                                            *)
LEMMA EarlyWaiting ==
    ASSUME TypeOK, UpdatesExclusive, OrderInv, NEW u \in Updater,
           Fire(u) \/ Lock(u) \/ Reload(u) \/ ReloadFails(u) \/ ClearCache(u) \/ Schedule(u)
    PROVE  Waiting' = Waiting /\ UNCHANGED <<cached, version, behind>>
<1>1. UNCHANGED <<cached, broadcast, version, behind>>
  BY FireFields, LockFields, ReloadFields, ReloadFailsFields, ClearScheduleFields
     DEF Fire, Lock, Reload, ReloadFails, ClearCache, Schedule, historyVars
<1>2. CASE Fire(u)
  <2>1. updater'[u] = [IdleUpdater EXCEPT !.pc = "lock"] /\ updateMu' = updateMu
    BY <1>2, SetFields, FireFields DEF Fire
  <2>2. updater'[u].pc = "lock" /\ updater'[u].outbox = <<>>
    BY <2>1 DEF IdleUpdater
  <2>3. CASE updateMu = u
    <3>1. Coming = <<>>
      BY <1>2, <2>3, FireFields, ComingIs
    <3>2. Coming' = <<>>
      BY <2>1, <2>2, <2>3, ConstantTypes DEF Coming, PendingDelta
    <3> QED BY <1>1, <3>1, <3>2 DEF Waiting
  <2>4. CASE updateMu # u
    <3>1. updateMu \in Updater => updater'[updateMu] = updater[updateMu]
      BY <1>2, <2>4, OthersKept
    <3>2. updateMu = Nobody \/ updateMu \in Updater
      BY DEF TypeOK, UpdateTypes
    <3>3. Coming' = Coming
      BY <2>1, <3>1, <3>2 DEF Coming, PendingDelta, Changed
    <3> QED BY <1>1, <3>3 DEF Waiting
  <2> QED BY <1>1, <2>3, <2>4
<1>3. CASE Lock(u)
  <2>1. Coming = <<>>
    BY <1>3, LockFields, ComingIs
  <2>2. Coming' = <<>>
    BY <1>3, LockFields, ConstantTypes DEF Coming, PendingDelta
  <2> QED BY <1>1, <2>1, <2>2 DEF Waiting
<1>4. CASE ReloadFails(u)
  <2>1. Coming = <<>>
    BY <1>4, ReloadFailsFields, ComingIs DEF UpdatesExclusive
  <2>2. Coming' = <<>>
    BY <1>4, ReloadFailsFields DEF Coming
  <2> QED BY <1>1, <2>1, <2>2 DEF Waiting
<1>5. CASE Reload(u)
  <2>1. Coming = <<>> /\ updateMu = u /\ updater[u].outbox = <<>>
    BY <1>5, ReloadFields, ComingIs DEF UpdatesExclusive, OrderInv, OrderOf
  <2>2. Coming' = <<>>
    BY <1>5, <2>1, ReloadFields, ConstantTypes DEF Coming, PendingDelta
  <2> QED BY <1>1, <2>1, <2>2 DEF Waiting
<1>6. CASE ClearCache(u) \/ Schedule(u)
  <2>1. updateMu = u /\ updateMu' = u
    BY <1>6, ClearScheduleFields DEF UpdatesExclusive
  <2>2. PendingDelta(u)' = PendingDelta(u)
    BY <1>6, ClearScheduleFields DEF PendingDelta, Changed
  <2> QED BY <1>1, <2>1, <2>2 DEF Waiting, Coming
<1> QED BY <1>2, <1>3, <1>4, <1>5, <1>6

(* What a step does to what is on its way: the deltas stay; or one was     *)
(* dropped, and all connections are behind; or a repository was installed  *)
(* and the delta to it comes last.                                         *)
FlightStep ==
    \/ UNCHANGED <<cached, version, behind>> /\ SameDeltas(Waiting, Waiting')
    \/ UNCHANGED <<cached, version>> /\ \A c \in Conn : behind'[c]
    \/ /\ behind' = behind /\ version <= version'
       /\ \E extra \in Seq(Message) :
             /\ Waiting' = Waiting \o extra
             /\ \A m \in Elems(extra) : IsDelta(m) => m.to = version + 1
             /\ \A x \in Items : /\ LastGives(extra, x, cached')
                                 /\ AllSilent(extra, x) => Agree(x, cached, cached')

LEMMA InstallWaiting ==
    ASSUME TypeOK, UpdatesExclusive, OrderInv, NEW u \in Updater, Install(u)
    PROVE  FlightStep
<1> DEFINE new == updater[u].new
           d == DiffRepositories(new, cached)
           m == GraphDelta(d, updater[u].from, version')
           extra == IF ~IsEmpty(d) THEN <<m>> ELSE <<>>
<1>1. /\ updater[u].pc = "install" /\ updateMu = u /\ updater[u].old = cached
      /\ updater[u].outbox = <<>> /\ updater[u].from = version
      /\ new \in Repository /\ cached \in Repository /\ version \in Nat
  BY InstallFields, RecordOf, FlightTypes
     DEF UpdatesExclusive, OrderInv, OrderOf, UpdateRecord, TypeOK
<1>2. version' = version + IF IsEmpty(d) THEN 0 ELSE 1
  BY <1>1 DEF Install, Changed
<1>3. behind' = behind /\ broadcast' = broadcast /\ cached' = new
  BY DEF Install
<1>4. extra \in Seq(Message)
  <2>1. m \in Message
    BY <1>1, <1>2, DiffType DEF GraphDelta, Message
  <2> HIDE DEF m, d
  <2> QED BY <2>1
<1>5. Waiting' = Waiting \o extra
  <2>1. Coming = <<>>
    BY <1>1, ComingIs
  <2>2. /\ updater'[u].pc = "clear" /\ updater'[u].outbox = <<>> /\ updateMu' = u
        /\ updater'[u].from = updater[u].from /\ updater'[u].to = version'
        /\ updater'[u].new = new /\ updater'[u].old = cached
    BY <1>1, InstallFields
  <2>3. Changed(u)' = d
    BY <2>2 DEF Changed
  <2>4. Coming' = extra
    BY <2>2, <2>3, ConstantTypes DEF Coming, PendingDelta, GraphDelta
  <2>5. broadcast \in Seq(Message)
    BY FlightTypes
  <2> HIDE DEF extra
  <2> QED BY <1>3, <2>1, <2>4, <2>5, EmptySides DEF Waiting
<1>6. /\ \A y \in Elems(extra) : IsDelta(y) => y.to = version + 1
      /\ \A x \in Items : /\ LastGives(extra, x, new)
                          /\ AllSilent(extra, x) => Agree(x, cached, new)
  <2>1. CASE IsEmpty(d)
    <3>1. extra = <<>>
      BY <2>1
    <3>2. \A x \in Items : Agree(x, cached, new)
      BY <1>1, <2>1, EmptyDelta
    <3> HIDE DEF extra
    <3> QED BY <3>1, <3>2, LastOne, ElemsOne
  <2>2. CASE ~IsEmpty(d)
    <3>1. extra = <<m>> /\ m.to = version + 1
      BY <1>2, <2>2 DEF GraphDelta
    <3>2. IsDelta(m) /\ m.delta = d
      BY DEF IsDelta, GraphDelta
    <3>3. \A x \in Items : /\ Silent(m, x) <=> Agree(x, cached, new)
                           /\ Silent(m, x) \/ Gives(m, x, new)
      BY <1>1, <3>2, DeltaSpeaks
    <3> HIDE DEF extra, m
    <3> QED BY <3>1, <3>3, LastOne, ElemsOne
  <2> QED BY <2>1, <2>2
<1>7. version <= version'
  BY <1>1, <1>2
<1> HIDE DEF extra, new
<1> QED BY <1>3, <1>4, <1>5, <1>6, <1>7 DEF FlightStep

LEMMA ReadStatusWaiting ==
    ASSUME TypeOK, UpdatesExclusive, OrderInv, NEW u \in Updater, ReadStatus(u)
    PROVE  FlightStep
<1>1. /\ updater[u].pc = "status" /\ updateMu = u
      /\ UNCHANGED <<cached, broadcast, version, behind>>
  BY ReadStatusFields DEF UpdatesExclusive, ReadStatus, historyVars
<1>2. PICK st \in WorkingTreeStatus \cup {NoStatus} :
         \/ Messages(u, st) = <<>> /\ updateMu' = Nobody
         \/ /\ updater'[u].pc = "send" /\ updater'[u].outbox = Messages(u, st)
            /\ updateMu' = updateMu
  BY ReadStatusFields
<1>3. PICK rest \in Seq(Message) :
         Quiet(rest) /\ Messages(u, st) = FirstMessage(u) \o rest
  BY MessagesSplit
<1>4. Coming = FirstMessage(u) /\ FirstMessage(u) \in Seq(Message)
  BY <1>1, ComingIs, FirstMessageType
<1>5. Coming' = FirstMessage(u) \o rest
  BY <1>1, <1>2, <1>3, ConstantTypes DEF Coming, PendingDelta
<1> DEFINE a == broadcast \o FirstMessage(u)
<1>6. broadcast \in Seq(Message) /\ a \in Seq(Message)
  BY <1>4, FlightTypes, JoinedAt
<1>7. Waiting = a \o (<<>> \o <<>>)
  BY <1>4, <1>6, EmptySides DEF Waiting
<1>8. Waiting' = a \o (rest \o <<>>)
  <2>1. broadcast \o (FirstMessage(u) \o rest) = a \o rest
    BY <1>4, <1>6, ConcatAssociative
  <2> QED BY <1>1, <1>5, <2>1, EmptySides DEF Waiting
<1> HIDE DEF a
<1>9. SameDeltas(Waiting, Waiting')
  <2>1. <<>> \in Seq(Message) /\ Quiet(<<>>)
    BY ElemsOne, EmptySides
  <2>2. SameDeltas(a \o (<<>> \o <<>>), a \o (rest \o <<>>))
    BY <1>3, <1>6, <2>1, QuietBetween
  <2> QED BY <1>7, <1>8, <2>2
<1> QED BY <1>1, <1>9 DEF FlightStep

(* Between the channel and what waits behind it, a message goes in or is   *)
(* dropped; a graph delta that is dropped leaves all connections behind.   *)
LEMMA SendWaiting ==
    ASSUME TypeOK, UpdatesExclusive, OrderInv, NEW u \in Updater, Send(u)
    PROVE  FlightStep
<1> DEFINE h == Head(updater[u].outbox)
           s == <<h>>
           t == Tail(updater[u].outbox)
<1>1. /\ updater[u].pc = "send" /\ updateMu = u /\ h \in Message /\ s \in Seq(Message)
      /\ t \in Seq(Message) /\ updater[u].outbox = s \o t /\ broadcastUpdate(h)
      /\ UNCHANGED <<cached, version>>
      /\ \/ t = <<>> /\ updateMu' = Nobody
         \/ /\ updater'[u].pc = "send" /\ updater'[u].outbox = t /\ updateMu' = updateMu
  BY SendFields, HeadAndTail DEF UpdatesExclusive
<1> HIDE DEF t
<1>2. Coming = s \o t
  BY <1>1, ComingIs
<1>3. Coming' = t
  BY <1>1, ConstantTypes DEF Coming, PendingDelta
<1>4. broadcast \in Seq(Message)
  BY FlightTypes
<1> HIDE DEF h
<1>5. CASE broadcast' = broadcast \o s /\ behind' = behind
  <2>1. (broadcast \o s) \o t = broadcast \o (s \o t)
    BY <1>1, <1>4, ConcatAssociative
  <2>2. Waiting' = Waiting
    BY <1>2, <1>3, <1>5, <2>1 DEF Waiting
  <2> QED BY <1>1, <1>5, <2>2 DEF FlightStep, SameDeltas
<1>6. CASE broadcast' = broadcast /\ behind' = [c \in Conn |-> behind[c] \/ IsDelta(h)]
  <2>1. CASE IsDelta(h)
    BY <1>1, <1>6, <2>1 DEF FlightStep
  <2>2. CASE ~IsDelta(h)
    <3>1. behind' = behind
      BY <1>6, <2>2 DEF TypeOK
    <3>2. Quiet(s) /\ Quiet(<<>>) /\ <<>> \in Seq(Message) /\ <<>> \o t = t
      BY <1>1, <2>2, QuietOne, EmptySides
    <3>3. SameDeltas(broadcast \o (s \o t), broadcast \o (<<>> \o t))
      BY <1>1, <1>4, <3>2, QuietBetween
    <3>4. SameDeltas(Waiting, Waiting')
      BY <1>2, <1>3, <1>6, <3>2, <3>3 DEF Waiting
    <3> QED BY <1>1, <3>1, <3>4 DEF FlightStep
  <2> QED BY <2>1, <2>2
<1> QED BY <1>1, <1>5, <1>6, BroadcastJoin

LEMMA PollWaiting ==
    ASSUME TypeOK, PollSend
    PROVE  FlightStep
<1> DEFINE msg == StatusMessage(poller.last)
           s == <<msg>>
<1>1. msg \in Message /\ ~IsDelta(msg) /\ broadcastUpdate(msg)
  BY DEF PollSend, TypeOK, PollTypes, StatusMessage, Message, IsDelta
<1>2. UNCHANGED <<cached, updater, updateMu, version>>
  BY DEF PollSend, updateVars, cacheVars
<1>3. Coming' = Coming
  BY <1>2 DEF Coming, PendingDelta, Changed
<1> HIDE DEF msg
<1>4. broadcast \in Seq(Message) /\ Coming \in Seq(Message) /\ s \in Seq(Message)
  BY <1>1, FlightTypes
<1>5. /\ Quiet(s) /\ Quiet(<<>>) /\ <<>> \in Seq(Message) /\ <<>> \o Coming = Coming
  BY <1>1, <1>4, QuietOne, EmptySides
<1>6. behind' = behind
  <2>1. CASE behind' = [c \in Conn |-> behind[c] \/ IsDelta(msg)]
    BY <1>1, <2>1 DEF TypeOK
  <2> QED BY <1>1, <2>1, BroadcastJoin
<1>7. CASE broadcast' = broadcast
  BY <1>2, <1>3, <1>6, <1>7 DEF FlightStep, SameDeltas, Waiting
<1>8. CASE broadcast' = broadcast \o s
  <2>1. (broadcast \o s) \o Coming = broadcast \o (s \o Coming)
    BY <1>4, ConcatAssociative
  <2>2. SameDeltas(broadcast \o (<<>> \o Coming), broadcast \o (s \o Coming))
    BY <1>4, <1>5, QuietBetween
  <2>3. Waiting = broadcast \o (<<>> \o Coming) /\ Waiting' = broadcast \o (s \o Coming)
    BY <1>3, <1>5, <1>8, <2>1 DEF Waiting
  <2> QED BY <1>2, <1>6, <2>2, <2>3 DEF FlightStep
<1> QED BY <1>1, <1>7, <1>8, BroadcastJoin

-----------------------------------------------------------------------------
LEMMA FlightTypesNext == TypeOK' => (Waiting \in Seq(Message) /\ cached \in Repository)'
<1>1. TypeOK => Waiting \in Seq(Message) /\ cached \in Repository
  BY FlightTypes
<1> QED BY <1>1, PTL

(* The graph a connection holds, before and after what is on its way and   *)
(* the cached repository change.                                           *)
LEMMA FlightReaches ==
    ASSUME TypeOK, TypeOK', FlightStep, NEW c \in Conn, ~behind'[c],
           NEW own, NEW g, NEW n \in Nat, n <= version + 1,
           Reaches(own, Waiting, g, n, cached)
    PROVE  Reaches(own, Waiting', g, n, cached')
<1>1. CASE UNCHANGED <<cached, version, behind>> /\ SameDeltas(Waiting, Waiting')
  <2> DEFINE later == Waiting'
  <2>1. \A x, k : SilentFrom(Waiting, x, k) <=> SilentFrom(later, x, k)
    BY <1>1, SameSilent
  <2> QED BY <1>1, <2>1 DEF Reaches
<1>2. CASE /\ behind' = behind /\ version <= version'
           /\ \E extra \in Seq(Message) :
                 /\ Waiting' = Waiting \o extra
                 /\ \A m \in Elems(extra) : IsDelta(m) => m.to = version + 1
                 /\ \A x \in Items : /\ LastGives(extra, x, cached')
                                     /\ AllSilent(extra, x) => Agree(x, cached, cached')
  <2>1. PICK extra \in Seq(Message) :
           /\ Waiting' = Waiting \o extra
           /\ \A m \in Elems(extra) : IsDelta(m) => m.to = version + 1
           /\ \A x \in Items : /\ LastGives(extra, x, cached')
                               /\ AllSilent(extra, x) => Agree(x, cached, cached')
    BY <1>2
  <2>2. Waiting \in Seq(Message)
    BY FlightTypes
  <2> SUFFICES ASSUME NEW x \in Items, SilentFrom(own, x, n), SilentFrom(Waiting', x, n)
               PROVE  Agree(x, g, cached')
    BY DEF Reaches
  <2>3. SilentFrom(Waiting, x, n) /\ SilentFrom(extra, x, n)
    BY <2>1, <2>2, SilentJoin
  <2>4. AllSilent(extra, x)
    BY <2>1, <2>3 DEF AllSilent, SilentFrom, Silent
  <2>5. Agree(x, g, cached) /\ Agree(x, cached, cached')
    BY <2>1, <2>3, <2>4 DEF Reaches
  <2> QED BY <2>5, AgreeEquivalence
<1> QED BY <1>1, <1>2 DEF FlightStep

LEMMA FlightLast ==
    ASSUME TypeOK, TypeOK', FlightStep, NEW c \in Conn, ~behind'[c],
           NEW s \in Seq(Message), NEW x \in Items, LastGives(s \o Waiting, x, cached)
    PROVE  LastGives(s \o Waiting', x, cached')
<1> DEFINE later == Waiting'
<1>1. Waiting \in Seq(Message) /\ later \in Seq(Message)
  BY FlightTypes, FlightTypesNext
<1>2. LastGives(Waiting, x, cached) /\ (AllSilent(Waiting, x) => LastGives(s, x, cached))
  BY <1>1, LastJoin
<1>3. CASE UNCHANGED <<cached, version, behind>> /\ SameDeltas(Waiting, Waiting')
  <2>1. /\ LastGives(Waiting, x, cached) <=> LastGives(later, x, cached)
        /\ AllSilent(Waiting, x) <=> AllSilent(later, x)
    BY <1>3, SameSilent DEF SameDeltas
  <2> HIDE DEF later
  <2>2. LastGives(s \o later, x, cached)
    BY <1>1, <1>2, <2>1, LastJoin
  <2> QED BY <1>3, <2>2 DEF later
<1>4. CASE /\ behind' = behind /\ version <= version'
           /\ \E extra \in Seq(Message) :
                 /\ Waiting' = Waiting \o extra
                 /\ \A m \in Elems(extra) : IsDelta(m) => m.to = version + 1
                 /\ \A y \in Items : /\ LastGives(extra, y, cached')
                                     /\ AllSilent(extra, y) => Agree(y, cached, cached')
  <2>1. PICK extra \in Seq(Message) :
           /\ later = Waiting \o extra /\ LastGives(extra, x, cached')
           /\ AllSilent(extra, x) => Agree(x, cached, cached')
    BY <1>4
  <2>2. LastGives(s \o Waiting, x, cached) /\ s \o Waiting \in Seq(Message)
    BY <1>1, JoinedAt
  <2>3. AllSilent(extra, x) => LastGives(s \o Waiting, x, cached')
    BY <2>1, <2>2, LastAgree
  <2>4. LastGives((s \o Waiting) \o extra, x, cached')
    BY <2>1, <2>2, <2>3, LastJoin
  <2>5. (s \o Waiting) \o extra = s \o later
    BY <1>1, <2>1, ConcatAssociative
  <2> QED BY <2>4, <2>5
<1> QED BY <1>3, <1>4 DEF FlightStep

(* The steps of updates and of the poll leave the connections alone.       *)
LEMMA FlightCatchUp ==
    ASSUME TypeOK, TypeOK', CatchUpInv, FlightStep, UNCHANGED <<sender, conn, view>>
    PROVE  CatchUpInv'
<1>1. ASSUME NEW c \in Conn PROVE ~behind'[c] => ~behind[c]
  BY DEF FlightStep
<1>2. version \in Nat /\ version' \in Nat /\ version <= version'
  BY DEF TypeOK, FlightStep
<1>3. Sending' = Sending /\ \A c \in Conn : Own(c)' = Own(c)
  BY DEF Sending, Own
<1>4. ASSUME NEW c \in Conn, ~behind'[c], NEW x \in Items
      PROVE  LastGives(Sending' \o Waiting', x, cached')
  <2>1. LastGives(Sending \o Waiting, x, cached) /\ Sending \in Seq(Message)
    BY <1>1, <1>4, FlightTypes DEF CatchUpInv
  <2>2. LastGives(Sending \o Waiting', x, cached')
    BY <1>4, <2>1, FlightLast
  <2> QED BY <1>3, <2>2
<1>5. ASSUME NEW c \in Conn PROVE ConnOf(c)'
  <2>1. ConnOf(c) /\ conn[c].seen \in Nat /\ conn' = conn /\ view' = view /\ sender' = sender
    BY DEF CatchUpInv, TypeOK, ConnTypes
  <2>2. conn'[c].seen <= version'
    BY <1>2, <2>1 DEF ConnOf
  <2>3. ASSUME ~behind'[c], conn[c].pc \in {"chunks", "status", "head", "register"}
        PROVE  Reaches(Own(c)', Waiting', conn[c].repo, conn[c].seen + 1, cached')
    <3>1. Reaches(Own(c), Waiting, conn[c].repo, conn[c].seen + 1, cached)
      BY <1>1, <2>1, <2>3 DEF ConnOf, CatchesUp
    <3>2. conn[c].seen + 1 \in Nat /\ conn[c].seen + 1 <= version + 1
      BY <1>2, <2>1 DEF ConnOf
    <3>3. Reaches(Own(c), Waiting', conn[c].repo, conn[c].seen + 1, cached')
      BY <2>3, <3>1, <3>2, FlightReaches
    <3> QED BY <1>3, <3>3
  <2>4. ASSUME ~behind'[c], conn[c].pc = "open", c \notin sender.failed
        PROVE  Reaches(Own(c)', Waiting', view[c].graph, 0, cached')
    <3>1. Reaches(Own(c), Waiting, view[c].graph, 0, cached)
      BY <1>1, <2>1, <2>4 DEF ConnOf, CatchesUp
    <3>2. 0 \in Nat /\ 0 <= version + 1
      BY <1>2
    <3>3. Reaches(Own(c), Waiting', view[c].graph, 0, cached')
      BY <2>4, <3>1, <3>2, FlightReaches
    <3> QED BY <1>3, <3>3
  <2> QED BY <2>1, <2>2, <2>3, <2>4 DEF ConnOf, CatchesUp
<1> QED BY <1>4, <1>5 DEF CatchUpInv

-----------------------------------------------------------------------------
(* The broadcaster.                                                        *)
LEMMA SilentOne ==
    ASSUME NEW m, NEW x, NEW n
    PROVE  /\ SilentFrom(<<m>>, x, n) <=> (IsDelta(m) /\ n <= m.to => Silent(m, x))
           /\ SilentFrom(<<>>, x, n)
BY ElemsOne DEF SilentFrom

LEMMA ComingKept ==
    ASSUME UNCHANGED updateVars
    PROVE  Coming' = Coming
BY DEF updateVars, Coming, PendingDelta, Changed

LEMMA TakeCatchUp ==
    ASSUME TypeOK, CatchUpInv, Take
    PROVE  CatchUpInv'
<1> DEFINE h == Head(broadcast)
           s == <<h>>
           t == Tail(broadcast)
           later == t \o Coming
<1>1. /\ h \in Message /\ s \in Seq(Message) /\ t \in Seq(Message) /\ broadcast = s \o t
      /\ Coming \in Seq(Message)
  BY HeadAndTail, FlightTypes DEF Take
<1>2. /\ sender.pc = "idle" /\ sender'.pc = "copy" /\ sender'.msg = h
      /\ sender'.to = sender.to /\ sender'.failed = sender.failed
      /\ broadcast' = t /\ UNCHANGED <<cached, updateVars, conn, view, version, behind>>
  BY DEF Take, TypeOK, SendTypes, cacheVars, connVars, historyVars
<1>3. Waiting' = later
  BY <1>2, ComingKept DEF Waiting
<1> HIDE DEF h, t
<1>4. later \in Seq(Message) /\ Waiting = s \o later
  BY <1>1, JoinedAt, ConcatAssociative DEF Waiting
<1>5. /\ Sending = <<>> /\ Sending' = s /\ Sending \o Waiting = Waiting
      /\ \A c \in Conn : Own(c) = <<>> /\ Own(c)' = s
  BY <1>2, FlightTypes, EmptySides DEF Sending, Own
<1> HIDE DEF later, s
<1>6. Sending' \o Waiting' = Sending \o Waiting
  BY <1>3, <1>4, <1>5
<1>7. \A x, n : /\ SilentFrom(<<>>, x, n)
                /\ SilentFrom(Waiting, x, n) <=> SilentFrom(s, x, n) /\ SilentFrom(later, x, n)
  BY <1>1, <1>4, SilentJoin, SilentOne
<1>8. ASSUME NEW g, NEW n, Reaches(<<>>, Waiting, g, n, cached)
      PROVE  Reaches(s, later, g, n, cached)
  BY <1>7, <1>8 DEF Reaches
<1>9. ASSUME NEW c \in Conn PROVE ConnOf(c)'
  <2>1. ConnOf(c)
    BY DEF CatchUpInv
  <2> QED BY <1>2, <1>3, <1>5, <1>8, <2>1 DEF ConnOf, CatchesUp
<1> QED BY <1>2, <1>6, <1>9 DEF CatchUpInv

(* A connection that is not in the copy of the clients map misses a delta  *)
(* newer than its bootstrap; an older one is in the bootstrap.             *)
LEMMA CopyCatchUp ==
    ASSUME TypeOK, CatchUpInv, CopyClients
    PROVE  CatchUpInv'
<1>1. /\ sender.pc = "copy" /\ sender'.pc = "write" /\ sender'.msg = sender.msg
      /\ sender'.to = clients /\ sender'.failed = sender.failed
      /\ behind' = [c \in Conn |-> behind[c] \/ (c \notin clients /\ Misses(c, sender.msg))]
      /\ UNCHANGED <<cached, updateVars, broadcast, conn, view, version>>
  BY DEF CopyClients, TypeOK, SendTypes, cacheVars, connVars
<1>2. Waiting' = Waiting /\ Sending' = Sending
  BY <1>1, ComingKept DEF Waiting, Sending
<1>3. \A c \in Conn : /\ Own(c) = <<sender.msg>>
                      /\ Own(c)' = IF c \in clients THEN <<sender.msg>> ELSE <<>>
  BY <1>1 DEF Own
<1>4. ASSUME NEW c \in Conn
      PROVE  ~behind'[c] => ~behind[c] /\ (c \in clients \/ ~Misses(c, sender.msg))
  BY <1>1
<1>5. sender.msg \in Message /\ clients = {c \in Conn : conn[c].pc \in {"open", "gone"}}
  BY <1>1 DEF TypeOK, SendTypes, ConnTypes
<1>6. ASSUME NEW c \in Conn PROVE ConnOf(c)'
  <2>1. ConnOf(c)
    BY DEF CatchUpInv
  <2>2. ASSUME ~behind'[c], conn[c].pc \in {"chunks", "status", "head", "register"}
        PROVE  Reaches(Own(c)', Waiting', conn[c].repo, conn[c].seen + 1, cached')
    <3>1. Reaches(<<sender.msg>>, Waiting, conn[c].repo, conn[c].seen + 1, cached)
      BY <1>3, <1>4, <2>1, <2>2 DEF ConnOf, CatchesUp
    <3>2. Own(c)' = <<>> /\ ~Misses(c, sender.msg)
      BY <1>3, <1>4, <1>5, <2>2
    <3>3. IsDelta(sender.msg) => ~(conn[c].seen + 1 <= sender.msg.to)
      <4>1. IsDelta(sender.msg) => ~(conn[c].seen < sender.msg.to)
        BY <2>2, <3>2 DEF Misses, Bootstrapped, IsDelta
      <4>2. conn[c].seen \in Nat /\ (IsDelta(sender.msg) => sender.msg.to \in Nat)
        BY <1>5, DeltaMessage DEF TypeOK, ConnTypes
      <4> QED BY <4>1, <4>2
    <3>4. \A x : SilentFrom(<<sender.msg>>, x, conn[c].seen + 1)
      BY <3>3, SilentOne
    <3> QED BY <1>1, <1>2, <3>1, <3>2, <3>4 DEF Reaches
  <2>3. ASSUME ~behind'[c], conn[c].pc = "open", c \notin sender.failed
        PROVE  Reaches(Own(c)', Waiting', view[c].graph, 0, cached')
    <3>1. Own(c)' = Own(c)
      BY <1>3, <1>5, <2>3
    <3> QED BY <1>1, <1>2, <1>4, <2>1, <2>3, <3>1 DEF ConnOf, CatchesUp
  <2> QED BY <1>1, <1>5, <2>1, <2>2, <2>3 DEF ConnOf, CatchesUp
<1>7. ASSUME NEW c \in Conn, ~behind'[c], NEW x \in Items
      PROVE  LastGives(Sending' \o Waiting', x, cached')
  BY <1>1, <1>2, <1>4, <1>7 DEF CatchUpInv
<1> QED BY <1>6, <1>7 DEF CatchUpInv

(* The message a client is sent: it is silent of an item, or says of it    *)
(* what the last message on its way says, or another one follows that      *)
(* speaks of the item.                                                     *)
LEMMA WriteReaches ==
    ASSUME TypeOK, CatchUpInv, NEW c \in Conn, Write(c), ~behind[c], c \notin sender.failed
    PROVE  Reaches(<<>>, Waiting, view'[c].graph, 0, cached)
<1> DEFINE m == sender.msg
           g == view[c].graph
<1>1. /\ sender.pc = "write" /\ c \in sender.to /\ conn[c].pc = "open" /\ m \in Message
      /\ view' = [view EXCEPT ![c] = Deliver(view[c], m)] /\ view[c] \in View
  BY DEF Write, TypeOK, SendTypes, ConnTypes, View
<1>2. g \in Graph /\ view'[c] = Deliver(view[c], m)
  BY <1>1 DEF TypeOK, ConnTypes, View
<1>3. /\ <<m>> \in Seq(Message) /\ Waiting \in Seq(Message)
      /\ Own(c) = <<m>> /\ Sending = <<m>>
  BY <1>1, FlightTypes DEF Own, Sending
<1>4. SameGraph(view'[c].graph, Apply(g, m))
  <2>1. CASE m.type = "graphDelta"
    BY <1>1, <1>2, <2>1 DEF Deliver, Apply, IsDelta, SameGraph, View
  <2>2. CASE m.type = "status"
    BY <1>1, <1>2, <2>2 DEF Deliver, Apply, IsDelta, SameGraph, View
  <2>3. CASE m.type = "head"
    <3>1. Deliver(view[c], m) = [[view[c] EXCEPT !.head = m.head] EXCEPT
                                    !.graph = [g EXCEPT !.head = m.head.hash]]
      BY <1>1, <2>3 DEF Deliver, View
    <3>2. view'[c].graph = [g EXCEPT !.head = m.head.hash]
      BY <1>1, <1>2, <3>1 DEF View
    <3>3. /\ [g EXCEPT !.head = m.head.hash].commits = g.commits
          /\ [g EXCEPT !.head = m.head.hash].branches = g.branches
      BY <1>2 DEF Graph
    <3> QED BY <2>3, <3>2, <3>3 DEF Apply, IsDelta, SameGraph
  <2> QED BY <1>1, <2>1, <2>2, <2>3 DEF Message
<1>5. Reaches(<<m>>, Waiting, g, 0, cached)
  BY <1>1, <1>3 DEF CatchUpInv, ConnOf, CatchesUp
<1> HIDE DEF m, g
<1> SUFFICES ASSUME NEW x \in Items, SilentFrom(Waiting, x, 0)
             PROVE  Agree(x, view'[c].graph, cached)
  BY DEF Reaches
<1>6. LastGives(<<m>> \o Waiting, x, cached)
  BY <1>3 DEF CatchUpInv
<1>7. Silent(m, x) \/ Gives(m, x, cached)
  BY <1>3, <1>6, LastJoin, LastOne, SilentAll
<1>8. Agree(x, Apply(g, m), cached)
  <2>1. /\ Silent(m, x) => Agree(x, Apply(g, m), g)
        /\ Gives(m, x, cached) => Agree(x, Apply(g, m), cached)
    BY <1>1, <1>2, ApplyGraph
  <2>2. Silent(m, x) => Agree(x, g, cached)
    BY <1>5, SilentOne DEF Reaches
  <2> QED BY <1>7, <2>1, <2>2, AgreeEquivalence
<1>9. Agree(x, view'[c].graph, Apply(g, m))
  BY <1>4, AgreeOnItems
<1> QED BY <1>8, <1>9, AgreeEquivalence

LEMMA WriteCatchUp ==
    ASSUME TypeOK, CatchUpInv, NEW c \in Conn, Write(c) \/ WriteFails(c)
    PROVE  CatchUpInv'
<1>1. /\ sender.pc = "write" /\ c \in sender.to /\ sender'.pc = "write"
      /\ sender'.msg = sender.msg /\ sender'.to = sender.to \ {c}
      /\ sender'.failed \in {sender.failed, sender.failed \cup {c}}
      /\ WriteFails(c) => c \in sender'.failed
      /\ UNCHANGED <<cached, updateVars, broadcast, conn, version, behind>>
  BY DEF Write, WriteFails, TypeOK, SendTypes, cacheVars, connVars, historyVars
<1>2. Waiting' = Waiting /\ Sending' = Sending
  BY <1>1, ComingKept DEF Waiting, Sending
<1>3. \A d \in Conn \ {c} : Own(d)' = Own(d) /\ view'[d] = view[d]
  BY <1>1 DEF Own, Write, WriteFails, connVars, TypeOK, ConnTypes
<1>4. Own(c)' = <<>>
  BY <1>1 DEF Own
<1>5. ConnOf(c)'
  <2>1. ConnOf(c) /\ conn[c].pc \in {"open", "gone", "closed"}
    BY <1>1 DEF CatchUpInv, ConnOf
  <2>2. CASE Write(c)
    <3>1. ~behind[c] /\ c \notin sender'.failed => Reaches(<<>>, Waiting, view'[c].graph, 0, cached)
      BY <1>1, <2>2, WriteReaches
    <3> QED BY <1>1, <1>2, <1>4, <2>1, <3>1 DEF ConnOf, CatchesUp
  <2>3. CASE WriteFails(c)
    BY <1>1, <2>1, <2>3 DEF ConnOf
  <2> QED BY <2>2, <2>3
<1>6. ASSUME NEW d \in Conn, d # c PROVE ConnOf(d)'
  <2>1. ConnOf(d) /\ Own(d)' = Own(d) /\ view'[d] = view[d]
    BY <1>3, <1>6 DEF CatchUpInv
  <2>2. d \in sender'.to => d \in sender.to
    BY <1>1
  <2>3. d \notin sender'.failed => d \notin sender.failed
    BY <1>1
  <2> QED BY <1>1, <1>2, <2>1, <2>2, <2>3 DEF ConnOf, CatchesUp
<1> QED BY <1>1, <1>2, <1>5, <1>6 DEF CatchUpInv

LEMMA FinishCatchUp ==
    ASSUME TypeOK, CatchUpInv, FinishSend
    PROVE  CatchUpInv'
<1>1. /\ sender.pc = "write" /\ sender.to = {} /\ sender' = IdleSender
      /\ \A c \in Conn : conn'[c] = IF c \in sender.failed
                                    THEN [NewConn EXCEPT !.pc = "closed"] ELSE conn[c]
      /\ UNCHANGED <<cached, updateVars, broadcast, view, version, behind>>
  BY DEF FinishSend, cacheVars, historyVars
<1>2. Waiting' = Waiting /\ Sending' = <<>> /\ Waiting \in Seq(Message) /\ Sending \in Seq(Message)
  BY <1>1, ComingKept, FlightTypes DEF Waiting, Sending, IdleSender
<1>3. \A c \in Conn : Own(c) = <<>> /\ Own(c)' = <<>>
  BY <1>1 DEF Own, IdleSender
<1>4. ASSUME NEW c \in Conn PROVE ConnOf(c)'
  <2>1. ConnOf(c) /\ version \in Nat
    BY DEF CatchUpInv, TypeOK
  <2>2. CASE c \in sender.failed
    <3>1. conn'[c].pc = "closed" /\ conn'[c].seen = 0
      BY <1>1, <2>2 DEF NewConn
    <3> QED BY <1>1, <2>1, <3>1 DEF ConnOf
  <2>3. CASE c \notin sender.failed
    <3>1. conn'[c] = conn[c] /\ sender'.to = {}
      BY <1>1, <2>3 DEF IdleSender
    <3> QED BY <1>1, <1>2, <1>3, <2>1, <2>3, <3>1 DEF ConnOf, CatchesUp
  <2> QED BY <2>2, <2>3
<1>5. ASSUME NEW c \in Conn, ~behind'[c], NEW x \in Items
      PROVE  LastGives(Sending' \o Waiting', x, cached')
  <2>1. LastGives(Sending \o Waiting, x, cached)
    BY <1>1, <1>5 DEF CatchUpInv
  <2>2. LastGives(Waiting, x, cached)
    BY <1>2, <2>1, LastJoin
  <2> QED BY <1>1, <1>2, <2>2, EmptySides
<1> QED BY <1>4, <1>5 DEF CatchUpInv

-----------------------------------------------------------------------------
(* The connections. What is on its way stays.                              *)
LEMMA FlightKept ==
    ASSUME UNCHANGED <<cached, updateVars, broadcast, sender, version, behind>>
    PROVE  /\ Waiting' = Waiting /\ Sending' = Sending
           /\ \A c \in Conn : Own(c)' = Own(c)
BY ComingKept DEF Waiting, Sending, Own

(* A step of one connection's thread.                                      *)
ConnStep(c) ==
    /\ UNCHANGED <<cached, updateVars, broadcast, sender, version, behind>>
    /\ \A d \in Conn \ {c} : conn'[d] = conn[d] /\ view'[d] = view[d]

LEMMA ConnCatchUp ==
    ASSUME CatchUpInv, NEW c \in Conn, ConnStep(c), ConnOf(c)'
    PROVE  CatchUpInv'
<1>1. /\ Waiting' = Waiting /\ Sending' = Sending
      /\ \A d \in Conn : Own(d)' = Own(d)
  BY FlightKept DEF ConnStep
<1>2. ASSUME NEW d \in Conn, d # c PROVE ConnOf(d)'
  <2>1. ConnOf(d) /\ conn'[d] = conn[d] /\ view'[d] = view[d]
    BY <1>2 DEF CatchUpInv, ConnStep
  <2> QED BY <1>1, <2>1 DEF ConnStep, ConnOf, CatchesUp
<1> QED BY <1>1, <1>2 DEF CatchUpInv, ConnStep

(* A bootstrap against the empty repository shows what it was made from.   *)
LEMMA BootstrapShows ==
    ASSUME NEW repo \in Repository
    PROVE  SameGraph(applyDelta(GraphOf(EmptyRepository),
                                DiffRepositories(repo, EmptyRepository)), repo)
<1> DEFINE empty == EmptyRepository
           g == GraphOf(empty)
           d == DiffRepositories(repo, empty)
           m == GraphDelta(d, 0, 0)
           h == applyDelta(g, d)
<1>1. empty \in Repository /\ g \in Graph /\ \A x \in Items : Agree(x, g, empty)
  BY EmptyTypes, GraphOfGraph
<1>2. h \in Graph
  BY <1>1, DiffType, ApplyType
<1>3. IsDelta(m) /\ m.delta = d
  BY DEF IsDelta, GraphDelta
<1>4. ASSUME NEW x \in Items PROVE Agree(x, h, repo)
  <2> HIDE DEF m, d
  <2>1. CASE Silent(m, x)
    <3>1. Agree(x, h, g)
      BY <1>1, <1>3, <2>1 DEF Silent
    <3>2. Agree(x, empty, repo)
      BY <1>1, <1>3, <2>1, DeltaSpeaks DEF d
    <3> HIDE DEF h, g
    <3> QED BY <1>1, <3>1, <3>2, AgreeEquivalence
  <2>2. CASE ~Silent(m, x)
    <3>1. Gives(m, x, repo)
      BY <1>1, <1>3, <2>2, DeltaSpeaks DEF d
    <3> QED BY <1>1, <1>3, <3>1 DEF Gives
  <2> QED BY <2>1, <2>2
<1> HIDE DEF h
<1>5. SameGraph(h, repo)
  BY <1>2, <1>4, ItemsAgree
<1> QED BY <1>5 DEF h

LEMMA StepFields ==
    ASSUME TypeOK, NEW c \in Conn, NEW from, NEW to, Step(c, from, to)
    PROVE  /\ conn[c].pc = from /\ conn'[c].pc = to
           /\ conn'[c].repo = conn[c].repo /\ conn'[c].seen = conn[c].seen
           /\ \A d \in Conn \ {c} : conn'[d] = conn[d]
           /\ UNCHANGED <<cached, updateVars, broadcast, sender, version, behind>>
BY DEF Step, TypeOK, ConnTypes, cacheVars, historyVars

LEMMA HandshakeCatchUp ==
    ASSUME TypeOK, CatchUpInv, NEW c \in Conn,
           SendSummary(c) \/ SendChunks(c) \/ SendStatus(c) \/ SendHead(c)
    PROVE  CatchUpInv'
<1>1. PICK from \in ConnPC, to \in ConnPC : Step(c, from, to)
  BY DEF SendSummary, SendChunks, SendStatus, SendHead, ConnPC
<1>2. /\ conn[c].pc = from /\ conn'[c].pc = to
      /\ conn'[c].repo = conn[c].repo /\ conn'[c].seen = conn[c].seen
      /\ \A d \in Conn \ {c} : conn'[d] = conn[d]
      /\ UNCHANGED <<cached, updateVars, broadcast, sender, version, behind>>
  BY <1>1, StepFields
<1>3. view \in [Conn -> View] /\ conn[c].repo \in Repository
  BY DEF TypeOK, ConnTypes, View
<1>4. \A d \in Conn \ {c} : view'[d] = view[d]
  BY <1>3 DEF SendSummary, SendChunks, SendStatus, SendHead
<1>5. ConnStep(c)
  BY <1>2, <1>4 DEF ConnStep
<1>6. Waiting' = Waiting /\ Own(c)' = Own(c) /\ ConnOf(c)
  BY <1>2, FlightKept DEF CatchUpInv
<1>7. CASE SendSummary(c)
  <2>1. from = "summary" /\ to = "bootstrap"
    BY <1>2, <1>7, StepFields DEF SendSummary
  <2>2. view'[c].graph = GraphOf(EmptyRepository)
    BY <1>3, <1>7 DEF SendSummary, BlankView
  <2> QED BY <1>2, <1>5, <1>6, <2>1, <2>2, ConnCatchUp DEF ConnOf
<1>8. CASE SendChunks(c)
  <2>1. from = "chunks" /\ to = "status"
    BY <1>2, <1>8, StepFields DEF SendChunks
  <2>2. view'[c].graph = applyDelta(view[c].graph,
                                    DiffRepositories(conn[c].repo, EmptyRepository))
    BY <1>3, <1>8 DEF SendChunks, View
  <2>3. SameGraph(view'[c].graph, conn[c].repo)
    BY <1>2, <1>3, <1>6, <2>1, <2>2, BootstrapShows DEF ConnOf
  <2> QED BY <1>2, <1>5, <1>6, <2>1, <2>3, ConnCatchUp DEF ConnOf, CatchesUp
<1>9. CASE SendStatus(c)
  <2>1. from = "status" /\ to = "head"
    BY <1>2, <1>9, StepFields DEF SendStatus
  <2>2. view'[c].graph = view[c].graph
    BY <1>3, <1>9 DEF SendStatus, View
  <2> QED BY <1>2, <1>5, <1>6, <2>1, <2>2, ConnCatchUp DEF ConnOf, CatchesUp
<1>10. CASE SendHead(c)
  <2>1. from = "head" /\ to = "register"
    BY <1>2, <1>10, StepFields DEF SendHead
  <2> DEFINE msg == HeadMessage(conn[c].repo)
             g == view[c].graph
  <2>2. view'[c] = Deliver(view[c], msg) /\ view[c] \in View /\ msg.type = "head"
    BY <1>3, <1>10 DEF SendHead, HeadMessage
  <2> HIDE DEF msg
  <2>3. Deliver(view[c], msg) = [[view[c] EXCEPT !.head = msg.head] EXCEPT
                                    !.graph = [g EXCEPT !.head = msg.head.hash]]
    BY <2>2 DEF Deliver, View
  <2>4. view'[c].graph = [g EXCEPT !.head = msg.head.hash]
    BY <2>2, <2>3 DEF View
  <2>5. SameGraph(view'[c].graph, conn[c].repo)
    BY <1>2, <1>6, <2>1, <2>2, <2>4 DEF ConnOf, SameGraph, View, Graph
  <2> QED BY <1>2, <1>5, <1>6, <2>1, <2>5, ConnCatchUp DEF ConnOf, CatchesUp
<1> QED BY <1>7, <1>8, <1>9, <1>10

(* The steps that read the repository, register the connection and end it. *)
LEMMA ReadCatchUp ==
    ASSUME TypeOK, CatchUpInv, NEW c \in Conn, Accept(c) \/ ReadBootstrap(c)
    PROVE  CatchUpInv'
<1>1. /\ conn'[c] \in [pc : {"summary", "chunks"}, repo : {cached}, seen : {0, version}]
      /\ Accept(c) => conn[c].pc = "new" /\ conn'[c].pc = "summary"
      /\ ReadBootstrap(c) => /\ conn[c].pc = "bootstrap" /\ conn'[c].pc = "chunks"
                             /\ conn'[c].seen = version
      /\ \A d \in Conn \ {c} : conn'[d] = conn[d]
      /\ UNCHANGED <<cached, updateVars, broadcast, sender, view, version, behind>>
  BY DEF Accept, ReadBootstrap, TypeOK, ConnTypes, cacheVars, historyVars
<1>2. ConnOf(c) /\ version \in Nat /\ cached' = cached
  BY <1>1 DEF CatchUpInv, TypeOK
<1>3. ConnStep(c)
  BY <1>1 DEF ConnStep
<1>4. conn'[c].seen <= version'
  BY <1>1, <1>2
<1>5. \A x \in Items : Agree(x, cached, cached)
  BY AgreeEquivalence
<1>6. Reaches(Own(c)', Waiting', conn'[c].repo, conn'[c].seen + 1, cached')
  BY <1>1, <1>2, <1>5 DEF Reaches
<1>7. ConnOf(c)'
  BY <1>1, <1>2, <1>4, <1>6 DEF ConnOf, CatchesUp
<1> QED BY <1>3, <1>7, ConnCatchUp

LEMMA RegisterCatchUp ==
    ASSUME TypeOK, CatchUpInv, NEW c \in Conn, registerClient(c) \/ Leave(c)
    PROVE  CatchUpInv'
<1>1. PICK from \in ConnPC, to \in {"open", "gone", "closed"} :
         /\ Step(c, from, to)
         /\ to = "open" => from = "register"
         /\ to = "gone" => from = "open"
  BY DEF registerClient, Leave, HandshakeFails, PeerLeaves, removeClient, ConnPC
<1>2. /\ conn[c].pc = from /\ conn'[c].pc = to
      /\ conn'[c].repo = conn[c].repo /\ conn'[c].seen = conn[c].seen
      /\ \A d \in Conn \ {c} : conn'[d] = conn[d]
      /\ UNCHANGED <<cached, updateVars, broadcast, sender, version, behind>>
  BY <1>1, StepFields
<1>3. view' = view
  BY DEF registerClient, Leave, HandshakeFails, PeerLeaves, removeClient
<1>4. ConnStep(c)
  BY <1>2, <1>3 DEF ConnStep
<1>5. Waiting' = Waiting /\ Own(c)' = Own(c) /\ ConnOf(c)
  BY <1>2, FlightKept DEF CatchUpInv
<1>6. ASSUME ~behind[c], to = "open"
      PROVE  Reaches(Own(c), Waiting, view[c].graph, 0, cached)
  <2> DEFINE n == conn[c].seen + 1
  <2>1. SameGraph(view[c].graph, conn[c].repo) /\ Reaches(Own(c), Waiting, conn[c].repo, n, cached)
    BY <1>1, <1>2, <1>5, <1>6 DEF ConnOf, CatchesUp
  <2> SUFFICES ASSUME NEW x \in Items, SilentFrom(Own(c), x, 0), SilentFrom(Waiting, x, 0)
               PROVE  Agree(x, view[c].graph, cached)
    BY DEF Reaches
  <2>2. Own(c) \in Seq(Message) /\ Waiting \in Seq(Message)
    BY FlightTypes
  <2>3. SilentFrom(Own(c), x, n) /\ SilentFrom(Waiting, x, n)
    <3>1. AllSilent(Own(c), x) /\ AllSilent(Waiting, x)
      BY <2>2, SilentAll
    <3> QED BY <3>1 DEF AllSilent, SilentFrom
  <2>4. Agree(x, conn[c].repo, cached) /\ Agree(x, view[c].graph, conn[c].repo)
    BY <2>1, <2>3, AgreeOnItems DEF Reaches
  <2> QED BY <2>4, AgreeEquivalence
<1>7. ConnOf(c)'
  BY <1>1, <1>2, <1>3, <1>5, <1>6 DEF ConnOf, CatchesUp
<1> QED BY <1>4, <1>7, ConnCatchUp

-----------------------------------------------------------------------------
LEMMA InitCatchUp == Init => CatchUpInv
<1> SUFFICES ASSUME Init PROVE CatchUpInv
  OBVIOUS
<1>1. /\ broadcast = <<>> /\ updateMu = Nobody /\ sender = IdleSender /\ version = 0
      /\ conn = [c \in Conn |-> NewConn]
  BY DEF Init
<1>2. Sending \o Waiting = <<>>
  <2>1. Sending = <<>> /\ Waiting = <<>> \o <<>>
    BY <1>1 DEF Sending, IdleSender, Waiting, Coming
  <2>2. <<>> \in Seq(Message) /\ <<>> \o <<>> = <<>>
    BY EmptySides
  <2> QED BY <2>1, <2>2
<1>3. \A c \in Conn : ConnOf(c)
  <2> SUFFICES ASSUME NEW c \in Conn PROVE ConnOf(c)
    OBVIOUS
  <2>1. conn[c].pc = "new" /\ conn[c].seen = 0 /\ sender.to = {}
    BY <1>1 DEF NewConn, IdleSender
  <2> QED BY <1>1, <2>1 DEF ConnOf
<1> QED BY <1>2, <1>3, LastOne DEF CatchUpInv

(* Everything else leaves what the invariant speaks of alone.              *)
LEMMA StepsOfFlight ==
    ASSUME [Next]_vars
    PROVE  \/ \E u \in Updater : Fire(u) \/ Update(u)
           \/ Sender \/ PollSend
           \/ \E c \in Conn : Handshake(c) \/ Leave(c)
           \/ UNCHANGED <<cached, updateVars, broadcast, sender, conn, view, version, behind>>
<1>1. CASE ChangeRepository \/ ChangeTree
  BY <1>1 DEF ChangeRepository, ChangeTree, cacheVars, connVars, historyVars
<1>2. CASE Poll
  BY <1>2 DEF Poll, PollRepo, PollStatus, cacheVars, connVars, historyVars
<1>3. CASE Caches
  BY <1>3, CachesKeep DEF Caches, connVars, historyVars
<1>4. CASE UNCHANGED vars
  BY <1>4 DEF vars, cacheVars, connVars, historyVars
<1> QED BY <1>1, <1>2, <1>3, <1>4 DEF Next

LEMMA CatchUpStep ==
    ASSUME TypeOK, TypeOK', UpdatesExclusive, OrderInv, CatchUpInv, [Next]_vars
    PROVE  CatchUpInv'
<1>1. ASSUME NEW u \in Updater, Fire(u) \/ Update(u) PROVE CatchUpInv'
  <2>1. FlightStep
    <3>1. CASE Install(u) \/ ReadStatus(u) \/ Send(u)
      BY <3>1, InstallWaiting, ReadStatusWaiting, SendWaiting
    <3>2. CASE ~(Install(u) \/ ReadStatus(u) \/ Send(u))
      <4>1. Waiting' = Waiting /\ UNCHANGED <<cached, version, behind>>
        BY <1>1, <3>2, EarlyWaiting DEF Update
      <4> QED BY <4>1 DEF FlightStep, SameDeltas
    <3> QED BY <3>1, <3>2
  <2>2. UNCHANGED <<sender, conn, view>>
    BY <1>1 DEF Fire, Update, Lock, Reload, ReloadFails, Install, ClearCache, Schedule,
       ReadStatus, Send, connVars
  <2> QED BY <2>1, <2>2, FlightCatchUp
<1>2. CASE Sender
  BY <1>2, TakeCatchUp, CopyCatchUp, WriteCatchUp, FinishCatchUp DEF Sender
<1>3. CASE PollSend
  <2>1. UNCHANGED <<sender, conn, view>>
    BY <1>3 DEF PollSend, connVars
  <2> QED BY <1>3, <2>1, PollWaiting, FlightCatchUp
<1>4. ASSUME NEW c \in Conn, Handshake(c) \/ Leave(c) PROVE CatchUpInv'
  BY <1>4, HandshakeCatchUp, ReadCatchUp, RegisterCatchUp DEF Handshake
<1>5. CASE UNCHANGED <<cached, updateVars, broadcast, sender, conn, view, version, behind>>
  <2>1. /\ Waiting' = Waiting /\ Sending' = Sending
        /\ \A c \in Conn : Own(c)' = Own(c)
    BY <1>5, FlightKept
  <2> QED BY <1>5, <2>1 DEF CatchUpInv, ConnOf, CatchesUp
<1> QED BY <1>1, <1>2, <1>3, <1>4, <1>5, StepsOfFlight

(* The inductive invariant.                                                *)
THEOREM CatchUpInvariant == Spec => []CatchUpInv
<1>1. Init => CatchUpInv
  BY InitCatchUp
<1>2. TypeOK /\ TypeOK' /\ UpdatesExclusive /\ OrderInv /\ CatchUpInv /\ [Next]_vars
         => CatchUpInv'
  BY CatchUpStep
<1> QED BY <1>1, <1>2, SessionTypes, Exclusion, OrderInvariant, PTL DEF Spec

(* "debounced reload -> delta computation -> WebSocket broadcast to all    *)
(* connected clients" (README.md:73): whatever overlaps, fails or is late, *)
(* what is on its way to a registered client takes it to the cached        *)
(* commits and branches, unless a delta was dropped or passed it by.       *)
THEOREM ClientsAlwaysCatchUp == Spec => []ClientsCatchUp
<1>1. TypeOK /\ CatchUpInv => ClientsCatchUp
  BY CatchUpShown
<1> QED BY <1>1, CatchUpInvariant, SessionTypes, PTL
=============================================================================
