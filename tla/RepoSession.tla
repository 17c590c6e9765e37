---------------------------- MODULE RepoSession ----------------------------
(***************************************************************************)
(* The live pipeline of internal/server (session.go, session_websocket.go, *)
(* websocket.go, watcher.go): Git and the user change the repository and   *)
(* the working tree; updateRepository, called by debounced watcher         *)
(* callbacks and by graph-summary requests, reloads the repository and     *)
(* queues what changed; statusPollLoop queues the working tree's status;   *)
(* handleBroadcast sends what is queued to the registered connections; and *)
(* handleWebSocket brings a new connection up to date before it registers  *)
(* it. A connection is used once: a browser that reconnects has a new one. *)
(***************************************************************************)
EXTENDS SessionCache

CONSTANTS Callback,     \* goroutines of time.AfterFunc that run updateRepository
          Request,      \* threads that serve handleGraphSummary
          Conn,         \* WebSocket connections
          Repos,        \* what the Git directory may hold
          Trees,        \* what the working tree may hold
          Nobody,       \* no holder of updateMu
          NoStatus,     \* getWorkingTreeStatus failed: nil
          broadcastChannelSize,
          Watching,         \* startWatcher succeeded: there are a watcher and a poller
          StatusReads,      \* "read", "failed", or both: how reading the status ends
          Failing,          \* updaters whose reloadFn may return an error
          MaxChanges        \* bound on the changes on disk

Updater == Callback \cup Request

ASSUME SessionAssumption == /\ Repos \subseteq Repository
                            /\ broadcastChannelSize \in Nat \ {0}
                            /\ Watching \in BOOLEAN
                            /\ StatusReads \in (SUBSET {"read", "failed"}) \ {{}}
                            /\ Failing \subseteq Updater
                            /\ MaxChanges \in Nat
                            /\ Nobody \notin Updater

VARIABLES
    disk,        \* the Git directory as the next reload will read it
    tree,        \* the working tree
    changes,     \* changes made on disk so far
    debounce,    \* the watcher's timer is armed
    updateMu,    \* the goroutine that holds rs.updateMu, or Nobody
    updater,     \* the goroutines in updateRepository
    broadcast,   \* rs.broadcast
    sender,      \* handleBroadcast
    clients,     \* the keys of rs.clients
    conn,        \* the connections, handleWebSocket's locals included
    view,        \* what the browser at the end of each connection shows
    poller,      \* statusPollLoop
    version,     \* history: number of the graph now cached
    behind       \* history: connections a graph delta has passed by

diskVars == <<disk, tree, changes, debounce>>
updateVars == <<updateMu, updater>>
connVars == <<clients, conn, view>>
historyVars == <<version, behind>>
vars == <<cacheVars, diskVars, updateVars, broadcast, sender, connVars, poller, historyVars>>

(* translateWorkingTreeStatus compares the working tree with the commit of *)
(* HEAD as the given repository knows it.                                  *)
StatusOf(repo, files) == [head |-> repo.head, files |-> files]
EmptyStatus == [head |-> NoHash, files |-> NoStatus]
Status(repo) == {IF outcome = "read" THEN StatusOf(repo, tree) ELSE NoStatus :
                    outcome \in StatusReads}

HeadInfo(repo) == [hash |-> repo.head, ref |-> repo.headRef]

(* from and to number the graphs a delta leads between (history only).     *)
GraphDelta(d, from, to) == [type |-> "graphDelta", delta |-> d, from |-> from, to |-> to]
StatusMessage(st) == [type |-> "status", status |-> st]
HeadMessage(repo) == [type |-> "head", head |-> HeadInfo(repo)]

IdleUpdater == [pc |-> "idle", old |-> EmptyRepository, new |-> EmptyRepository,
                from |-> 0, to |-> 0, outbox |-> <<>>]
NewConn == [pc |-> "new", repo |-> EmptyRepository, seen |-> 0]
BlankView == [summary |-> EmptyRepository, graph |-> GraphOf(EmptyRepository),
              status |-> EmptyStatus, head |-> HeadInfo(EmptyRepository)]
IdleSender == [pc |-> "idle", msg |-> NoStatus, to |-> {}, failed |-> {}]

Init == /\ \E repo \in Repos : disk = repo /\ CacheInit(repo)
        /\ tree \in Trees
        /\ changes = 0
        /\ debounce = FALSE
        /\ updateMu = Nobody
        /\ updater = [u \in Updater |-> IdleUpdater]
        /\ broadcast = <<>>
        /\ sender = IdleSender
        /\ clients = {}
        /\ conn = [c \in Conn |-> NewConn]
        /\ view = [c \in Conn |-> BlankView]
        /\ poller = [pc |-> "wait", repo |-> EmptyRepository, last |-> NoStatus]
        /\ version = 0
        /\ behind = [c \in Conn |-> FALSE]

-----------------------------------------------------------------------------
(* The environment. A change below .git reaches watchLoop as an event that *)
(* arms the timer anew; one of the working tree alone does not.            *)
ChangeRepository ==
    /\ changes < MaxChanges
    /\ changes' = changes + 1
    /\ disk' \in Repos \ {disk}
    /\ tree' \in Trees
    /\ debounce' = Watching
    /\ UNCHANGED <<cacheVars, updateVars, broadcast, sender, connVars, poller, historyVars>>

ChangeTree ==
    /\ changes < MaxChanges
    /\ changes' = changes + 1
    /\ tree' \in Trees \ {tree}
    /\ UNCHANGED <<cacheVars, disk, debounce, updateVars, broadcast, sender,
                   connVars, poller, historyVars>>

-----------------------------------------------------------------------------
(* updateRepository. A callback starts when the timer fires, a request at  *)
(* any time; debounceTimer.Stop does not wait for a callback that runs.    *)
SetUpdater(u, fields) == updater' = [updater EXCEPT ![u] = fields]

(* Mutant: a timer that fires while an update runs is forgotten. *)
FireUnlessRunning(u) ==
    /\ u \in Callback
    /\ debounce
    /\ debounce' = FALSE
    /\ IF updater[u].pc = "idle" THEN SetUpdater(u, [IdleUpdater EXCEPT !.pc = "lock"])
       ELSE UNCHANGED updater
    /\ UNCHANGED <<cacheVars, disk, tree, changes, updateMu, broadcast, sender,
                   connVars, poller, historyVars>>

Fire(u) ==
    /\ u \in Callback
    /\ debounce
    /\ updater[u].pc = "idle"
    /\ debounce' = FALSE
    /\ SetUpdater(u, [IdleUpdater EXCEPT !.pc = "lock"])
    /\ UNCHANGED <<cacheVars, disk, tree, changes, updateMu, broadcast, sender,
                   connVars, poller, historyVars>>

(* Mutant: updateRepository does not take updateMu. *)
LockWithoutMutex(u) ==
    /\ updater[u].pc = "lock" \/ (u \in Request /\ updater[u].pc = "idle")
    /\ updateMu' = u
    /\ SetUpdater(u, [IdleUpdater EXCEPT !.pc = "reload", !.old = cached, !.from = version])
    /\ UNCHANGED <<cacheVars, diskVars, broadcast, sender, connVars, poller, historyVars>>

Lock(u) ==
    /\ updater[u].pc = "lock" \/ (u \in Request /\ updater[u].pc = "idle")
    /\ updateMu = Nobody
    /\ updateMu' = u
    /\ SetUpdater(u, [IdleUpdater EXCEPT !.pc = "reload", !.old = cached, !.from = version])
    /\ UNCHANGED <<cacheVars, diskVars, broadcast, sender, connVars, poller, historyVars>>

Unlock(u) == updateMu' = Nobody /\ SetUpdater(u, IdleUpdater)

Reload(u) ==
    /\ updater[u].pc = "reload"
    /\ SetUpdater(u, [updater[u] EXCEPT !.pc = "install", !.new = disk])
    /\ UNCHANGED <<cacheVars, diskVars, updateMu, broadcast, sender, connVars,
                   poller, historyVars>>

ReloadFails(u) ==
    /\ u \in Failing
    /\ updater[u].pc = "reload"
    /\ Unlock(u)
    /\ UNCHANGED <<cacheVars, diskVars, broadcast, sender, connVars, poller, historyVars>>

Changed(u) == DiffRepositories(updater[u].new, updater[u].old)

(* rs.cached.repo = newRepo. A graph that differs gets the next number.    *)
Install(u) ==
    /\ updater[u].pc = "install"
    /\ cached' = updater[u].new
    /\ version' = version + IF IsEmpty(Changed(u)) THEN 0 ELSE 1
    /\ SetUpdater(u, [updater[u] EXCEPT !.pc = "clear", !.to = version'])
    /\ UNCHANGED <<diffCache, prewarm, reader, diskVars, updateMu, broadcast,
                   sender, connVars, poller, behind>>

ClearCache(u) ==
    /\ updater[u].pc = "clear"
    /\ diffCache' = LRU!NewLRUCache
    /\ SetUpdater(u, [updater[u] EXCEPT !.pc = "schedule"])
    /\ UNCHANGED <<cached, prewarm, reader, diskVars, updateMu, broadcast, sender,
                   connVars, poller, historyVars>>

Schedule(u) ==
    /\ updater[u].pc = "schedule"
    /\ scheduleAnalyticsPrewarm(updater[u].new)
    /\ SetUpdater(u, [updater[u] EXCEPT !.pc = "status"])
    /\ UNCHANGED <<cached, diffCache, reader, diskVars, updateMu, broadcast, sender,
                   connVars, poller, historyVars>>

(* What there is to broadcast: the graph delta if it is not empty, the     *)
(* status if it could be read, HEAD if it changed, in this order.          *)
Messages(u, st) ==
    LET new == updater[u].new
        opt(cond, msg) == IF cond THEN <<msg>> ELSE <<>>
    IN  opt(~IsEmpty(Changed(u)), GraphDelta(Changed(u), updater[u].from, updater[u].to))
        \o opt(st # NoStatus, StatusMessage(st))
        \o opt(HeadInfo(updater[u].old) # HeadInfo(new), HeadMessage(new))

(* Mutant: updateMu is released before the broadcast. *)
ReadStatusUnlocks(u) ==
    /\ updater[u].pc = "status"
    /\ \E st \in Status(updater[u].new) :
          LET out == Messages(u, st)
          IN  IF out = <<>> THEN Unlock(u)
              ELSE /\ SetUpdater(u, [updater[u] EXCEPT !.pc = "send", !.outbox = out])
                   /\ updateMu' = Nobody
    /\ UNCHANGED <<cacheVars, diskVars, broadcast, sender, connVars, poller, historyVars>>

ReadStatus(u) ==
    /\ updater[u].pc = "status"
    /\ \E st \in Status(updater[u].new) :
          LET out == Messages(u, st)
          IN  IF out = <<>> THEN Unlock(u)
              ELSE /\ SetUpdater(u, [updater[u] EXCEPT !.pc = "send", !.outbox = out])
                   /\ UNCHANGED updateMu
    /\ UNCHANGED <<cacheVars, diskVars, broadcast, sender, connVars, poller, historyVars>>

(* A connection whose bootstrap is older than a graph delta it will not    *)
(* get is behind. When one is dropped every connection is, a later one     *)
(* too: an older delta still queued can take back what its bootstrap held, *)
(* and the dropped one would have restored it.                             *)
Bootstrapped(c) == conn[c].pc \in {"chunks", "status", "head", "register", "open"}
Misses(c, msg) == msg.type = "graphDelta" /\ Bootstrapped(c) /\ conn[c].seen < msg.to

(* broadcastUpdate: never blocks; a message that does not fit is dropped.  *)
broadcastUpdate(msg) ==
    IF Len(broadcast) < broadcastChannelSize
    THEN broadcast' = Append(broadcast, msg) /\ UNCHANGED behind
    ELSE /\ behind' = [c \in Conn |-> behind[c] \/ msg.type = "graphDelta"]
         /\ UNCHANGED broadcast

Send(u) ==
    /\ updater[u].pc = "send"
    /\ broadcastUpdate(Head(updater[u].outbox))
    /\ IF Len(updater[u].outbox) = 1 THEN Unlock(u)
       ELSE /\ SetUpdater(u, [updater[u] EXCEPT !.outbox = Tail(@)])
            /\ UNCHANGED updateMu
    /\ UNCHANGED <<cacheVars, diskVars, sender, connVars, poller, version>>

Update(u) == \/ Lock(u) \/ Reload(u) \/ ReloadFails(u) \/ Install(u) \/ ClearCache(u)
             \/ Schedule(u) \/ ReadStatus(u) \/ Send(u)

-----------------------------------------------------------------------------
(* handleBroadcast and sendToAllClients: take a message, copy the clients  *)
(* map, write to each connection of the copy, drop those that failed.      *)
Deliver(v, msg) ==
    CASE msg.type = "graphDelta" -> [v EXCEPT !.graph = applyDelta(@, msg.delta)]
      [] msg.type = "status"     -> [v EXCEPT !.status = msg.status]
      [] msg.type = "head"       -> [v EXCEPT !.head = msg.head, !.graph.head = msg.head.hash]

Take ==
    /\ sender.pc = "idle"
    /\ broadcast # <<>>
    /\ sender' = [sender EXCEPT !.pc = "copy", !.msg = Head(broadcast)]
    /\ broadcast' = Tail(broadcast)
    /\ UNCHANGED <<cacheVars, diskVars, updateVars, connVars, poller, historyVars>>

CopyClients ==
    /\ sender.pc = "copy"
    /\ sender' = [sender EXCEPT !.pc = "write", !.to = clients]
    /\ behind' = [c \in Conn |-> behind[c] \/ (c \notin clients /\ Misses(c, sender.msg))]
    /\ UNCHANGED <<cacheVars, diskVars, updateVars, broadcast, connVars, poller, version>>

Write(c) ==
    /\ sender.pc = "write"
    /\ c \in sender.to
    /\ conn[c].pc = "open"
    /\ sender' = [sender EXCEPT !.to = @ \ {c}]
    /\ view' = [view EXCEPT ![c] = Deliver(@, sender.msg)]
    /\ UNCHANGED <<cacheVars, diskVars, updateVars, broadcast, clients, conn,
                   poller, historyVars>>

WriteFails(c) ==       \* the peer is gone, the connection closed, or too slow
    /\ sender.pc = "write"
    /\ c \in sender.to
    /\ sender' = [sender EXCEPT !.to = @ \ {c}, !.failed = @ \cup {c}]
    /\ UNCHANGED <<cacheVars, diskVars, updateVars, broadcast, connVars, poller, historyVars>>

FinishSend ==
    /\ sender.pc = "write"
    /\ sender.to = {}
    /\ sender' = IdleSender
    /\ clients' = clients \ sender.failed
    /\ conn' = [c \in Conn |-> IF c \in sender.failed
                               THEN [NewConn EXCEPT !.pc = "closed"] ELSE conn[c]]
    /\ UNCHANGED <<cacheVars, diskVars, updateVars, broadcast, view, poller, historyVars>>

Sender == Take \/ CopyClients \/ (\E c \in Conn : Write(c) \/ WriteFails(c)) \/ FinishSend

-----------------------------------------------------------------------------
(* handleWebSocket, up to registerClient. It reads the session's           *)
(* repository twice, once for the summary and once for the bootstrap. The  *)
(* chunks of a bootstrap are one delta against the empty repository.       *)
Step(c, from, to) ==
    /\ conn[c].pc = from
    /\ conn' = [conn EXCEPT ![c].pc = to]
    /\ UNCHANGED <<cacheVars, diskVars, updateVars, broadcast, sender, poller, historyVars>>

Accept(c) ==
    /\ conn[c].pc = "new"
    /\ conn' = [conn EXCEPT ![c] = [pc |-> "summary", repo |-> cached, seen |-> 0]]
    /\ UNCHANGED <<cacheVars, diskVars, updateVars, broadcast, sender, clients, view,
                   poller, historyVars>>

SendSummary(c) ==
    /\ Step(c, "summary", "bootstrap")
    /\ view' = [view EXCEPT ![c] = [BlankView EXCEPT !.summary = conn[c].repo]]
    /\ UNCHANGED clients

ReadBootstrap(c) ==
    /\ conn[c].pc = "bootstrap"
    /\ conn' = [conn EXCEPT ![c] = [pc |-> "chunks", repo |-> cached, seen |-> version]]
    /\ UNCHANGED <<cacheVars, diskVars, updateVars, broadcast, sender, clients, view,
                   poller, historyVars>>

SendChunks(c) ==
    /\ Step(c, "chunks", "status")
    /\ view' = [view EXCEPT ![c].graph =
                  applyDelta(@, DiffRepositories(conn[c].repo, EmptyRepository))]
    /\ UNCHANGED clients

SendStatus(c) ==
    /\ Step(c, "status", "head")
    /\ \E st \in Status(conn[c].repo) :
          view' = [view EXCEPT ![c].status = IF st = NoStatus THEN EmptyStatus ELSE st]
    /\ UNCHANGED clients

SendHead(c) ==
    /\ Step(c, "head", "register")
    /\ view' = [view EXCEPT ![c] = Deliver(@, HeadMessage(conn[c].repo))]
    /\ UNCHANGED clients

HandshakeFails(c) ==
    /\ \E pc \in {"summary", "chunks", "status", "head"} : Step(c, pc, "closed")
    /\ UNCHANGED <<clients, view>>

registerClient(c) ==
    /\ Step(c, "register", "open")
    /\ clients' = clients \cup {c}
    /\ UNCHANGED view

(* The peer goes away; the pumps notice and call removeClient.             *)
PeerLeaves(c) == Step(c, "open", "gone") /\ UNCHANGED <<clients, view>>

removeClient(c) ==
    /\ Step(c, "gone", "closed")
    /\ clients' = clients \ {c}
    /\ UNCHANGED view

Handshake(c) == \/ Accept(c) \/ SendSummary(c) \/ ReadBootstrap(c) \/ SendChunks(c)
                \/ SendStatus(c) \/ SendHead(c) \/ registerClient(c)

Leave(c) == HandshakeFails(c) \/ PeerLeaves(c) \/ removeClient(c)

-----------------------------------------------------------------------------
(* statusPollLoop, on every tick.                                          *)
PollRepo ==
    /\ Watching
    /\ poller.pc = "wait"
    /\ poller' = [poller EXCEPT !.pc = "status", !.repo = cached]
    /\ UNCHANGED <<cacheVars, diskVars, updateVars, broadcast, sender, connVars, historyVars>>

PollStatus ==
    /\ poller.pc = "status"
    /\ \E st \in Status(poller.repo) :
          poller' = IF st \in {NoStatus, poller.last}
                    THEN [poller EXCEPT !.pc = "wait", !.repo = EmptyRepository]
                    ELSE [pc |-> "send", repo |-> EmptyRepository, last |-> st]
    /\ UNCHANGED <<cacheVars, diskVars, updateVars, broadcast, sender, connVars, historyVars>>

PollSend ==
    /\ poller.pc = "send"
    /\ broadcastUpdate(StatusMessage(poller.last))
    /\ poller' = [poller EXCEPT !.pc = "wait"]
    /\ UNCHANGED <<cacheVars, diskVars, updateVars, sender, connVars, version>>

Poll == PollRepo \/ PollStatus \/ PollSend

-----------------------------------------------------------------------------
Caches == /\ CacheNext
          /\ UNCHANGED <<diskVars, updateVars, broadcast, sender, connVars, poller, historyVars>>

Next == \/ ChangeRepository \/ ChangeTree
        \/ \E u \in Updater : Fire(u) \/ Update(u)
        \/ Sender
        \/ \E c \in Conn : Handshake(c) \/ Leave(c)
        \/ Poll
        \/ Caches

Spec == Init /\ [][Next]_vars

(* Every goroutine that can step does; the lock is fair to those that wait *)
(* for it (a Go mutex goes to the longest waiter within a millisecond).    *)
(* Nothing says that the disk changes, that a request comes, that a peer   *)
(* leaves or that a write fails.                                           *)
Fairness ==
    /\ \A u \in Callback : WF_vars(Fire(u)) /\ SF_vars(Lock(u))
    /\ \A u \in Updater : WF_vars(Update(u) /\ ~Lock(u))
    /\ WF_vars(Take \/ CopyClients \/ FinishSend)
    /\ \A c \in Conn : /\ WF_vars(Write(c) \/ WriteFails(c))
                       /\ WF_vars(Handshake(c)) /\ WF_vars(removeClient(c))
    /\ WF_vars(Poll)

FairSpec == Spec /\ Fairness

-----------------------------------------------------------------------------
(* What the variables may hold; the clients map has exactly the            *)
(* connections that were registered and not yet removed or dropped.        *)
UpdaterPC == {"idle", "lock", "reload", "install", "clear", "schedule", "status", "send"}
ConnPC == {"new", "summary", "bootstrap", "chunks", "status", "head", "register",
           "open", "gone", "closed"}

WorkingTreeStatus == [head : Commit \cup {NoHash}, files : Trees \cup {NoStatus}]
HeadInfos == [hash : Commit \cup {NoHash}, ref : HeadRef]
Message == [type : {"graphDelta"}, delta : Delta, from : Nat, to : Nat]
           \cup [type : {"status"}, status : WorkingTreeStatus]
           \cup [type : {"head"}, head : HeadInfos]

DiskTypes ==
    /\ disk \in Repos /\ cached \in Repos
    /\ tree \in Trees /\ changes \in 0..MaxChanges /\ debounce \in BOOLEAN

UpdateRecord == [pc : UpdaterPC, old : Repository, new : Repository,
            from : Nat, to : Nat, outbox : Seq(Message)]

UpdateTypes ==
    /\ updateMu \in Updater \cup {Nobody}
    /\ updater \in [Updater -> UpdateRecord]
    /\ \A u \in Updater : /\ updater[u].pc = "install" => updater[u].new \in Repos
                          /\ updater[u].pc = "send" => updater[u].outbox # <<>>

SendTypes ==
    /\ broadcast \in Seq(Message) /\ Len(broadcast) <= broadcastChannelSize
    /\ sender \in [pc : {"idle", "copy", "write"}, msg : Message \cup {NoStatus},
                   to : SUBSET Conn, failed : SUBSET Conn]
    /\ sender.pc # "idle" => sender.msg \in Message

ConnTypes ==
    /\ conn \in [Conn -> [pc : ConnPC, repo : Repository, seen : Nat]]
    /\ view \in [Conn -> [summary : Repository, graph : Graph,
                          status : WorkingTreeStatus, head : HeadInfos]]
    /\ clients = {c \in Conn : conn[c].pc \in {"open", "gone"}}

PollTypes ==
    /\ poller \in [pc : {"wait", "status", "send"}, repo : Repository,
                   last : WorkingTreeStatus \cup {NoStatus}]
    /\ poller.pc = "send" => poller.last # NoStatus

TypeOK == /\ DiskTypes /\ UpdateTypes /\ SendTypes /\ ConnTypes /\ PollTypes
          /\ version \in Nat /\ behind \in [Conn -> BOOLEAN]

-----------------------------------------------------------------------------
(* "Serialized via updateMu to prevent concurrent reloads from computing   *)
(* incorrect deltas against a stale oldRepo" (session.go:152): whatever    *)
(* replaces the cached repository was compared with the one it replaces.   *)
DeltaAgainstCached ==
    [][\A u \in Updater : Install(u) => updater[u].old = cached]_vars

(* What makes it so: from Lock to Unlock an update holds the lock, alone,   *)
(* and until it installs its repository the one it remembers as old is the *)
(* cached one.                                                             *)
UpdatesExclusive ==
    \A u \in Updater :
        /\ updater[u].pc \notin {"idle", "lock"} => updateMu = u
        /\ updater[u].pc \in {"reload", "install"} => updater[u].old = cached

(* Graph deltas are queued in the order of the graphs they lead between,   *)
(* and each starts where an earlier one ended or, when some were dropped,  *)
(* later: none is queued twice and none overtakes another.                 *)
IsDelta(m) == m.type = "graphDelta"
Queued == broadcast \o (IF updateMu = Nobody THEN <<>> ELSE updater[updateMu].outbox)

DeltasInOrder ==
    \A i, j \in 1..Len(Queued) :
        IsDelta(Queued[i]) =>
            /\ Queued[i].to = Queued[i].from + 1
            /\ Queued[i].to <= version
            /\ (i < j /\ IsDelta(Queued[j])) => Queued[i].to <= Queued[j].from

(* What is still on its way to connection c: the message being sent, those *)
(* that wait, and what the update that holds the lock will queue.          *)
PendingDelta(u) ==
    IF updater[u].pc \in {"clear", "schedule", "status"} /\ ~IsEmpty(Changed(u))
    THEN <<GraphDelta(Changed(u), updater[u].from, updater[u].to)>>
    ELSE updater[u].outbox

InFlight(c) ==
    (IF sender.pc = "copy" \/ (sender.pc = "write" /\ c \in sender.to)
     THEN <<sender.msg>> ELSE <<>>)
    \o broadcast
    \o (IF updateMu = Nobody THEN <<>> ELSE PendingDelta(updateMu))

(* A registered client that no graph delta has passed by ends up with the  *)
(* cached commits and branches once what is on its way to it arrives, also *)
(* when that repeats what its bootstrap already held.                      *)
Apply(g, msg) == IF IsDelta(msg) THEN applyDelta(g, msg.delta) ELSE g
Replay(g, msgs) ==
    LET after[n \in 0..Len(msgs)] == IF n = 0 THEN g ELSE Apply(after[n - 1], msgs[n])
    IN  after[Len(msgs)]

ClientsCatchUp ==
    \A c \in clients :
        (conn[c].pc = "open" /\ ~behind[c] /\ c \notin sender.failed)
            => SameGraph(Replay(view[c].graph, InFlight(c)), cached)

(* The latest prewarm goroutine works on the cached repository, unless an  *)
(* update is between the two: updates that overlapped could leave an older *)
(* repository's goroutine as the latest.                                   *)
PrewarmsCached ==
    \A w \in Prewarmer :
        prewarm[w].current => \/ prewarm[w].repo = cached
                              \/ \E u \in Updater : updater[u].pc \in {"clear", "schedule"}

(* An analytics response is filed under the key of the repository it was   *)
(* computed from: what a handler read before its computation and what it   *)
(* uses after it are the same repository.                                  *)
EntriesMatchKeys ==
    \A key \in DOMAIN diffCache.items :
        key # BulkKey => \E repo \in Repos, i \in DOMAIN Periods :
                            /\ key = CacheKey(repo, Periods[i])
                            /\ diffCache.items[key] = Response(repo)

-----------------------------------------------------------------------------
(* Once the disk is left alone, a client that stays registered and that no *)
(* graph delta has passed by shows the commits and branches on disk.       *)
ClientsConverge ==
    \A c \in Conn :
        <>[](c \in clients /\ ~behind[c] => SameGraph(view[c].graph, disk))

-----------------------------------------------------------------------------
(* What comments and documents say of the pipeline.                        *)

(* README.md:73: "debounced reload -> delta computation -> WebSocket       *)
(* broadcast to all connected clients": a client that stays connected ends *)
(* up with the commits and branches on disk.                               *)
AllClientsConverge ==
    \A c \in Conn : <>[](c \in clients => SameGraph(view[c].graph, disk))

(* watcher.go:44: refs directories are watched "so that branch and tag     *)
(* creation/deletion events [...] are picked up" and stash creation and    *)
(* deletion "is detected": a registered client that shows the tags and     *)
(* stashes on disk comes to do so again after every change.                *)
ShowsTags(c) == /\ view[c].graph.tags = disk.tags
                /\ view[c].graph.stashes = disk.stashes

TagsFollow ==
    \A c \in Conn :
        [](c \in clients /\ ShowsTags(c) => []<>(c \notin clients \/ ShowsTags(c)))

(* watcher.go:90: the poll "broadcasts if it has changed. This catches     *)
(* working-tree-only changes": a client comes to show the current status.  *)
StatusConverges ==
    \A c \in Conn :
        <>[](c \in clients => view[c].status = StatusOf(cached, tree))

(* session_test.go:138: after updateRepository a lookup finding an entry   *)
(* stored before is an error, "expected stale diff cache entry to be       *)
(* cleared": a reader that starts when no update runs is not served what   *)
(* another repository's commits gave.                                      *)
ServesCached ==
    \A r \in Reader :
        (/\ reader[r].pc = "done" /\ reader[r].repo = cached
         /\ \A u \in Updater : updater[u].pc = "idle")
            => reader[r].served = Response(cached)
=============================================================================
