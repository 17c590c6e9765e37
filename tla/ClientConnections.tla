------------------------- MODULE ClientConnections -------------------------
(***************************************************************************)
(* The goroutines that share a WebSocket connection, and how they end      *)
(* (internal/server: websocket.go, session_websocket.go, session.go Close, *)
(* server.go Shutdown, watcher.go watchLoop). A connection is written to   *)
(* by handleWebSocket until it registers it, then by handleBroadcast and   *)
(* by its own clientWritePump; it is closed by whoever finds it broken or  *)
(* by Close; and it keeps Close waiting, through clientWg, until both of   *)
(* its pumps have ended. What the messages say is left to RepoSession.     *)
(***************************************************************************)
EXTENDS Naturals, Sequences, FiniteSets

CONSTANTS Conn,         \* WebSocket connections
          Nobody,       \* no goroutine; no connection
          MaxQueued,    \* bound on the messages in rs.broadcast
          MaxPrewarms   \* bound on the prewarm goroutines alive

ASSUME ConnAssumption == /\ IsFiniteSet(Conn)
                         /\ Nobody \notin Conn \cup {"sender", "pump"}
                         /\ MaxQueued \in Nat \ {0} /\ MaxPrewarms \in Nat \ {0}

VARIABLES
    conn,        \* the connections, once upgraded, and what belongs to each
    clients,     \* the keys of rs.clients
    clientWg,    \* the counter of rs.clientWg
    sender,      \* handleBroadcast
    queued,      \* messages in rs.broadcast
    watching,    \* watchLoop runs
    timer,       \* its debounce timer is armed
    callback,    \* the goroutine of the timer's function
    prewarms,    \* prewarm goroutines alive
    sessionWg,   \* the counter of rs.wg
    shutdown,    \* where Shutdown is, Close included
    late         \* history: connections still in handleWebSocket when Close
                 \* closed those it found registered

connVars == <<conn, clients, clientWg>>
sendVars == <<sender, queued>>
watchVars == <<watching, timer, callback, prewarms, sessionWg>>
closeVars == <<shutdown, late>>
others == <<sendVars, watchVars, closeVars>>
vars == <<connVars, others>>

Phases == <<"running", "http", "cancel", "waitServer", "close", "waitSession",
            "frames", "sweep", "waitClients", "returned">>
Before(phase) == \E i, j \in 1..Len(Phases) :
                    i < j /\ Phases[i] = shutdown /\ Phases[j] = phase
Reached(phase) == ~Before(phase)

ServerCancelled == Reached("waitServer")      \* s.ctx.Err() # nil
SessionCancelled == Reached("waitSession")    \* rs.ctx.Err() # nil

(* handler, read and write are where handleWebSocket and the two pumps of  *)
(* the connection are; mu is who holds its write mutex; open, that         *)
(* conn.Close was not called; peer, that the browser is there and answers  *)
(* pings; done, that the channel the read pump closes is closed.           *)
NewConn == [handler |-> "none", read |-> "none", write |-> "none", mu |-> Nobody,
            open |-> TRUE, peer |-> TRUE, done |-> FALSE]
IdleSender == [pc |-> "select", to |-> {}, now |-> Nobody, failed |-> {}]

Init == /\ conn = [c \in Conn |-> NewConn]
        /\ clients = {}
        /\ clientWg = 0
        /\ sender = IdleSender
        /\ queued = 0
        /\ watching = TRUE
        /\ timer = FALSE
        /\ callback = "idle"
        /\ prewarms = 0
        /\ sessionWg = 1
        /\ shutdown = "running"
        /\ late = {}

(* conn.Close of every connection in set. *)
Closed(set) == [c \in Conn |-> [conn[c] EXCEPT !.open = @ /\ c \notin set]]
Enqueue == queued' = IF queued < MaxQueued THEN queued + 1 ELSE queued

-----------------------------------------------------------------------------
(* handleWebSocket. Upgrade takes the connection away from the HTTP server, *)
(* so that httpServer.Shutdown neither waits for it nor closes it.         *)
Upgrade(c) ==
    /\ conn[c].handler = "none"
    /\ Before("cancel")
    /\ conn' = [conn EXCEPT ![c].handler = "bootstrap"]
    /\ UNCHANGED <<clients, clientWg, others>>

(* While it sends summary and bootstrap it is the connection's only writer. *)
(* A write to a peer that is gone may succeed for a while: the socket      *)
(* buffers it. One to a connection that was closed fails.                  *)
Bootstrap(c) ==
    /\ conn[c].handler = "bootstrap"
    /\ \/ conn' = [conn EXCEPT ![c].handler = "register"]
       \/ conn' = [conn EXCEPT ![c].handler = "failed", ![c].open = FALSE]
    /\ UNCHANGED <<clients, clientWg, others>>

registerClient(c) ==
    /\ conn[c].handler = "register"
    /\ conn' = [conn EXCEPT ![c].handler = "spawn"]
    /\ clients' = clients \cup {c}
    /\ UNCHANGED <<clientWg, others>>

StartPumps(c) ==
    /\ conn[c].handler = "spawn"
    /\ conn' = [conn EXCEPT ![c].handler = "returned", ![c].read = "read", ![c].write = "select"]

(* Mutant: clientWg counts one of the two pumps. *)
SpawnPumpsCountsOne(c) ==
    StartPumps(c) /\ clientWg' = clientWg + 1 /\ UNCHANGED <<clients, others>>

SpawnPumps(c) ==
    StartPumps(c) /\ clientWg' = clientWg + 2 /\ UNCHANGED <<clients, others>>

Handshake(c) == Bootstrap(c) \/ registerClient(c) \/ SpawnPumps(c)

PeerLeaves(c) ==
    /\ conn[c].peer /\ conn[c].handler # "none"
    /\ conn' = [conn EXCEPT ![c].peer = FALSE]
    /\ UNCHANGED <<clients, clientWg, others>>

-----------------------------------------------------------------------------
(* clientReadPump: an error, or 60 s without a pong, ends it. It closes    *)
(* done, then leaves clientWg.                                             *)
Broken(c) == ~conn[c].open \/ ~conn[c].peer

(* Mutant: the write pump is not told. *)
ReadErrorKeepsDone(c) ==
    /\ conn[c].read = "read" /\ Broken(c)
    /\ conn' = [conn EXCEPT ![c].read = "leave"]
    /\ UNCHANGED <<clients, clientWg, others>>

ReadError(c) ==
    /\ conn[c].read = "read" /\ Broken(c)
    /\ conn' = [conn EXCEPT ![c].read = "leave", ![c].done = TRUE]
    /\ UNCHANGED <<clients, clientWg, others>>

LeaveReadPump(c) ==
    /\ conn[c].read = "leave"
    /\ conn' = [conn EXCEPT ![c].read = "ended"]
    /\ clientWg' = clientWg - 1
    /\ UNCHANGED <<clients, others>>

(* clientWritePump: pings under the write mutex; on done or a failed ping  *)
(* it removes the client, then leaves clientWg.                            *)
SeeDone(c) ==
    /\ conn[c].write = "select" /\ conn[c].done
    /\ conn' = [conn EXCEPT ![c].write = "remove"]
    /\ UNCHANGED <<clients, clientWg, others>>

Tick(c) ==
    /\ conn[c].write = "select"
    /\ conn' = [conn EXCEPT ![c].write = "lock"]
    /\ UNCHANGED <<clients, clientWg, others>>

(* Mutant: the ping is written without the write mutex. *)
PingWithoutMutex(c) ==
    /\ conn[c].write = "lock"
    /\ conn' = [conn EXCEPT ![c].write = "ping"]
    /\ UNCHANGED <<clients, clientWg, others>>

LockPing(c) ==
    /\ conn[c].write = "lock" /\ conn[c].mu = Nobody
    /\ conn' = [conn EXCEPT ![c].write = "ping", ![c].mu = "pump"]
    /\ UNCHANGED <<clients, clientWg, others>>

Ping(c) ==
    /\ conn[c].write = "ping"
    /\ \/ /\ conn[c].open
          /\ conn' = [conn EXCEPT ![c].write = "select", ![c].mu = Nobody]
       \/ conn' = [conn EXCEPT ![c].write = "remove", ![c].mu = Nobody]
    /\ UNCHANGED <<clients, clientWg, others>>

removeClient(c) ==
    /\ conn[c].write = "remove"
    /\ clients' = clients \ {c}
    /\ conn' = [conn EXCEPT ![c].write = "leave", ![c].open = @ /\ c \notin clients]
    /\ UNCHANGED <<clientWg, others>>

LeaveWritePump(c) ==
    /\ conn[c].write = "leave"
    /\ conn' = [conn EXCEPT ![c].write = "ended"]
    /\ clientWg' = clientWg - 1
    /\ UNCHANGED <<clients, others>>

ReadPump(c) == ReadError(c) \/ LeaveReadPump(c)
WritePump(c) == SeeDone(c) \/ LockPing(c) \/ Ping(c) \/ removeClient(c) \/ LeaveWritePump(c)

-----------------------------------------------------------------------------
(* handleBroadcast and sendToAllClients.                                   *)
Take ==
    /\ sender.pc = "select"
    /\ queued > 0
    /\ queued' = queued - 1
    /\ sender' = [sender EXCEPT !.pc = "send", !.to = clients]
    /\ UNCHANGED <<connVars, watchVars, closeVars>>

LockSend(c) ==
    /\ sender.pc = "send" /\ sender.now = Nobody
    /\ c \in sender.to
    /\ conn[c].mu = Nobody
    /\ conn' = [conn EXCEPT ![c].mu = "sender"]
    /\ sender' = [sender EXCEPT !.to = @ \ {c}, !.now = c]
    /\ UNCHANGED <<clients, clientWg, queued, watchVars, closeVars>>

Send(c) ==
    /\ sender.pc = "send" /\ sender.now = c
    /\ \/ conn[c].open /\ sender' = [sender EXCEPT !.now = Nobody]
       \/ sender' = [sender EXCEPT !.now = Nobody, !.failed = @ \cup {c}]
    /\ conn' = [conn EXCEPT ![c].mu = Nobody]
    /\ UNCHANGED <<clients, clientWg, queued, watchVars, closeVars>>

(* Mutant: failed connections are closed and stay registered. *)
DropFailedKeepsClients ==
    /\ sender.pc = "send" /\ sender.to = {} /\ sender.now = Nobody
    /\ sender' = IdleSender
    /\ conn' = Closed(sender.failed)
    /\ UNCHANGED <<clients, clientWg, queued, watchVars, closeVars>>

DropFailed ==
    /\ sender.pc = "send" /\ sender.to = {} /\ sender.now = Nobody
    /\ sender' = IdleSender
    /\ conn' = Closed(sender.failed)
    /\ clients' = clients \ sender.failed
    /\ UNCHANGED <<clientWg, queued, watchVars, closeVars>>

SenderExits ==       \* select may prefer ctx.Done to a message, or not
    /\ sender.pc = "select"
    /\ SessionCancelled
    /\ sender' = [sender EXCEPT !.pc = "ended"]
    /\ sessionWg' = sessionWg - 1
    /\ UNCHANGED <<connVars, queued, watching, timer, callback, prewarms, closeVars>>

Sender == Take \/ DropFailed \/ SenderExits \/ \E c \in Conn : LockSend(c) \/ Send(c)

-----------------------------------------------------------------------------
(* watchLoop and statusPollLoop. When they end nobody stops the timer, and *)
(* no WaitGroup counts the goroutine that runs its function.               *)
Event == /\ watching
         /\ timer' = TRUE
         /\ UNCHANGED <<connVars, sendVars, watching, callback, prewarms, sessionWg, closeVars>>

PollStatus == /\ watching
              /\ Enqueue
              /\ UNCHANGED <<connVars, sender, watchVars, closeVars>>

WatchExits == /\ watching
              /\ ServerCancelled
              /\ watching' = FALSE
              /\ UNCHANGED <<connVars, sendVars, timer, callback, prewarms, sessionWg, closeVars>>

Fire == /\ timer
        /\ callback = "idle"
        /\ timer' = FALSE
        /\ callback' = IF ServerCancelled THEN "idle" ELSE "reload"
        /\ UNCHANGED <<connVars, sendVars, watching, prewarms, sessionWg, closeVars>>

(* updateRepository: the reload, which may fail, the prewarm goroutine of  *)
(* the new repository, and the broadcast.                                  *)
ReloadRepository ==
    /\ callback = "reload"
    /\ callback' \in {"schedule", "idle"}
    /\ UNCHANGED <<connVars, sendVars, watching, timer, prewarms, sessionWg, closeVars>>

SchedulePrewarm ==
    /\ callback = "schedule"
    /\ prewarms < MaxPrewarms
    /\ callback' = "broadcast"
    /\ prewarms' = prewarms + 1
    /\ sessionWg' = sessionWg + 1
    /\ UNCHANGED <<connVars, sendVars, watching, timer, closeVars>>

Broadcast ==
    /\ callback = "broadcast"
    /\ callback' = "idle"
    /\ Enqueue
    /\ UNCHANGED <<connVars, sender, watching, timer, prewarms, sessionWg, closeVars>>

PrewarmEnds ==       \* it has warmed every period, or sees rs.ctx.Done
    /\ prewarms > 0
    /\ prewarms' = prewarms - 1
    /\ sessionWg' = sessionWg - 1
    /\ UNCHANGED <<connVars, sendVars, watching, timer, callback, closeVars>>

Callback == Fire \/ ReloadRepository \/ SchedulePrewarm \/ Broadcast

-----------------------------------------------------------------------------
(* Shutdown: stop the listener, cancel s.ctx, wait for s.wg, and Close. A  *)
(* peer may answer the close frame by leaving, as it may at any time.      *)
Phase(from, to) == /\ shutdown = from
                   /\ shutdown' = to
                   /\ UNCHANGED <<connVars, sendVars, watchVars, late>>

Shutdown        == Phase("running", "http")
StopListener    == Phase("http", "cancel")
CancelServer    == Phase("cancel", "waitServer")
WaitServer      == Phase("waitServer", "close") /\ ~watching
CancelSession   == Phase("close", "waitSession")
WaitSession     == Phase("waitSession", "frames") /\ sessionWg = 0
SendCloseFrames == Phase("frames", "sweep")

(* Mutant: Close empties the map and closes nothing. *)
CloseClientsOnlyForgets ==
    /\ shutdown = "sweep" /\ shutdown' = "waitClients"
    /\ clients' = {}
    /\ late' = {c \in Conn : conn[c].handler \in {"bootstrap", "register", "spawn"}}
    /\ UNCHANGED <<conn, clientWg, sendVars, watchVars>>

CloseClients ==
    /\ shutdown = "sweep" /\ shutdown' = "waitClients"
    /\ conn' = Closed(clients)
    /\ clients' = {}
    /\ late' = {c \in Conn : conn[c].handler \in {"bootstrap", "register", "spawn"}}
    /\ UNCHANGED <<clientWg, sendVars, watchVars>>

(* Mutant: Close does not wait for the pumps. *)
CloseWithoutWaiting == Phase("waitClients", "returned")

WaitClients == Phase("waitClients", "returned") /\ clientWg = 0

ShuttingDown == \/ StopListener \/ CancelServer \/ WaitServer \/ CancelSession
                \/ WaitSession \/ SendCloseFrames \/ CloseClients \/ WaitClients

-----------------------------------------------------------------------------
Next == \/ \E c \in Conn : \/ Upgrade(c) \/ Handshake(c) \/ PeerLeaves(c)
                           \/ ReadPump(c) \/ WritePump(c) \/ Tick(c)
        \/ Sender
        \/ Event \/ PollStatus \/ WatchExits \/ Callback \/ PrewarmEnds
        \/ Shutdown \/ ShuttingDown

Spec == Init /\ [][Next]_vars

(* Goroutines run; a write ends by its deadline, and select takes no one   *)
(* case for ever. Nothing makes a peer come, answer or leave, a file       *)
(* change, or anyone call Shutdown.                                        *)
Fairness ==
    /\ \A c \in Conn : /\ WF_vars(Handshake(c)) /\ WF_vars(ReadPump(c))
                       /\ SF_vars(SeeDone(c)) /\ SF_vars(LockPing(c))
                       /\ WF_vars(Ping(c) \/ removeClient(c) \/ LeaveWritePump(c))
                       /\ SF_vars(LockSend(c)) /\ WF_vars(Send(c))
    /\ WF_vars(Take \/ DropFailed) /\ SF_vars(SenderExits)
    /\ WF_vars(WatchExits) /\ WF_vars(Callback) /\ WF_vars(PrewarmEnds)
    /\ WF_vars(ShuttingDown)

FairSpec == Spec /\ Fairness

-----------------------------------------------------------------------------
(* What the variables may hold. *)
Connection ==
    [handler : {"none", "bootstrap", "register", "spawn", "returned", "failed"},
     read    : {"none", "read", "leave", "ended"},
     write   : {"none", "select", "lock", "ping", "remove", "leave", "ended"},
     mu      : {Nobody, "sender", "pump"},
     open    : BOOLEAN, peer : BOOLEAN, done : BOOLEAN]

StateTypes ==
    /\ conn \in [Conn -> Connection]
    /\ clients \subseteq Conn /\ late \subseteq Conn
    /\ sender \in [pc : {"select", "send", "ended"}, now : Conn \cup {Nobody},
                   to : SUBSET Conn, failed : SUBSET Conn]
    /\ queued \in 0..MaxQueued
    /\ watching \in BOOLEAN /\ timer \in BOOLEAN
    /\ callback \in {"idle", "reload", "schedule", "broadcast"}
    /\ prewarms \in 0..MaxPrewarms
    /\ \E i \in 1..Len(Phases) : shutdown = Phases[i]

TypeOK ==
    /\ StateTypes
    /\ clientWg \in 0..2 * Cardinality(Conn)
    /\ sessionWg \in 0..MaxPrewarms + 1

(* A WebSocket connection supports one concurrent writer: the handler that *)
(* bootstraps it without a lock, the broadcast and the pings exclude each  *)
(* other.                                                                  *)
Writers(c) == (IF conn[c].handler = "bootstrap" THEN {"handler"} ELSE {})
              \cup (IF sender.now = c THEN {"sender"} ELSE {})
              \cup (IF conn[c].write = "ping" THEN {"pump"} ELSE {})

OneWriter == \A c \in Conn : Cardinality(Writers(c)) <= 1

(* Whoever takes a connection out of the clients map closes it, and nobody *)
(* closes one that stays in: a registered connection is in the map exactly *)
(* as long as it is open, however removeClient, sendToAllClients and Close *)
(* overlap.                                                                *)
RegisteredWhileOpen ==
    \A c \in Conn : conn[c].handler \in {"spawn", "returned"} => (c \in clients <=> conn[c].open)

(* The WaitGroups count what they wait for: the pumps alive, and the       *)
(* broadcast with the prewarm goroutines; Close hangs, or returns early,   *)
(* if one is off by one.                                                   *)
Readers == {c \in Conn : conn[c].read \in {"read", "leave"}}
WritePumps == {c \in Conn : conn[c].write \in {"select", "lock", "ping", "remove", "leave"}}
PumpLive(c) == c \in Readers \cup WritePumps

WaitGroupsCount ==
    /\ clientWg = Cardinality(Readers) + Cardinality(WritePumps)
    /\ sessionWg = prewarms + (IF sender.pc = "ended" THEN 0 ELSE 1)

(* When Close returns, the pumps of every connection have ended, but for   *)
(* those whose handler was still running when Close closed the others.     *)
ClosedAfterPumps == shutdown = "returned" => \A c \in Conn : PumpLive(c) => c \in late

(* A client whose peer is gone does not stay: its connection is taken out  *)
(* of the map and both its pumps end.                                      *)
BrokenClientsGo ==
    \A c \in Conn : (conn[c].handler = "returned" /\ ~conn[c].peer)
                        ~> (c \notin clients /\ ~PumpLive(c))

(* Shutdown comes back, unless a handler was still running when Close      *)
(* closed the connections it found: then it may wait for that client.      *)
ShutdownReturns == (shutdown = "http") ~> (shutdown = "returned" \/ late # {})

=============================================================================
