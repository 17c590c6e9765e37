----------------------- MODULE ClientConnections_proof -----------------------
(***************************************************************************)
(* Any number of connections: one writer at a time, the clients map and    *)
(* the open connections, the WaitGroups, and what Close has waited for.    *)
(***************************************************************************)
EXTENDS ClientConnections, FiniteSetTheorems, TLAPS

(* Who holds the write mutex of a connection writes to it, and the others  *)
(* do not.                                                                 *)
Mutex ==
    \A c \in Conn : /\ conn[c].mu = "sender" <=> sender.now = c
                    /\ conn[c].mu = "pump" <=> conn[c].write = "ping"

(* The pumps run, and the broadcast knows the connection, only after its   *)
(* handler has registered it; nobody closes it before.                     *)
Registration ==
    \A c \in Conn :
        /\ conn[c].handler # "returned" => conn[c].read = "none" /\ conn[c].write = "none"
        /\ conn[c].handler \in {"none", "bootstrap", "register"} => conn[c].open
        /\ c \in clients \cup sender.to \cup sender.failed \cup {sender.now}
              => conn[c].handler \in {"spawn", "returned"}

(* A handler that Close did not see run does not run afterwards.           *)
LateHandlers ==
    shutdown \in {"waitClients", "returned"} =>
        \A c \in Conn : conn[c].handler \in {"bootstrap", "register", "spawn"} => c \in late

ConnInv == /\ StateTypes /\ Mutex /\ Registration /\ RegisteredWhileOpen
           /\ WaitGroupsCount /\ LateHandlers /\ ClosedAfterPumps

-----------------------------------------------------------------------------
LEMMA ConstantFacts ==
    /\ IsFiniteSet(Conn) /\ Nobody \notin Conn /\ Nobody # "sender" /\ Nobody # "pump"
    /\ MaxQueued \in Nat \ {0} /\ MaxPrewarms \in Nat \ {0}
BY ConnAssumption

(* The tuple of phases, as far as the proofs look at it.                   *)
LEMMA PhaseNames ==
    /\ Len(Phases) = 10
    /\ Phases[1] = "running" /\ Phases[2] = "http" /\ Phases[3] = "cancel"
    /\ Phases[4] = "waitServer" /\ Phases[5] = "close" /\ Phases[6] = "waitSession"
    /\ Phases[7] = "frames" /\ Phases[8] = "sweep" /\ Phases[9] = "waitClients"
    /\ Phases[10] = "returned"
BY DEF Phases

LEMMA BeforeCancel == Before("cancel") => shutdown \in {"running", "http"}
<1> SUFFICES ASSUME NEW i \in 1..Len(Phases), NEW j \in 1..Len(Phases),
                    i < j, Phases[i] = shutdown, Phases[j] = "cancel"
             PROVE  shutdown \in {"running", "http"}
  BY DEF Before
<1>1. j \in 1..10 /\ i \in 1..10
  BY PhaseNames
<1>2. j = 3
  BY <1>1, PhaseNames
<1>3. i = 1 \/ i = 2
  BY <1>1, <1>2
<1> QED BY <1>3, PhaseNames

LEMMA PhaseType ==
    ASSUME NEW s \in {"running", "http", "cancel", "waitServer", "close", "waitSession",
                      "frames", "sweep", "waitClients", "returned"}
    PROVE  \E i \in 1..Len(Phases) : s = Phases[i]
BY PhaseNames

(* A set of connections has so many elements, and one more or less after a *)
(* connection came or went.                                                *)
LEMMA CountType ==
    ASSUME NEW S \in SUBSET Conn
    PROVE  IsFiniteSet(S) /\ Cardinality(S) \in Nat /\ Cardinality(S) <= Cardinality(Conn)
BY ConstantFacts, FS_Subset, FS_CardinalityType

LEMMA PumpSets == Readers \in SUBSET Conn /\ WritePumps \in SUBSET Conn
BY DEF Readers, WritePumps

(* The steps, those that neither a connection nor the broadcast takes      *)
(* together.                                                               *)
Quiet == UNCHANGED <<conn, clients, clientWg, sender>>

LEMMA StepCases ==
    ASSUME [Next]_vars
    PROVE  \/ Quiet
           \/ \E c \in Conn :
                \/ Upgrade(c) \/ Bootstrap(c) \/ registerClient(c) \/ SpawnPumps(c)
                \/ PeerLeaves(c) \/ ReadError(c) \/ LeaveReadPump(c) \/ SeeDone(c)
                \/ Tick(c) \/ LockPing(c) \/ Ping(c) \/ removeClient(c)
                \/ LeaveWritePump(c) \/ LockSend(c) \/ Send(c)
           \/ Take \/ DropFailed \/ SenderExits \/ CloseClients
<1>1. CASE UNCHANGED vars
  BY <1>1 DEF vars, connVars, others, sendVars, Quiet
<1>2. CASE Event \/ PollStatus \/ WatchExits \/ Callback \/ PrewarmEnds
  BY <1>2 DEF Event, PollStatus, WatchExits, Callback, Fire, ReloadRepository,
              SchedulePrewarm, Broadcast, PrewarmEnds, connVars, sendVars, Quiet
<1>3. CASE Shutdown \/ ShuttingDown
  BY <1>3 DEF Shutdown, ShuttingDown, StopListener, CancelServer, WaitServer, CancelSession,
              WaitSession, SendCloseFrames, WaitClients, Phase, connVars, sendVars, Quiet
<1> QED
  BY <1>1, <1>2, <1>3 DEF Next, Handshake, ReadPump, WritePump, Sender

LEMMA MutexStep == ConnInv /\ [Next]_vars => Mutex'
<1> SUFFICES ASSUME ConnInv, [Next]_vars PROVE Mutex'
  OBVIOUS
<1> USE ConstantFacts DEF ConnInv, StateTypes, Connection, Mutex, Registration, others, sendVars
<1>1. CASE Quiet
  BY <1>1 DEF Quiet
<1>2. ASSUME NEW c \in Conn, Upgrade(c) PROVE Mutex'
  BY <1>2 DEF Upgrade
<1>3. ASSUME NEW c \in Conn, Bootstrap(c) PROVE Mutex'
  BY <1>3 DEF Bootstrap
<1>4. ASSUME NEW c \in Conn, registerClient(c) PROVE Mutex'
  BY <1>4 DEF registerClient
<1>5. ASSUME NEW c \in Conn, SpawnPumps(c) PROVE Mutex'
  BY <1>5 DEF SpawnPumps, StartPumps
<1>6. ASSUME NEW c \in Conn, PeerLeaves(c) PROVE Mutex'
  BY <1>6 DEF PeerLeaves
<1>7. ASSUME NEW c \in Conn, ReadError(c) PROVE Mutex'
  BY <1>7 DEF ReadError
<1>8. ASSUME NEW c \in Conn, LeaveReadPump(c) PROVE Mutex'
  BY <1>8 DEF LeaveReadPump
<1>9. ASSUME NEW c \in Conn, SeeDone(c) PROVE Mutex'
  BY <1>9 DEF SeeDone
<1>10. ASSUME NEW c \in Conn, Tick(c) PROVE Mutex'
  BY <1>10 DEF Tick
<1>11. ASSUME NEW c \in Conn, LockPing(c) PROVE Mutex'
  BY <1>11 DEF LockPing
<1>12. ASSUME NEW c \in Conn, Ping(c) PROVE Mutex'
  BY <1>12 DEF Ping
<1>13. ASSUME NEW c \in Conn, removeClient(c) PROVE Mutex'
  BY <1>13 DEF removeClient
<1>14. ASSUME NEW c \in Conn, LeaveWritePump(c) PROVE Mutex'
  BY <1>14 DEF LeaveWritePump
<1>15. ASSUME NEW c \in Conn, LockSend(c) PROVE Mutex'
  BY <1>15 DEF LockSend
<1>16. ASSUME NEW c \in Conn, Send(c) PROVE Mutex'
  <2>1. CASE sender' = [sender EXCEPT !.now = Nobody]
    BY <1>16, <2>1 DEF Send
  <2>2. CASE sender' = [sender EXCEPT !.now = Nobody, !.failed = @ \cup {c}]
    BY <1>16, <2>2 DEF Send
  <2> QED BY <1>16, <2>1, <2>2 DEF Send
<1>17. CASE Take
  BY <1>17 DEF Take, connVars
<1>18. CASE DropFailed
  BY <1>18 DEF DropFailed, Closed, IdleSender
<1>19. CASE SenderExits
  BY <1>19 DEF SenderExits, connVars
<1>20. CASE CloseClients
  BY <1>20 DEF CloseClients, Closed, sendVars
<1> QED
  BY StepCases, <1>1, <1>2, <1>3, <1>4, <1>5, <1>6, <1>7, <1>8, <1>9, <1>10,
     <1>11, <1>12, <1>13, <1>14, <1>15, <1>16, <1>17, <1>18, <1>19, <1>20

LEMMA RegistrationStep == ConnInv /\ [Next]_vars => Registration'
<1> SUFFICES ASSUME ConnInv, [Next]_vars PROVE Registration'
  OBVIOUS
<1> USE ConstantFacts DEF ConnInv, StateTypes, Connection, Mutex, Registration, RegisteredWhileOpen, others, sendVars
<1>1. CASE Quiet
  BY <1>1 DEF Quiet
<1>2. ASSUME NEW c \in Conn, Upgrade(c) PROVE Registration'
  BY <1>2 DEF Upgrade
<1>3. ASSUME NEW c \in Conn, Bootstrap(c) PROVE Registration'
  BY <1>3 DEF Bootstrap
<1>4. ASSUME NEW c \in Conn, registerClient(c) PROVE Registration'
  BY <1>4 DEF registerClient
<1>5. ASSUME NEW c \in Conn, SpawnPumps(c) PROVE Registration'
  BY <1>5 DEF SpawnPumps, StartPumps
<1>6. ASSUME NEW c \in Conn, PeerLeaves(c) PROVE Registration'
  BY <1>6 DEF PeerLeaves
<1>7. ASSUME NEW c \in Conn, ReadError(c) PROVE Registration'
  BY <1>7 DEF ReadError
<1>8. ASSUME NEW c \in Conn, LeaveReadPump(c) PROVE Registration'
  BY <1>8 DEF LeaveReadPump
<1>9. ASSUME NEW c \in Conn, SeeDone(c) PROVE Registration'
  BY <1>9 DEF SeeDone
<1>10. ASSUME NEW c \in Conn, Tick(c) PROVE Registration'
  BY <1>10 DEF Tick
<1>11. ASSUME NEW c \in Conn, LockPing(c) PROVE Registration'
  BY <1>11 DEF LockPing
<1>12. ASSUME NEW c \in Conn, Ping(c) PROVE Registration'
  BY <1>12 DEF Ping
<1>13. ASSUME NEW c \in Conn, removeClient(c) PROVE Registration'
  BY <1>13 DEF removeClient
<1>14. ASSUME NEW c \in Conn, LeaveWritePump(c) PROVE Registration'
  BY <1>14 DEF LeaveWritePump
<1>15. ASSUME NEW c \in Conn, LockSend(c) PROVE Registration'
  BY <1>15 DEF LockSend
<1>16. ASSUME NEW c \in Conn, Send(c) PROVE Registration'
  <2>1. CASE sender' = [sender EXCEPT !.now = Nobody]
    BY <1>16, <2>1 DEF Send
  <2>2. CASE sender' = [sender EXCEPT !.now = Nobody, !.failed = @ \cup {c}]
    BY <1>16, <2>2 DEF Send
  <2> QED BY <1>16, <2>1, <2>2 DEF Send
<1>17. CASE Take
  BY <1>17 DEF Take, connVars
<1>18. CASE DropFailed
  BY <1>18 DEF DropFailed, Closed, IdleSender
<1>19. CASE SenderExits
  BY <1>19 DEF SenderExits, connVars
<1>20. CASE CloseClients
  BY <1>20 DEF CloseClients, Closed, sendVars
<1> QED
  BY StepCases, <1>1, <1>2, <1>3, <1>4, <1>5, <1>6, <1>7, <1>8, <1>9, <1>10,
     <1>11, <1>12, <1>13, <1>14, <1>15, <1>16, <1>17, <1>18, <1>19, <1>20

LEMMA MapStep == ConnInv /\ [Next]_vars => RegisteredWhileOpen'
<1> SUFFICES ASSUME ConnInv, [Next]_vars PROVE RegisteredWhileOpen'
  OBVIOUS
<1> USE ConstantFacts DEF ConnInv, StateTypes, Connection, Registration, RegisteredWhileOpen, others, sendVars
<1>1. CASE Quiet
  BY <1>1 DEF Quiet
<1>2. ASSUME NEW c \in Conn, Upgrade(c) PROVE RegisteredWhileOpen'
  BY <1>2 DEF Upgrade
<1>3. ASSUME NEW c \in Conn, Bootstrap(c) PROVE RegisteredWhileOpen'
  BY <1>3 DEF Bootstrap
<1>4. ASSUME NEW c \in Conn, registerClient(c) PROVE RegisteredWhileOpen'
  BY <1>4 DEF registerClient
<1>5. ASSUME NEW c \in Conn, SpawnPumps(c) PROVE RegisteredWhileOpen'
  BY <1>5 DEF SpawnPumps, StartPumps
<1>6. ASSUME NEW c \in Conn, PeerLeaves(c) PROVE RegisteredWhileOpen'
  BY <1>6 DEF PeerLeaves
<1>7. ASSUME NEW c \in Conn, ReadError(c) PROVE RegisteredWhileOpen'
  BY <1>7 DEF ReadError
<1>8. ASSUME NEW c \in Conn, LeaveReadPump(c) PROVE RegisteredWhileOpen'
  BY <1>8 DEF LeaveReadPump
<1>9. ASSUME NEW c \in Conn, SeeDone(c) PROVE RegisteredWhileOpen'
  BY <1>9 DEF SeeDone
<1>10. ASSUME NEW c \in Conn, Tick(c) PROVE RegisteredWhileOpen'
  BY <1>10 DEF Tick
<1>11. ASSUME NEW c \in Conn, LockPing(c) PROVE RegisteredWhileOpen'
  BY <1>11 DEF LockPing
<1>12. ASSUME NEW c \in Conn, Ping(c) PROVE RegisteredWhileOpen'
  BY <1>12 DEF Ping
<1>13. ASSUME NEW c \in Conn, removeClient(c) PROVE RegisteredWhileOpen'
  BY <1>13 DEF removeClient
<1>14. ASSUME NEW c \in Conn, LeaveWritePump(c) PROVE RegisteredWhileOpen'
  BY <1>14 DEF LeaveWritePump
<1>15. ASSUME NEW c \in Conn, LockSend(c) PROVE RegisteredWhileOpen'
  BY <1>15 DEF LockSend
<1>16. ASSUME NEW c \in Conn, Send(c) PROVE RegisteredWhileOpen'
  BY <1>16 DEF Send
<1>17. CASE Take
  BY <1>17 DEF Take, connVars
<1>18. CASE DropFailed
  <2>1. \A c \in Conn : /\ conn'[c].handler = conn[c].handler
                       /\ conn'[c].open = (conn[c].open /\ c \notin sender.failed)
    BY <1>18 DEF DropFailed, Closed
  <2>2. clients' = clients \ sender.failed
    BY <1>18 DEF DropFailed
  <2> QED BY <2>1, <2>2
<1>19. CASE SenderExits
  BY <1>19 DEF SenderExits, connVars
<1>20. CASE CloseClients
  <2>1. \A c \in Conn : /\ conn'[c].handler = conn[c].handler
                       /\ conn'[c].open = (conn[c].open /\ c \notin clients)
    BY <1>20 DEF CloseClients, Closed
  <2>2. clients' = {}
    BY <1>20 DEF CloseClients
  <2> QED BY <2>1, <2>2
<1> QED
  BY StepCases, <1>1, <1>2, <1>3, <1>4, <1>5, <1>6, <1>7, <1>8, <1>9, <1>10,
     <1>11, <1>12, <1>13, <1>14, <1>15, <1>16, <1>17, <1>18, <1>19, <1>20

(* Types: every action, one by one.                                         *)
LEMMA TypesStep == ConnInv /\ [Next]_vars => StateTypes'
<1> SUFFICES ASSUME ConnInv, [Next]_vars PROVE StateTypes'
  OBVIOUS
<1> USE ConstantFacts DEF ConnInv, StateTypes, connVars, others, sendVars, watchVars, closeVars
<1>0. ASSUME NEW c \in Conn PROVE conn[c] \in Connection
  OBVIOUS
<1>1. CASE UNCHANGED vars
  BY <1>1 DEF vars
<1>2. ASSUME NEW c \in Conn, Upgrade(c) PROVE StateTypes'
  BY <1>2 DEF Upgrade, Connection
<1>3. ASSUME NEW c \in Conn, Bootstrap(c) PROVE StateTypes'
  BY <1>3 DEF Bootstrap, Connection
<1>4. ASSUME NEW c \in Conn, registerClient(c) PROVE StateTypes'
  BY <1>4 DEF registerClient, Connection
<1>5. ASSUME NEW c \in Conn, SpawnPumps(c) PROVE StateTypes'
  <2>1. [conn[c] EXCEPT !.handler = "returned", !.read = "read", !.write = "select"] \in Connection
    BY <1>0 DEF Connection
  <2>2. conn' = [conn EXCEPT ![c] = [conn[c] EXCEPT !.handler = "returned", !.read = "read", !.write = "select"]]
    BY <1>5 DEF SpawnPumps, StartPumps
  <2>3. conn' \in [Conn -> Connection]
    BY <2>1, <2>2
  <2> QED BY <1>5, <2>3 DEF SpawnPumps, StartPumps
<1>6. ASSUME NEW c \in Conn, PeerLeaves(c) PROVE StateTypes'
  <2>1. [conn[c] EXCEPT !.peer = FALSE] \in Connection
    BY <1>0 DEF Connection
  <2>2. conn' = [conn EXCEPT ![c] = [conn[c] EXCEPT !.peer = FALSE]]
    BY <1>6 DEF PeerLeaves
  <2>3. conn' \in [Conn -> Connection]
    BY <2>1, <2>2
  <2> QED BY <1>6, <2>3 DEF PeerLeaves
<1>7. ASSUME NEW c \in Conn, ReadError(c) PROVE StateTypes'
  <2>1. [conn[c] EXCEPT !.read = "leave", !.done = TRUE] \in Connection
    BY <1>0 DEF Connection
  <2>2. conn' = [conn EXCEPT ![c] = [conn[c] EXCEPT !.read = "leave", !.done = TRUE]]
    BY <1>7 DEF ReadError
  <2>3. conn' \in [Conn -> Connection]
    BY <2>1, <2>2
  <2> QED BY <1>7, <2>3 DEF ReadError
<1>8. ASSUME NEW c \in Conn, LeaveReadPump(c) PROVE StateTypes'
  BY <1>8 DEF LeaveReadPump, Connection
<1>9. ASSUME NEW c \in Conn, SeeDone(c) PROVE StateTypes'
  BY <1>9 DEF SeeDone, Connection
<1>10. ASSUME NEW c \in Conn, Tick(c) PROVE StateTypes'
  BY <1>10 DEF Tick, Connection
<1>11. ASSUME NEW c \in Conn, LockPing(c) PROVE StateTypes'
  BY <1>11 DEF LockPing, Connection
<1>12. ASSUME NEW c \in Conn, Ping(c) PROVE StateTypes'
  BY <1>12 DEF Ping, Connection
<1>13. ASSUME NEW c \in Conn, removeClient(c) PROVE StateTypes'
  <2>1. [conn[c] EXCEPT !.write = "leave", !.open = @ /\ c \notin clients] \in Connection
    BY <1>0 DEF Connection
  <2>2. conn' = [conn EXCEPT ![c] = [conn[c] EXCEPT !.write = "leave", !.open = @ /\ c \notin clients]]
    BY <1>13 DEF removeClient
  <2>3. conn' \in [Conn -> Connection]
    BY <2>1, <2>2
  <2> QED BY <1>13, <2>3 DEF removeClient
<1>14. ASSUME NEW c \in Conn, LeaveWritePump(c) PROVE StateTypes'
  BY <1>14 DEF LeaveWritePump, Connection
<1>15. ASSUME NEW c \in Conn, LockSend(c) PROVE StateTypes'
  <2>1. [conn[c] EXCEPT !.mu = "sender"] \in Connection
    BY <1>0 DEF Connection
  <2>2. conn' = [conn EXCEPT ![c] = [conn[c] EXCEPT !.mu = "sender"]]
    BY <1>15 DEF LockSend
  <2>3. conn' \in [Conn -> Connection]
    BY <2>1, <2>2
  <2> QED BY <1>15, <2>3 DEF LockSend
<1>16. ASSUME NEW c \in Conn, Send(c) PROVE StateTypes'
  <2>1. [conn[c] EXCEPT !.mu = Nobody] \in Connection
    BY <1>0 DEF Connection
  <2>2. conn' = [conn EXCEPT ![c] = [conn[c] EXCEPT !.mu = Nobody]]
    BY <1>16 DEF Send
  <2>3. conn' \in [Conn -> Connection]
    BY <2>1, <2>2
  <2>4. sender' \in [pc : {"select", "send", "ended"}, now : Conn \cup {Nobody},
                     to : SUBSET Conn, failed : SUBSET Conn]
    <3>1. CASE sender' = [sender EXCEPT !.now = Nobody]
      BY <3>1
    <3>2. CASE sender' = [sender EXCEPT !.now = Nobody, !.failed = @ \cup {c}]
      BY <3>2
    <3> QED BY <1>16, <3>1, <3>2 DEF Send
  <2> QED BY <1>16, <2>3, <2>4 DEF Send
<1>17. CASE Take
  <2>1. sender' \in [pc : {"select", "send", "ended"}, now : Conn \cup {Nobody},
                     to : SUBSET Conn, failed : SUBSET Conn]
    BY <1>17 DEF Take
  <2>2. queued' \in 0..MaxQueued
    BY <1>17 DEF Take
  <2> QED BY <1>17, <2>1, <2>2 DEF Take
<1>18. CASE DropFailed
  <2>1. ASSUME NEW c \in Conn
        PROVE  [conn[c] EXCEPT !.open = @ /\ c \notin sender.failed] \in Connection
    BY <1>0 DEF Connection
  <2>2. conn' \in [Conn -> Connection]
    BY <1>18, <2>1 DEF DropFailed, Closed
  <2> QED BY <1>18, <2>2 DEF DropFailed, IdleSender
<1>19. CASE SenderExits
  BY <1>19 DEF SenderExits, Connection
<1>20. CASE CloseClients
  <2>1. ASSUME NEW c \in Conn
        PROVE  [conn[c] EXCEPT !.open = @ /\ c \notin clients] \in Connection
    BY <1>0 DEF Connection
  <2>2. conn' \in [Conn -> Connection]
    BY <1>20, <2>1 DEF CloseClients, Closed
  <2> QED BY <1>20, <2>2, PhaseNames DEF CloseClients
<1>21. CASE Event
  BY <1>21 DEF Event
<1>22. CASE PollStatus
  BY <1>22 DEF PollStatus, Enqueue
<1>23. CASE WatchExits
  BY <1>23 DEF WatchExits
<1>24. CASE Fire
  BY <1>24 DEF Fire
<1>25. CASE ReloadRepository
  BY <1>25 DEF ReloadRepository
<1>26. CASE SchedulePrewarm
  BY <1>26 DEF SchedulePrewarm
<1>27. CASE Broadcast
  BY <1>27 DEF Broadcast, Enqueue
<1>28. CASE PrewarmEnds
  BY <1>28 DEF PrewarmEnds
<1>29. CASE Shutdown
  BY <1>29, PhaseNames DEF Shutdown, Phase
<1>30. CASE StopListener
  BY <1>30, PhaseNames DEF StopListener, Phase
<1>31. CASE CancelServer
  BY <1>31, PhaseNames DEF CancelServer, Phase
<1>32. CASE WaitServer
  BY <1>32, PhaseNames DEF WaitServer, Phase
<1>33. CASE CancelSession
  BY <1>33, PhaseNames DEF CancelSession, Phase
<1>34. CASE WaitSession
  BY <1>34, PhaseNames DEF WaitSession, Phase
<1>35. CASE SendCloseFrames
  BY <1>35, PhaseNames DEF SendCloseFrames, Phase
<1>36. CASE WaitClients
  BY <1>36, PhaseNames DEF WaitClients, Phase
<1> QED
  BY <1>1, <1>2, <1>3, <1>4, <1>5, <1>6, <1>7, <1>8, <1>9, <1>10, <1>11, <1>12,
     <1>13, <1>14, <1>15, <1>16, <1>17, <1>18, <1>19, <1>20, <1>21, <1>22, <1>23, <1>24,
     <1>25, <1>26, <1>27, <1>28, <1>29, <1>30, <1>31, <1>32, <1>33, <1>34, <1>35, <1>36
  DEF Next, Handshake, ReadPump, WritePump, Sender, Callback, ShuttingDown

(* What a step does to the pumps alive and to the counter of them.         *)
SamePumps == Readers' = Readers /\ WritePumps' = WritePumps /\ clientWg' = clientWg
PumpsStart(c) ==
    /\ conn[c].handler = "spawn" /\ c \notin Readers /\ c \notin WritePumps
    /\ Readers' = Readers \cup {c} /\ WritePumps' = WritePumps \cup {c}
    /\ clientWg' = clientWg + 2
ReaderEnds(c) ==
    /\ c \in Readers /\ Readers' = Readers \ {c} /\ WritePumps' = WritePumps
    /\ clientWg' = clientWg - 1
WriterEnds(c) ==
    /\ c \in WritePumps /\ Readers' = Readers /\ WritePumps' = WritePumps \ {c}
    /\ clientWg' = clientWg - 1

LEMMA PumpsStep ==
    ASSUME ConnInv, [Next]_vars
    PROVE  \/ SamePumps
           \/ \E c \in Conn : PumpsStart(c) \/ ReaderEnds(c) \/ WriterEnds(c)
<1> USE DEF ConnInv, StateTypes, Connection, Readers, WritePumps
<1>1. ASSUME NEW c \in Conn, SpawnPumps(c) PROVE PumpsStart(c)
  BY <1>1 DEF SpawnPumps, StartPumps, Registration, PumpsStart
<1>2. ASSUME NEW c \in Conn, LeaveReadPump(c) PROVE ReaderEnds(c)
  BY <1>2 DEF LeaveReadPump, ReaderEnds
<1>3. ASSUME NEW c \in Conn, LeaveWritePump(c) PROVE WriterEnds(c)
  BY <1>3 DEF LeaveWritePump, WriterEnds
<1>4. ASSUME NEW c \in Conn, Upgrade(c) PROVE SamePumps
  BY <1>4 DEF Upgrade, SamePumps
<1>5. ASSUME NEW c \in Conn, Bootstrap(c) PROVE SamePumps
  BY <1>5 DEF Bootstrap, SamePumps
<1>6. ASSUME NEW c \in Conn, registerClient(c) PROVE SamePumps
  BY <1>6 DEF registerClient, SamePumps
<1>7. ASSUME NEW c \in Conn, PeerLeaves(c) PROVE SamePumps
  BY <1>7 DEF PeerLeaves, SamePumps
<1>8. ASSUME NEW c \in Conn, ReadError(c) PROVE SamePumps
  BY <1>8 DEF ReadError, SamePumps
<1>9. ASSUME NEW c \in Conn, SeeDone(c) PROVE SamePumps
  BY <1>9 DEF SeeDone, SamePumps
<1>10. ASSUME NEW c \in Conn, Tick(c) PROVE SamePumps
  BY <1>10 DEF Tick, SamePumps
<1>11. ASSUME NEW c \in Conn, LockPing(c) PROVE SamePumps
  BY <1>11 DEF LockPing, SamePumps
<1>12. ASSUME NEW c \in Conn, Ping(c) PROVE SamePumps
  BY <1>12 DEF Ping, SamePumps
<1>13. ASSUME NEW c \in Conn, removeClient(c) PROVE SamePumps
  BY <1>13 DEF removeClient, SamePumps
<1>14. ASSUME NEW c \in Conn, LockSend(c) PROVE SamePumps
  BY <1>14 DEF LockSend, SamePumps
<1>15. ASSUME NEW c \in Conn, Send(c) PROVE SamePumps
  BY <1>15 DEF Send, SamePumps
<1>16. CASE Take
  BY <1>16 DEF Take, connVars, SamePumps
<1>17. CASE DropFailed
  BY <1>17 DEF DropFailed, Closed, SamePumps
<1>18. CASE SenderExits
  BY <1>18 DEF SenderExits, connVars, SamePumps
<1>19. CASE CloseClients
  BY <1>19 DEF CloseClients, Closed, SamePumps
<1>20. CASE Quiet
  BY <1>20 DEF Quiet, SamePumps
<1> QED
  BY StepCases, <1>1, <1>2, <1>3, <1>4, <1>5, <1>6, <1>7, <1>8, <1>9, <1>10,
     <1>11, <1>12, <1>13, <1>14, <1>15, <1>16, <1>17, <1>18, <1>19, <1>20

LEMMA ClientWgStep ==
    ASSUME ConnInv, [Next]_vars
    PROVE  (clientWg = Cardinality(Readers) + Cardinality(WritePumps))'
<1> DEFINE R == Cardinality(Readers)
           W == Cardinality(WritePumps)
<1>1. clientWg = R + W /\ R \in Nat /\ W \in Nat
  BY PumpSets, CountType DEF ConnInv, WaitGroupsCount
<1>2. IsFiniteSet(Readers) /\ IsFiniteSet(WritePumps)
  BY PumpSets, CountType
<1>3. CASE SamePumps
  BY <1>1, <1>3 DEF SamePumps
<1>4. ASSUME NEW c \in Conn, PumpsStart(c)
      PROVE  R' = R + 1 /\ W' = W + 1 /\ clientWg' = clientWg + 2
  BY <1>2, <1>4, FS_AddElement DEF PumpsStart
<1>5. ASSUME NEW c \in Conn, ReaderEnds(c)
      PROVE  R' = R - 1 /\ W' = W /\ clientWg' = clientWg - 1
  BY <1>2, <1>5, FS_RemoveElement DEF ReaderEnds
<1>6. ASSUME NEW c \in Conn, WriterEnds(c)
      PROVE  R' = R /\ W' = W - 1 /\ clientWg' = clientWg - 1
  BY <1>2, <1>6, FS_RemoveElement DEF WriterEnds
<1>7. CASE R' = R + 1 /\ W' = W + 1 /\ clientWg' = clientWg + 2
  BY <1>1, <1>7
<1>8. CASE \/ R' = R - 1 /\ W' = W /\ clientWg' = clientWg - 1
           \/ R' = R /\ W' = W - 1 /\ clientWg' = clientWg - 1
  BY <1>1, <1>8
<1> QED
  BY PumpsStep, <1>3, <1>4, <1>5, <1>6, <1>7, <1>8

(* What rs.wg counts: the broadcast and the prewarm goroutines.            *)
SessionCount == sessionWg = prewarms + (IF sender.pc = "ended" THEN 0 ELSE 1)

LEMMA SessionWgStep == ConnInv /\ [Next]_vars => SessionCount'
<1> SUFFICES ASSUME ConnInv, [Next]_vars PROVE SessionCount'
  OBVIOUS
<1> USE DEF ConnInv, WaitGroupsCount, SessionCount
<1> DEFINE Same == sender.pc' = sender.pc /\ UNCHANGED <<prewarms, sessionWg>>
<1>0. /\ prewarms \in Nat /\ sessionWg = prewarms + (IF sender.pc = "ended" THEN 0 ELSE 1)
      /\ sender \in [pc : {"select", "send", "ended"}, now : Conn \cup {Nobody},
                     to : SUBSET Conn, failed : SUBSET Conn]
  BY ConstantFacts DEF StateTypes
<1>1. CASE Same
  BY <1>0, <1>1
<1>2. CASE SchedulePrewarm
  BY <1>0, <1>2 DEF SchedulePrewarm, sendVars
<1>3. CASE PrewarmEnds
  BY <1>0, <1>3 DEF PrewarmEnds, sendVars
<1>4. CASE SenderExits
  BY <1>0, <1>4 DEF SenderExits
<1>5. ASSUME NEW c \in Conn, LockSend(c) \/ Send(c) PROVE SessionCount'
  BY <1>0, <1>5 DEF LockSend, Send, watchVars
<1>6. CASE Take \/ DropFailed
  <2>1. sender.pc # "ended" /\ sender'.pc # "ended"
    <3>1. CASE Take
      BY <1>0, <3>1 DEF Take
    <3>2. CASE DropFailed
      BY <3>2 DEF DropFailed, IdleSender
    <3> QED BY <1>6, <3>1, <3>2
  <2>2. UNCHANGED <<prewarms, sessionWg>>
    BY <1>6 DEF Take, DropFailed, watchVars
  <2> QED BY <1>0, <2>1, <2>2
<1>7. CASE Quiet /\ UNCHANGED <<prewarms, sessionWg>>
  BY <1>0, <1>7 DEF Quiet
<1>8. ASSUME NEW c \in Conn,
             \/ Upgrade(c) \/ Handshake(c) \/ PeerLeaves(c)
             \/ ReadPump(c) \/ WritePump(c) \/ Tick(c)
      PROVE  Same
  BY <1>8 DEF Upgrade, Handshake, Bootstrap, registerClient, SpawnPumps, StartPumps, PeerLeaves,
     ReadPump, ReadError, LeaveReadPump, WritePump, SeeDone, LockPing, Ping, removeClient,
     LeaveWritePump, Tick, others, sendVars, watchVars
<1>9. CASE Event \/ PollStatus \/ WatchExits \/ Fire \/ ReloadRepository \/ Broadcast
  BY <1>9, <1>7 DEF Event, PollStatus, WatchExits, Fire, ReloadRepository, Broadcast,
     connVars, sendVars, watchVars, Quiet
<1>10. CASE Shutdown \/ ShuttingDown
  BY <1>10, <1>1 DEF Shutdown, ShuttingDown, StopListener, CancelServer, WaitServer,
     CancelSession, WaitSession, SendCloseFrames, CloseClients, WaitClients, Phase,
     sendVars, watchVars
<1>11. CASE UNCHANGED vars
  BY <1>11, <1>1 DEF vars, others, sendVars, watchVars
<1> QED
  BY <1>1, <1>2, <1>3, <1>4, <1>5, <1>6, <1>8, <1>9, <1>10, <1>11 DEF Next, Sender, Callback

LEMMA WaitGroupsStep == ConnInv /\ [Next]_vars => WaitGroupsCount'
BY ClientWgStep, SessionWgStep DEF WaitGroupsCount, SessionCount

(* The handler of a connection has been upgraded and has not returned.      *)
Running(c) == conn[c].handler \in {"bootstrap", "register", "spawn"}

(* Only an upgrade starts a handler.                                       *)
LEMMA HandlerStep ==
    ASSUME ConnInv, [Next]_vars
    PROVE  (\E c \in Conn : Upgrade(c)) \/ \A x \in Conn : Running(x)' => Running(x)
<1> DEFINE NoneStarts == \A x \in Conn : Running(x)' => Running(x)
<1> USE DEF ConnInv, StateTypes, Connection, Running
<1>1. ASSUME NEW c \in Conn, Bootstrap(c) \/ registerClient(c) PROVE NoneStarts
  BY <1>1 DEF Bootstrap, registerClient
<1>2. ASSUME NEW c \in Conn, SpawnPumps(c) PROVE NoneStarts
  BY <1>2 DEF SpawnPumps, StartPumps
<1>3. ASSUME NEW c \in Conn, PeerLeaves(c) \/ ReadError(c) \/ LeaveReadPump(c) PROVE NoneStarts
  BY <1>3 DEF PeerLeaves, ReadError, LeaveReadPump
<1>4. ASSUME NEW c \in Conn, SeeDone(c) \/ Tick(c) \/ LockPing(c) PROVE NoneStarts
  BY <1>4 DEF SeeDone, Tick, LockPing
<1>5. ASSUME NEW c \in Conn, Ping(c) \/ removeClient(c) \/ LeaveWritePump(c) PROVE NoneStarts
  BY <1>5 DEF Ping, removeClient, LeaveWritePump
<1>6. ASSUME NEW c \in Conn, LockSend(c) \/ Send(c) PROVE NoneStarts
  BY <1>6 DEF LockSend, Send
<1>7. CASE Take \/ SenderExits \/ Quiet
  BY <1>7 DEF Take, SenderExits, Quiet, connVars
<1>8. CASE DropFailed \/ CloseClients
  BY <1>8 DEF DropFailed, CloseClients, Closed
<1> QED
  BY StepCases, <1>1, <1>2, <1>3, <1>4, <1>5, <1>6, <1>7, <1>8

(* How the last phases of Close are entered.                               *)
LEMMA ShutdownStep ==
    ASSUME [Next]_vars, shutdown' \in {"waitClients", "returned"}
    PROVE  \/ CloseClients
           \/ late' = late /\ (shutdown' = shutdown \/ WaitClients)
<1>1. CASE UNCHANGED vars
  BY <1>1 DEF vars, others, closeVars
<1>2. ASSUME NEW c \in Conn,
             \/ Upgrade(c) \/ Handshake(c) \/ PeerLeaves(c)
             \/ ReadPump(c) \/ WritePump(c) \/ Tick(c)
      PROVE  UNCHANGED closeVars
  BY <1>2 DEF Upgrade, Handshake, Bootstrap, registerClient, SpawnPumps, StartPumps, PeerLeaves,
     ReadPump, ReadError, LeaveReadPump, WritePump, SeeDone, LockPing, Ping, removeClient,
     LeaveWritePump, Tick, others
<1>3. CASE Sender
  BY <1>3 DEF Sender, Take, DropFailed, SenderExits, LockSend, Send, closeVars
<1>4. CASE Event \/ PollStatus \/ WatchExits \/ Callback \/ PrewarmEnds
  BY <1>4 DEF Event, PollStatus, WatchExits, Callback, Fire, ReloadRepository, SchedulePrewarm,
     Broadcast, PrewarmEnds, closeVars
<1>5. CASE Shutdown \/ ShuttingDown
  BY <1>5 DEF Shutdown, ShuttingDown, StopListener, CancelServer, WaitServer, CancelSession,
     WaitSession, SendCloseFrames, WaitClients, Phase
<1> QED
  BY <1>1, <1>2, <1>3, <1>4, <1>5 DEF Next, closeVars

LEMMA LateStep == ConnInv /\ [Next]_vars => LateHandlers'
<1> SUFFICES ASSUME ConnInv, [Next]_vars, shutdown' \in {"waitClients", "returned"},
                    NEW x \in Conn, Running(x)'
             PROVE  x \in late'
  BY DEF LateHandlers, Running
<1>1. CASE CloseClients
  <2>1. conn'[x].handler = conn[x].handler
    BY <1>1 DEF CloseClients, Closed, ConnInv, StateTypes, Connection
  <2> QED BY <1>1, <2>1 DEF CloseClients, Running
<1>2. CASE late' = late /\ (shutdown' = shutdown \/ WaitClients)
  <2>1. shutdown \in {"waitClients", "returned"}
    BY <1>2 DEF WaitClients, Phase
  <2>2. ~\E c \in Conn : Upgrade(c)
    BY <2>1, BeforeCancel DEF Upgrade
  <2>3. Running(x)
    BY <2>2, HandlerStep
  <2> QED BY <1>2, <2>1, <2>3 DEF ConnInv, LateHandlers, Running
<1> QED BY <1>1, <1>2, ShutdownStep

LEMMA ClosedStep == ConnInv /\ [Next]_vars => ClosedAfterPumps'
<1> SUFFICES ASSUME ConnInv, [Next]_vars, shutdown' = "returned",
                    NEW x \in Conn, PumpLive(x)'
             PROVE  x \in late'
  BY DEF ClosedAfterPumps
<1>1. CASE late' = late /\ shutdown = "returned"
  <2>1. PumpLive(x) \/ conn[x].handler = "spawn"
    BY PumpsStep DEF PumpLive, SamePumps, PumpsStart, ReaderEnds, WriterEnds
  <2> QED BY <1>1, <2>1 DEF ConnInv, LateHandlers, ClosedAfterPumps
<1>2. CASE WaitClients
  <2>1. Cardinality(Readers) = 0 /\ Cardinality(WritePumps) = 0
    <3>1. /\ clientWg = 0 /\ clientWg = Cardinality(Readers) + Cardinality(WritePumps)
          /\ Cardinality(Readers) \in Nat /\ Cardinality(WritePumps) \in Nat
      BY <1>2, PumpSets, CountType DEF WaitClients, ConnInv, WaitGroupsCount
    <3> QED BY <3>1
  <2>2. Readers = {} /\ WritePumps = {}
    BY <2>1, PumpSets, CountType, FS_EmptySet
  <2>3. Readers' = Readers /\ WritePumps' = WritePumps
    BY <1>2 DEF WaitClients, Phase, connVars, Readers, WritePumps
  <2> QED BY <2>2, <2>3 DEF PumpLive
<1>3. ~CloseClients
  BY DEF CloseClients
<1> QED BY <1>1, <1>2, <1>3, ShutdownStep

-----------------------------------------------------------------------------
(* Whatever the connections and wherever Close is, the invariant holds:    *)
(* the handler, the broadcast and the pumps of websocket.go, and Close of  *)
(* session.go, keep it step by step.                                       *)
THEOREM ConnectionsInvariant == Spec => []ConnInv
<1>1. Init => ConnInv
  <2> SUFFICES ASSUME Init PROVE ConnInv
    OBVIOUS
  <2>1. StateTypes
    <3>1. NewConn \in Connection
      BY DEF NewConn, Connection
    <3>2. conn \in [Conn -> Connection]
      BY <3>1 DEF Init
    <3>3. sender \in [pc : {"select", "send", "ended"}, now : Conn \cup {Nobody},
                     to : SUBSET Conn, failed : SUBSET Conn]
      BY DEF Init, IdleSender
    <3>4. \E i \in 1..Len(Phases) : shutdown = Phases[i]
      BY PhaseType DEF Init
    <3>5. /\ clients \subseteq Conn /\ late \subseteq Conn
          /\ queued \in 0..MaxQueued /\ prewarms \in 0..MaxPrewarms
      BY ConstantFacts DEF Init
    <3>6. /\ watching \in BOOLEAN /\ timer \in BOOLEAN
          /\ callback \in {"idle", "reload", "schedule", "broadcast"}
      BY DEF Init
    <3> QED BY <3>2, <3>3, <3>4, <3>5, <3>6 DEF StateTypes
  <2>2. Mutex /\ Registration /\ RegisteredWhileOpen
    BY ConstantFacts DEF Init, NewConn, IdleSender, Mutex, Registration, RegisteredWhileOpen
  <2>3. Readers = {} /\ WritePumps = {}
    BY DEF Init, NewConn, Readers, WritePumps
  <2>4. WaitGroupsCount
    BY <2>3, FS_EmptySet DEF Init, IdleSender, WaitGroupsCount
  <2>5. LateHandlers /\ ClosedAfterPumps
    BY DEF Init, LateHandlers, ClosedAfterPumps
  <2> QED BY <2>1, <2>2, <2>4, <2>5 DEF ConnInv
<1>2. ConnInv /\ [Next]_vars => ConnInv'
  BY MutexStep, RegistrationStep, MapStep, TypesStep, WaitGroupsStep, LateStep, ClosedStep
  DEF ConnInv
<1> QED BY <1>1, <1>2, PTL DEF Spec

(* The variables of the connections hold what they may hold, and neither   *)
(* WaitGroup counter goes below zero or above what was started.            *)
THEOREM ConnectionTypes == Spec => []TypeOK
<1>1. ConnInv => TypeOK
  <2> SUFFICES ASSUME ConnInv PROVE TypeOK
    OBVIOUS
  <2>1. clientWg \in 0..2 * Cardinality(Conn)
    <3>1. /\ Cardinality(Readers) \in Nat /\ Cardinality(Readers) <= Cardinality(Conn)
          /\ Cardinality(WritePumps) \in Nat /\ Cardinality(WritePumps) <= Cardinality(Conn)
      BY PumpSets, CountType
    <3>2. Cardinality(Conn) \in Nat
      BY ConstantFacts, FS_CardinalityType
    <3>3. clientWg = Cardinality(Readers) + Cardinality(WritePumps)
      BY DEF ConnInv, WaitGroupsCount
    <3> QED BY <3>1, <3>2, <3>3
  <2>2. sessionWg \in 0..MaxPrewarms + 1
    BY ConstantFacts DEF ConnInv, StateTypes, WaitGroupsCount
  <2> QED BY <2>1, <2>2 DEF TypeOK, ConnInv
<1> QED BY <1>1, ConnectionsInvariant, PTL

(* A connection never has two writers: handleWebSocket writes before it    *)
(* registers the connection, sendToAllClients and the pings under its      *)
(* write mutex.                                                            *)
THEOREM OneWriterAlways == Spec => []OneWriter
<1>1. ConnInv => OneWriter
  <2> SUFFICES ASSUME ConnInv, NEW c \in Conn PROVE Cardinality(Writers(c)) <= 1
    BY DEF OneWriter
  <2>1. /\ conn[c].handler = "bootstrap" => sender.now # c /\ conn[c].write # "ping"
        /\ ~(sender.now = c /\ conn[c].write = "ping")
    BY DEF ConnInv, Mutex, Registration
  <2>2. \/ Writers(c) = {} \/ Writers(c) = {"handler"}
        \/ Writers(c) = {"sender"} \/ Writers(c) = {"pump"}
    BY <2>1 DEF Writers
  <2>3. /\ Cardinality({}) = 0 /\ Cardinality({"handler"}) = 1
        /\ Cardinality({"sender"}) = 1 /\ Cardinality({"pump"}) = 1
    BY FS_EmptySet, FS_Singleton
  <2>4. Cardinality(Writers(c)) \in {0, 1}
    BY <2>2, <2>3
  <2> QED BY <2>4
<1> QED BY <1>1, ConnectionsInvariant, PTL

(* removeClient, sendToAllClients and Close agree on every connection:     *)
(* what is registered is open, and what is open stays registered.          *)
THEOREM RegisteredIffOpen == Spec => []RegisteredWhileOpen
BY ConnectionsInvariant, PTL DEF ConnInv

(* clientWg counts the pumps alive, and rs.wg the broadcast and the        *)
(* prewarm goroutines, at every step.                                      *)
THEOREM CountsAlways == Spec => []WaitGroupsCount
BY ConnectionsInvariant, PTL DEF ConnInv

(* Close returns after the pumps of every connection it could know of.     *)
THEOREM CloseAfterPumps == Spec => []ClosedAfterPumps
BY ConnectionsInvariant, PTL DEF ConnInv

=============================================================================
