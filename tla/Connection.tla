----------------------------- MODULE Connection -----------------------------
(***************************************************************************)
(* One client connection, its protocol object and the messages it sends,     *)
(* from ServicePort::onAccept to ConnectionManager::releaseConnection.       *)
(*                                                                         *)
(*   io thread    runs the handlers of finished reads, writes and timers,    *)
(*                one at a time and in the order they were queued            *)
(*   dispatcher   runs tasks; after each of them OutputMessagePool::sendAll   *)
(*                walks the messages that wait (the "sweep")                 *)
(*                                                                         *)
(* A handler or a task that holds m_connectionLock from end to end is one     *)
(* step, except when it must also take m_outputPoolLock, which the sweep       *)
(* holds while it takes m_connectionLock.  The io thread holds                *)
(* m_connectionLock until ioPc = "idle" again, so the dispatcher's steps that  *)
(* need it wait for ioPc = "idle".                                           *)
(*                                                                         *)
(* Other connections, the content of packets and the game are not modelled;   *)
(* the scheduler's 50 ms retry is a flag.  The pool grows in the code; here   *)
(* it has Messages, and the game writes only while one is left (FreeFor).     *)
(* An operator named X_How is X with a bug; no specification uses it.         *)
(***************************************************************************)
EXTENDS Integers, FiniteSets, SequencesExt

CONSTANTS Messages,         \* the OutputMessages
          NoMsg,            \* a null OutputMessage_ptr
          BadPackets,       \* what a playing client may send: "unknown" packets, or packets
                            \* that are shorter than they claim to be ("overrun")
          Faults,           \* what the client and the network may do wrong, of AllFaults
          MaxProtocolTasks  \* bound on the queued tasks that are bound to the protocol

\* A failed read or write, a header of a wrong size, too many packets, silence.
AllFaults == {"read", "write", "size", "flood", "readTimeout"}

ASSUME ConnectionAssumption ==
    /\ NoMsg \notin Messages /\ BadPackets \subseteq {"unknown", "overrun"}
    /\ Faults \subseteq AllFaults /\ MaxProtocolTasks \in Nat

VARIABLES
    connState, socket, managed,  \* m_connectionState, m_socket, in m_connections
    readError, writeError, pendingRead, pendingWrite,
    refCount,                    \* Connection::m_refCount
    protocol, protoRefs,         \* m_protocol, and the messages' part of its m_refCount
    inUse,                       \* messages out of the pool: each holds two references
    reading, writing,            \* the async_read and async_write the socket works on
    readTimer, writeTimer,       \* armed?  A timer that fired is in ioQueue
    ioQueue,                     \* handlers that wait for the io thread
    ioPc,                        \* "parsing": disconnectClient is about to take the pool's lock;
                                 \* "kicking": so is kickPlayer, which writes to its own client
    tasks,                       \* the dispatcher's tasks on this connection
    retryConn, retryProto,       \* a scheduled releaseConnection, releaseProtocol
    connecting,                  \* a scheduled connect: one more reference to the protocol
    dispPc, sweepAt,             \* the dispatcher, and where its sweep stands
    raced,                       \* addRef ran while unRef did: both counts are unlocked
    miscounted,                  \* history: an update of a count was lost that way
    autoSend, toAdd,             \* m_autoSendOutputMessages, m_toAddQueue
    outBuf,                      \* Protocol::m_outputBuffer
    age                          \* of a message that waits: young, ripe (> 10 ms or > 1 kb)
                                 \* or stale (> 10 s)

connVars  == <<connState, socket, managed, readError, writeError, pendingRead, pendingWrite>>
refVars   == <<refCount, protoRefs, inUse, raced, miscounted>>
opVars    == <<reading, writing, readTimer, writeTimer, ioQueue>>
poolVars  == <<autoSend, toAdd, outBuf>>
dispVars  == <<dispPc, sweepAt>>
retryVars == <<retryConn, retryProto, connecting>>
vars == <<connVars, refVars, protocol, opVars, ioPc, tasks, retryVars, dispVars, poolVars, age>>

Handler(h, what, ok) == [h |-> h, what |-> what, ok |-> ok]
Task(k, m) == [k |-> k, m |-> m]

\* acceptConnection(): the first header is being read.
Init ==
    /\ connState = "OPEN" /\ socket = "open" /\ managed = TRUE
    /\ readError = FALSE /\ writeError = FALSE /\ pendingRead = 1 /\ pendingWrite = 0
    /\ refCount = 0 /\ protocol = "none" /\ protoRefs = 0 /\ inUse = {}
    /\ raced = FALSE /\ miscounted = FALSE
    /\ reading = "header" /\ writing = NoMsg
    /\ readTimer = TRUE /\ writeTimer = FALSE /\ ioQueue = <<>>
    /\ ioPc = "idle" /\ tasks = <<>>
    /\ retryConn = FALSE /\ retryProto = FALSE /\ connecting = FALSE
    /\ dispPc = "idle" /\ sweepAt = 0
    /\ autoSend = <<>> /\ toAdd = <<>> /\ outBuf = NoMsg
    /\ age = [m \in Messages |-> "young"]

-----------------------------------------------------------------------------
(* Pieces of the handlers.                                                 *)

\* closeConnection: only the first request posts a task.
CloseRequested_ForgetsClosed == connState = "REQUEST_CLOSE"
CloseRequested == connState \in {"CLOSED", "REQUEST_CLOSE"}
CloseTasks_Always == <<Task("close", NoMsg)>>
CloseTasks == IF CloseRequested THEN <<>> ELSE <<Task("close", NoMsg)>>
CloseConnection(queue) ==
    /\ connState' = IF CloseRequested THEN connState ELSE "REQUEST_CLOSE"
    /\ tasks' = queue \o CloseTasks

\* closeSocket: the close aborts what the socket still works on.
Aborted == (IF reading = "none" THEN <<>> ELSE <<Handler("read", reading, FALSE)>>)
           \o (IF writing = NoMsg THEN <<>> ELSE <<Handler("write", writing, FALSE)>>)
CloseSocket ==
    /\ reading' = "none" /\ writing' = NoMsg
    /\ IF socket = "open" THEN socket' = "closed" /\ pendingRead' = 0 /\ pendingWrite' = 0
                          ELSE UNCHANGED <<socket, pendingRead, pendingWrite>>

Read(phase) == reading' = phase /\ readTimer' = TRUE

Now  == Head(ioQueue)
Rest == Tail(ioQueue)
Runs(h) == ioPc = "idle" /\ ioQueue # <<>> /\ Now.h = h

\* The last shared_ptr to m goes: releaseMessage puts a task in front of all others.
Released(m) == Task("release", m)

\* getOutputMessage and configureOutputMessage: the pool hands out one message or another.
\* The io thread may run them while the dispatcher is inside internalReleaseMessage.
NextFree == CHOOSE m \in Messages : m \notin inUse
Allocate(m) ==
    /\ m \in Messages \ inUse /\ m = NextFree /\ inUse' = inUse \cup {m}
    /\ refCount' = refCount + 1 /\ protoRefs' = protoRefs + 1
    /\ raced' = (dispPc = "unref") /\ UNCHANGED miscounted
    /\ age' = [age EXCEPT ![m] = "young"]

\* The bound on the pool: the game leaves a message to a handler that is about to need one.
FreeFor(m) == ioPc # "idle" => Messages \ inUse # {m}

\* Connection::send of m, when the connection is open and has no write error.
StartWrite_Always == TRUE
StartWrite == pendingWrite = 0
Transmit(m) ==
    IF StartWrite
    THEN /\ writing' = m /\ pendingWrite' = pendingWrite + 1 /\ writeTimer' = TRUE
         /\ outBuf' = IF outBuf = m THEN NoMsg ELSE outBuf
         /\ UNCHANGED toAdd
    ELSE toAdd' = Append(toAdd, m) /\ UNCHANGED <<writing, pendingWrite, writeTimer, outBuf>>

-----------------------------------------------------------------------------
(* The network and the clock.                                              *)

clockOther == <<connVars, refVars, protocol, ioPc, tasks, retryVars, dispVars, poolVars>>

ReadEnds(ok) ==
    /\ reading # "none" /\ reading' = "none" /\ (ok \/ "read" \in Faults)
    /\ ioQueue' = Append(ioQueue, Handler("read", reading, ok))
    /\ UNCHANGED <<writing, readTimer, writeTimer, age, clockOther>>

WriteEnds(ok) ==
    /\ writing # NoMsg /\ writing' = NoMsg /\ (ok \/ "write" \in Faults)
    /\ ioQueue' = Append(ioQueue, Handler("write", writing, ok))
    /\ UNCHANGED <<reading, readTimer, writeTimer, age, clockOther>>

ReadTimerFires ==
    /\ readTimer /\ readTimer' = FALSE /\ "readTimeout" \in Faults
    /\ ioQueue' = Append(ioQueue, Handler("readTimeout", NoMsg, TRUE))
    /\ UNCHANGED <<reading, writing, writeTimer, age, clockOther>>

WriteTimerFires ==
    /\ writeTimer /\ writeTimer' = FALSE
    /\ ioQueue' = Append(ioQueue, Handler("writeTimeout", NoMsg, TRUE))
    /\ UNCHANGED <<reading, writing, readTimer, age, clockOther>>

\* A message that waits gets older, or longer than a kilobyte (at any time: the code reads
\* the clock for "ripe" when a task starts).  The first loop of sendAll asks whether it is
\* stale, the second whether it is ripe.
Ages(m) ==
    /\ \/ Contains(autoSend, m) /\ age[m] = "young" /\ age' = [age EXCEPT ![m] = "ripe"]
       \/ Contains(toAdd, m) /\ age[m] # "stale" /\ age' = [age EXCEPT ![m] = "stale"]
    /\ UNCHANGED <<opVars, clockOther>>

-----------------------------------------------------------------------------
(* The io thread.                                                          *)

ioOther == <<managed, refVars, retryVars, dispVars, autoSend, age>>
readOther == <<socket, writeError, pendingWrite, writing, writeTimer, toAdd, outBuf, ioOther>>

\* parseHeader and parsePacket after an error, or on a connection that is no longer
\* open: close, and read no more.  A header that is too short or too long is an error;
\* a client that sends too many packets is closed without one.
ReadFails ==
    /\ Runs("read") /\ ioQueue' = Rest
    /\ \E bad \in {"no"} \cup (Faults \cap {"size", "flood"}) :
         /\ bad # "no" => Now.what = "header" /\ Now.ok
         /\ bad = "flood" => connState = "OPEN" /\ ~readError
         /\ ~Now.ok \/ connState # "OPEN" \/ readError \/ bad # "no"
         /\ readError' = (readError \/ ~Now.ok \/ bad = "size")
    /\ readTimer' = FALSE
    /\ CloseConnection(tasks)
    /\ UNCHANGED <<pendingRead, protocol, reading, ioPc, readOther>>

ReadSucceeds(what) == /\ Runs("read") /\ Now.what = what /\ Now.ok
                      /\ connState = "OPEN" /\ ~readError
                      /\ ioQueue' = Rest /\ UNCHANGED readError

\* parseHeader: read the body.  pendingRead goes down and up again.
ParseHeader_OnlyUp ==
    /\ ReadSucceeds("header") /\ Read("body") /\ pendingRead' = pendingRead + 1
    /\ UNCHANGED <<connState, protocol, ioPc, tasks, readOther>>
ParseHeader ==
    /\ ReadSucceeds("header") /\ Read("body")
    /\ UNCHANGED <<connState, pendingRead, protocol, ioPc, tasks, readOther>>

\* parsePacket, first packet: make_protocol finds no such protocol.
NoSuchProtocol ==
    /\ ReadSucceeds("body") /\ protocol = "none"
    /\ pendingRead' = pendingRead - 1 /\ readTimer' = FALSE
    /\ CloseConnection(tasks)
    /\ UNCHANGED <<protocol, reading, ioPc, readOther>>

\* make_protocol: the first packet attaches a protocol.
Attach == protocol' = IF protocol = "none" THEN "attached" ELSE protocol

\* parsePacket: the protocol ignores the packet, posts a task that is bound to it (login
\* for the first packet, logout for a player's), or, when it is the first one, closes the
\* connection.
ParsePacket_ForgetsToRead ==
    /\ ReadSucceeds("body") /\ readTimer' = FALSE /\ Attach
    /\ UNCHANGED <<connState, pendingRead, reading, ioPc, tasks, readOther>>

ParsePacket ==
    /\ ReadSucceeds("body") /\ Read("header") /\ Attach
    /\ \/ protocol # "none" /\ UNCHANGED <<connState, tasks>>
       \/ /\ protocol # "attached"
          /\ Cardinality({i \in DOMAIN tasks : tasks[i].k = "protocol"}) < MaxProtocolTasks
          /\ tasks' = Append(tasks, Task("protocol", NoMsg)) /\ UNCHANGED connState
       \/ protocol = "none" /\ CloseConnection(tasks)
    /\ UNCHANGED <<pendingRead, ioPc, readOther>>

\* parsePacket: the protocol answers with disconnectClient, which needs the pool: a login
\* it refuses, or an unknown packet later on.
ParseRefusedPacket ==
    /\ ReadSucceeds("body") /\ inUse # Messages /\ Attach
    /\ protocol = "none" \/ ("unknown" \in BadPackets /\ protocol = "playing")
    /\ ioPc' = "parsing" /\ readTimer' = FALSE
    /\ UNCHANGED <<connState, pendingRead, reading, tasks, readOther>>

\* A player's packet ends with the next read, or, when it was too short, with a kick: the
\* game removes the player on this thread, and whoever writes to its client meanwhile finds
\* room in the current buffer or needs the pool.
ReadOn == ioPc' = "idle" /\ Read("header")
Kicks == /\ "overrun" \in BadPackets /\ protocol = "playing" /\ inUse' # Messages
         /\ ioPc' = "kicking" /\ readTimer' = FALSE /\ UNCHANGED reading

\* parsePacket with an overrun, up to there: the player's logout closes the connection.
ParseOverrun ==
    /\ ReadSucceeds("body") /\ "overrun" \in BadPackets /\ protocol = "playing"
    /\ CloseConnection(tasks)
    /\ UNCHANGED <<pendingRead, protocol, readOther>>
    /\ ReadOn \/ Kicks

\* getOutputBuffer, called by the kick: it takes m_outputPoolLock for a new buffer.
KickPlayer ==
    /\ ioPc = "kicking" /\ dispPc # "sweep"
    /\ \E m \in Messages : Allocate(m) /\ outBuf' = m /\ autoSend' = Append(autoSend, m)
    /\ ReadOn \/ Kicks
    /\ UNCHANGED <<connVars, protocol, writing, writeTimer, ioQueue, tasks, retryVars, dispVars,
                   toAdd>>

\* disconnectClient, with m_outputPoolLock: send the reason, close, read on.  The send
\* succeeds: parsePacket found the connection open and still holds m_connectionLock.
DisconnectClient ==
    /\ ioPc = "parsing" /\ dispPc # "sweep"
    /\ \E m \in Messages : Allocate(m) /\ Transmit(m)
    /\ CloseConnection(tasks)
    /\ ReadOn \/ Kicks
    /\ UNCHANGED <<socket, managed, readError, writeError, pendingRead, protocol, ioQueue,
                   retryVars, dispVars, autoSend>>

\* onWriteOperation.  The handler object keeps its copy of the message until the handler
\* has returned.
OnWrite ==
    /\ Runs("write") /\ writeTimer' = FALSE
    /\ writeError' = (writeError \/ ~Now.ok)
    /\ LET drop == <<Handler("drop", Now.what, TRUE)>>
       IN IF connState # "OPEN" \/ writeError'
          THEN /\ CloseSocket /\ ioQueue' = drop \o Rest \o Aborted
               /\ CloseConnection(tasks)
          ELSE /\ pendingWrite' = pendingWrite - 1 /\ ioQueue' = drop \o Rest
               /\ UNCHANGED <<connState, socket, pendingRead, reading, writing, tasks>>
    /\ UNCHANGED <<readError, protocol, readTimer, ioPc, toAdd, outBuf, ioOther>>

\* The handler object of onWriteOperation goes, and the message with it.
DropMessage ==
    /\ Runs("drop") /\ ioQueue' = Rest
    /\ tasks' = <<Released(Now.what)>> \o tasks
    /\ UNCHANGED <<connVars, refVars, protocol, reading, writing, readTimer, writeTimer, ioPc,
                   retryVars, dispVars, poolVars, age>>

\* onReadTimeout and onWriteTimeout.  The weak_ptr is dead once nobody manages the
\* connection.
OnTimeout_LeavesSocket ==
    /\ Runs("readTimeout") \/ Runs("writeTimeout")
    /\ ioQueue' = Rest
    /\ UNCHANGED <<connState, socket, pendingRead, pendingWrite, reading, writing, tasks>>
    /\ UNCHANGED <<readError, writeError, protocol, readTimer, writeTimer, ioPc, toAdd, outBuf,
                   ioOther>>

OnTimeout ==
    /\ Runs("readTimeout") \/ Runs("writeTimeout")
    /\ IF managed /\ \/ Now.h = "readTimeout" /\ (pendingRead > 0 \/ readError)
                     \/ Now.h = "writeTimeout" /\ (pendingWrite > 0 \/ writeError)
       THEN CloseSocket /\ ioQueue' = Rest \o Aborted /\ CloseConnection(tasks)
       ELSE /\ ioQueue' = Rest
            /\ UNCHANGED <<connState, socket, pendingRead, pendingWrite, reading, writing, tasks>>
    /\ UNCHANGED <<readError, writeError, protocol, readTimer, writeTimer, ioPc, toAdd, outBuf,
                   ioOther>>

\* onStopOperation: delete m_socket, leave the manager.
OnStop ==
    /\ Runs("stop") /\ ioQueue' = Rest
    /\ socket' = "deleted" /\ managed' = FALSE
    /\ readTimer' = FALSE /\ writeTimer' = FALSE
    /\ UNCHANGED <<connState, readError, writeError, pendingRead, pendingWrite, refVars, protocol,
                   reading, writing, ioPc, tasks, retryVars, dispVars, poolVars, age>>

-----------------------------------------------------------------------------
(* The dispatcher: tasks.                                                  *)

Takes(k) == tasks # <<>> /\ Head(tasks).k = k

\* A task other than internalReleaseMessage, which is always in front, reaches the front.
Runnable == /\ dispPc = "idle" /\ dispPc' = "ran" /\ ~Takes("release")
            /\ UNCHANGED sweepAt

\* releaseConnection: retry while a message refers to the connection, else have the io
\* thread run onStopOperation.  (Both counts are unsigned: below zero is above it.)
ReleaseConnection(queue) ==
    IF refCount # 0
    THEN ioQueue' = queue /\ retryConn' = TRUE
    ELSE ioQueue' = Append(queue, Handler("stop", NoMsg, TRUE)) /\ retryConn' = FALSE

\* releaseProtocol: the same for the protocol, which the dispatcher deletes itself.
ReleaseProtocol_Now == protocol' = "deleted" /\ retryProto' = FALSE
ReleaseProtocol ==
    IF protoRefs + (IF connecting THEN 1 ELSE 0) # 0
    THEN protocol' = "detached" /\ retryProto' = TRUE
    ELSE protocol' = "deleted" /\ retryProto' = FALSE

Attached == protocol \in {"attached", "playing"}

CloseConnectionTask ==
    /\ Runnable /\ Takes("close") /\ ioPc = "idle" /\ tasks' = Tail(tasks)
    /\ IF connState # "REQUEST_CLOSE"
       THEN UNCHANGED <<connState, socket, pendingRead, pendingWrite, protocol, retryConn,
                        retryProto, reading, writing, ioQueue>>
       ELSE /\ IF Attached THEN ReleaseProtocol ELSE UNCHANGED <<protocol, retryProto>>
            /\ IF pendingWrite = 0 \/ writeError
               THEN /\ connState' = "CLOSED" /\ CloseSocket
                    /\ ReleaseConnection(ioQueue \o Aborted)
               ELSE /\ connState' = "CLOSING"
                    /\ UNCHANGED <<socket, pendingRead, pendingWrite, reading, writing, ioQueue,
                                   retryConn>>
    /\ UNCHANGED <<managed, readError, writeError, refVars, readTimer, writeTimer, ioPc, connecting,
                   poolVars, age>>

RetryReleaseConnection ==
    /\ Runnable /\ retryConn /\ ReleaseConnection(ioQueue)
    /\ UNCHANGED <<connVars, refVars, protocol, reading, writing, readTimer, writeTimer, ioPc,
                   tasks, retryProto, connecting, poolVars, age>>

RetryReleaseProtocol ==
    /\ Runnable /\ retryProto /\ ReleaseProtocol
    /\ UNCHANGED <<connVars, refVars, opVars, ioPc, tasks, retryConn, connecting, poolVars,
                   age>>

\* internalReleaseMessage begins to take the references back ...
UnRef ==
    /\ dispPc = "idle" /\ Takes("release") /\ dispPc' = "unref" /\ raced' = FALSE
    /\ UNCHANGED <<connVars, refCount, protoRefs, inUse, miscounted, protocol, opVars, ioPc, tasks,
                   retryVars, sweepAt, poolVars, age>>

\* ... and returns the message to the pool.  m_refCount is a plain integer that no common
\* lock protects: when an addRef came in between, either update may be lost.
Lost == IF raced THEN {-1, 0, 1} ELSE {0}
InternalReleaseMessage ==
    /\ dispPc = "unref" /\ dispPc' = "ran"
    /\ inUse' = inUse \ {Head(tasks).m}
    /\ \E conn \in Lost, proto \in Lost :
         /\ refCount' = refCount - 1 + conn /\ protoRefs' = protoRefs - 1 + proto
         /\ miscounted' = (miscounted \/ conn # 0 \/ proto # 0)
    /\ tasks' = Tail(tasks) /\ raced' = FALSE
    /\ UNCHANGED <<connVars, protocol, opVars, ioPc, retryVars, sweepAt, poolVars, age>>

\* getOutputBuffer: the current buffer while it has room, else a new message.
GetOutputBuffer ==
    \/ outBuf # NoMsg /\ UNCHANGED <<refVars, outBuf, autoSend, age>>
    \/ \E m \in Messages : /\ FreeFor(m) /\ Allocate(m)
                           /\ outBuf' = m /\ autoSend' = Append(autoSend, m)

taskOther == <<socket, managed, readError, writeError, pendingRead, reading, readTimer, ioQueue,
               ioPc>>
noSend == <<refVars, toAdd, writing, pendingWrite, writeTimer, autoSend, outBuf, age>>
noWrite == <<toAdd, writing, pendingWrite, writeTimer>>

Write(queue) == GetOutputBuffer /\ tasks' = queue /\ UNCHANGED <<connState, noWrite>>
Disconnect(queue) == ioPc = "idle" /\ CloseConnection(queue) /\ UNCHANGED noSend
DoNothing(queue) == tasks' = queue /\ UNCHANGED <<connState, noSend>>

\* disconnectClient, called by a task.  A message that cannot be sent is freed.
Refuse(queue) ==
    /\ ioPc = "idle" /\ UNCHANGED autoSend
    /\ \E m \in Messages :
         /\ Allocate(m)
         /\ IF connState = "OPEN" /\ ~writeError
            THEN Transmit(m) /\ CloseConnection(queue)
            ELSE CloseConnection(<<Released(m)>> \o queue) /\ UNCHANGED <<noWrite, outBuf>>

\* A game task, which reaches the protocol through Player::client: releaseProtocol clears it.
GameTask ==
    /\ Runnable
    /\ DoNothing(tasks) \/ (protocol = "playing" /\ (Write(tasks) \/ Disconnect(tasks)))
    /\ UNCHANGED <<protocol, retryVars, taskOther>>

\* login and connect: the player enters the game, or is refused.
EntersGame(queue) ==
    \/ protocol' = "playing" /\ Write(queue)
    \/ UNCHANGED protocol /\ Refuse(queue)

\* ProtocolGame::login, bound to the protocol.  If the player is in the game with another
\* client it disconnects that one and comes back in a second.  (The protocol is still
\* attached: ProtocolOutlivesItsUsers.)
Login ==
    /\ Runnable /\ Takes("protocol") /\ protocol = "attached"
    /\ \/ EntersGame(Tail(tasks)) /\ UNCHANGED connecting
       \/ connecting' = TRUE /\ DoNothing(Tail(tasks)) /\ UNCHANGED protocol
    /\ UNCHANGED <<retryConn, retryProto, taskOther>>

\* ProtocolGame::connect, the scheduled event.  A protocol that has lost its connection
\* meanwhile has nowhere to send to.
Connect ==
    /\ Runnable /\ connecting /\ connecting' = FALSE
    /\ IF protocol = "attached" THEN EntersGame(tasks)
                                ELSE DoNothing(tasks) /\ UNCHANGED protocol
    /\ UNCHANGED <<retryConn, retryProto, taskOther>>

\* ProtocolGame::logout, bound to the protocol.
Logout ==
    /\ Runnable /\ Takes("protocol") /\ protocol = "playing"
    /\ DoNothing(Tail(tasks)) \/ Write(Tail(tasks)) \/ Disconnect(Tail(tasks))
    /\ UNCHANGED <<protocol, retryVars, taskOther>>

-----------------------------------------------------------------------------
(* The dispatcher: sendAll, holding m_outputPoolLock.                       *)

sweepOther == <<connState, socket, managed, readError, writeError, pendingRead, refVars, protocol,
                reading, readTimer, ioQueue, ioPc, retryVars>>

\* Nobody asks for the age of a message that has left the lists.
Forget(m) == age' = [age EXCEPT ![m] = "young"]

SweepBegins ==
    /\ dispPc = "ran" /\ dispPc' = "sweep"
    /\ sweepAt' = IF toAdd = <<>> THEN 1 ELSE 0
    /\ UNCHANGED <<poolVars, tasks, pendingWrite, writing, writeTimer, age, sweepOther>>

\* The first loop, over m_toAddQueue: messages that had to wait join the others, unless
\* they are stale: those are freed.
TakeUp(stale) ==
    /\ dispPc = "sweep" /\ sweepAt = 0 /\ UNCHANGED dispPc
    /\ stale = (age[Head(toAdd)] = "stale")
    /\ toAdd' = Tail(toAdd) /\ sweepAt' = IF toAdd' = <<>> THEN 1 ELSE 0
    /\ UNCHANGED <<pendingWrite, writing, writeTimer, sweepOther>>

SweepRequeues ==
    /\ TakeUp(FALSE)
    /\ autoSend' = Append(autoSend, Head(toAdd))
    /\ UNCHANGED <<tasks, outBuf, age>>

SweepDrops ==
    /\ TakeUp(TRUE)
    /\ tasks' = <<Released(Head(toAdd))>> \o tasks
    /\ outBuf' = IF outBuf = Head(toAdd) THEN NoMsg ELSE outBuf
    /\ Forget(Head(toAdd)) /\ UNCHANGED autoSend

Sweeping == dispPc = "sweep" /\ sweepAt \in 1..Len(autoSend)

SweepKeeps ==
    /\ Sweeping /\ age[autoSend[sweepAt]] = "young"
    /\ sweepAt' = sweepAt + 1
    /\ UNCHANGED <<dispPc, poolVars, tasks, pendingWrite, writing, writeTimer, age, sweepOther>>

\* send answers FALSE: the connection is closing or broken, and the message is freed.
SweepFrees_KeepsBuffer ==
    /\ Sweeping /\ age[autoSend[sweepAt]] # "young"
    /\ ioPc = "idle" /\ (connState # "OPEN" \/ writeError)
    /\ autoSend' = RemoveAt(autoSend, sweepAt) /\ Forget(autoSend[sweepAt])
    /\ tasks' = (IF outBuf = autoSend[sweepAt] THEN <<>> ELSE <<Released(autoSend[sweepAt])>>)
                \o tasks
    /\ UNCHANGED <<dispVars, toAdd, outBuf, pendingWrite, writing, writeTimer, sweepOther>>

SweepFrees ==
    /\ Sweeping /\ age[autoSend[sweepAt]] # "young"
    /\ ioPc = "idle" /\ (connState # "OPEN" \/ writeError)
    /\ autoSend' = RemoveAt(autoSend, sweepAt) /\ Forget(autoSend[sweepAt])
    /\ tasks' = <<Released(autoSend[sweepAt])>> \o tasks
    /\ outBuf' = IF outBuf = autoSend[sweepAt] THEN NoMsg ELSE outBuf
    /\ UNCHANGED <<dispVars, toAdd, pendingWrite, writing, writeTimer, sweepOther>>

SweepSends ==
    /\ Sweeping /\ age[autoSend[sweepAt]] # "young"
    /\ ioPc = "idle" /\ connState = "OPEN" /\ ~writeError
    /\ Transmit(autoSend[sweepAt])
    /\ IF StartWrite THEN Forget(autoSend[sweepAt]) ELSE UNCHANGED age
    /\ autoSend' = RemoveAt(autoSend, sweepAt)
    /\ UNCHANGED <<dispVars, tasks, sweepOther>>

SweepEnds ==
    /\ dispPc = "sweep" /\ sweepAt > Len(autoSend)
    /\ dispPc' = "idle" /\ sweepAt' = 0
    /\ UNCHANGED <<poolVars, tasks, pendingWrite, writing, writeTimer, age, sweepOther>>

-----------------------------------------------------------------------------
Client == \E ok \in BOOLEAN : ReadEnds(ok) \/ WriteEnds(ok)
Io == \/ ReadFails \/ ParseHeader \/ NoSuchProtocol \/ ParsePacket \/ ParseRefusedPacket
      \/ DisconnectClient \/ ParseOverrun \/ KickPlayer \/ OnWrite \/ DropMessage \/ OnTimeout \/ OnStop
Queued == CloseConnectionTask \/ UnRef \/ InternalReleaseMessage \/ Login \/ Logout
Sweep == \/ SweepBegins \/ SweepRequeues \/ SweepDrops
         \/ SweepKeeps \/ SweepFrees \/ SweepSends \/ SweepEnds

Next == \/ Client \/ ReadTimerFires \/ WriteTimerFires \/ (\E m \in Messages : Ages(m))
        \/ Io \/ Queued \/ GameTask \/ RetryReleaseConnection \/ RetryReleaseProtocol
        \/ Connect \/ Sweep

\* Timers fire, messages age, both threads run what is queued for them, and the
\* scheduler brings its events back; the client may do nothing at all.  The game's
\* recurring tasks keep the dispatcher busy (GameTask), and its queue is first in, first
\* out, so they do not starve a queued task (SF).
Fairness == /\ WF_vars(Io) /\ WF_vars(Sweep) /\ WF_vars(GameTask)
            /\ WF_vars(UnRef \/ InternalReleaseMessage)
            /\ SF_vars(CloseConnectionTask) /\ SF_vars(Login \/ Logout)
            /\ WF_vars(ReadTimerFires) /\ WF_vars(WriteTimerFires)
            /\ SF_vars(RetryReleaseConnection) /\ SF_vars(RetryReleaseProtocol) /\ SF_vars(Connect)
            /\ \A m \in Messages : WF_vars(Ages(m))

Spec == Init /\ [][Next]_vars
FairSpec == Spec /\ Fairness

-----------------------------------------------------------------------------
(* Properties.                                                             *)

HandlersOf(kinds) == {i \in DOMAIN ioQueue : ioQueue[i].h \in kinds}
TasksOf(kind) == {i \in DOMAIN tasks : tasks[i].k = kind}

\* Every variable stays in its range; a count that lost no update is never negative.
TypeOK ==
    /\ connState \in {"OPEN", "REQUEST_CLOSE", "CLOSING", "CLOSED"}
    /\ socket \in {"open", "closed", "deleted"} /\ managed \in BOOLEAN
    /\ readError \in BOOLEAN /\ writeError \in BOOLEAN
    /\ pendingRead \in 0..1 /\ pendingWrite \in Nat
    /\ inUse \subseteq Messages /\ raced \in BOOLEAN /\ miscounted \in BOOLEAN
    /\ refCount \in Int /\ protoRefs \in Int
    /\ ~miscounted => refCount >= 0 /\ protoRefs >= 0
    /\ protocol \in {"none", "attached", "playing", "detached", "deleted"}
    /\ reading \in {"none", "header", "body"} /\ writing \in Messages \cup {NoMsg}
    /\ readTimer \in BOOLEAN /\ writeTimer \in BOOLEAN
    /\ \A i \in DOMAIN ioQueue :
         ioQueue[i].h \in {"read", "write", "drop", "readTimeout", "writeTimeout", "stop"}
    /\ ioPc \in {"idle", "parsing", "kicking"}
    /\ \A i \in DOMAIN tasks : tasks[i].k \in {"close", "release", "protocol"}
    /\ retryConn \in BOOLEAN /\ retryProto \in BOOLEAN /\ connecting \in BOOLEAN
    /\ dispPc \in {"idle", "ran", "unref", "sweep"} /\ sweepAt \in Nat
    /\ ToSet(autoSend) \cup ToSet(toAdd) \subseteq Messages
    /\ outBuf \in Messages \cup {NoMsg}
    /\ age \in [Messages -> {"young", "ripe", "stale"}]

\* onStopOperation deletes m_socket without a check by those who use it: it must be the
\* last to touch the connection.  No operation, handler, task or retry of the connection is
\* left, only timers that were already queued and find the weak_ptr dead.
SocketOutlivesItsUsers ==
    socket = "deleted" =>
        /\ connState = "CLOSED" /\ ~managed /\ ~retryConn
        /\ reading = "none" /\ writing = NoMsg /\ ~readTimer /\ ~writeTimer
        /\ HandlersOf({"read", "write", "drop", "stop"}) = {} /\ TasksOf("close") = {}

\* async_write on one socket must not overlap: m_pendingWrite counts the writes whose
\* handler has not run, and there is at most one.
OneWriteAtATime ==
    socket = "open" =>
        LET started == Cardinality(HandlersOf({"write"})) + (IF writing = NoMsg THEN 0 ELSE 1)
        IN pendingWrite = started /\ started <= 1

\* An open connection listens: it has a socket, no recorded error, and exactly one read on
\* the way (or the handler that will start the next).
OpenMeansListening ==
    connState = "OPEN" =>
        /\ socket = "open" /\ managed /\ ~readError /\ ~writeError /\ pendingRead = 1
        /\ (IF reading = "none" THEN 0 ELSE 1) + Cardinality(HandlersOf({"read"}))
           = (IF ioPc = "idle" THEN 1 ELSE 0)

\* closeConnectionTask prints an error unless the state is REQUEST_CLOSE: of the many that
\* may ask for a close, exactly one task is posted, and no state change overtakes it.
CloseTaskMatchesState ==
    Cardinality(TasksOf("close")) = (IF connState = "REQUEST_CLOSE" THEN 1 ELSE 0)

\* Each message out of the pool is in one place: a list of the pool, the socket, a handler,
\* or the task that releases it.  And m_refCount of both objects is the number of those
\* messages, until an addRef of the io thread meets an unRef of the dispatcher and one of the
\* two is lost, which takes a bad packet of a player (the io thread also counts when it
\* refuses a login, but then nobody else does).
Places(m) ==
    Cardinality({i \in DOMAIN autoSend : autoSend[i] = m})
    + Cardinality({i \in DOMAIN toAdd : toAdd[i] = m})
    + (IF writing = m THEN 1 ELSE 0)
    + Cardinality({i \in HandlersOf({"write", "drop"}) : ioQueue[i].what = m})
    + Cardinality({i \in TasksOf("release") : tasks[i].m = m})
RefsMatchMessages ==
    /\ ~miscounted => refCount = Cardinality(inUse) /\ protoRefs = Cardinality(inUse)
    /\ \A m \in Messages : Places(m) = (IF m \in inUse THEN 1 ELSE 0)

\* Tasks and messages hold bare pointers to the protocol: a task that is bound to it always
\* runs before it is detached, and, unless an update of its count was lost, it is deleted
\* after the last of them.
ProtocolOutlivesItsUsers ==
    /\ protocol \in {"detached", "deleted"} => TasksOf("protocol") = {}
    /\ protocol = "deleted" => /\ ~retryProto /\ ~connecting
                               /\ ~miscounted => inUse = {} /\ outBuf = NoMsg

\* A connection that starts to close is destroyed, however the network fails and whether or
\* not the client answers: a write that holds the close up ends, fails or times out ("will be
\* closed by onWriteOperation/handleWriteTimeout/handleReadTimeout instead").  It holds for a
\* client whose packets are good (BadPackets = {}): after a bad one the two threads may wait
\* for each other's lock for ever, and RipeMessagesAreSent fails with it.
ClosingConnectionIsReleased == connState # "OPEN" ~> ~managed

\* Every message that leaves the pool returns to it, from m_toAddQueue too, and so no release
\* is retried for ever.  Like ClosingConnectionIsReleased, for BadPackets = {}.
MessagesReturn == \A m \in Messages : m \in inUse ~> m \notin inUse

\* sendAll "will send only messages bigger then 1 kb or with a lifetime greater than 10 ms":
\* a message that is ripe leaves m_autoSendOutputMessages.
RipeMessagesAreSent ==
    \A m \in Messages : (Contains(autoSend, m) /\ age[m] # "young") ~> ~Contains(autoSend, m)
=============================================================================
