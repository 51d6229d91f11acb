-------------------------- MODULE ConnectionProofs --------------------------
(***************************************************************************)
(* The safety properties of Connection for any number of messages, any       *)
(* faults and any number of packets that the client sends ahead.             *)
(***************************************************************************)
EXTENDS Connection, SequenceTheorems, FiniteSetTheorems, TLAPS

-----------------------------------------------------------------------------
(* Counting the elements of a queue that are in a set.                      *)

Hits(q, S) == {i \in DOMAIN q : q[i] \in S}
Count(q, S) == Cardinality(Hits(q, S))
One(b) == IF b THEN 1 ELSE 0

LEMMA HitsFinite ==
    ASSUME NEW T, NEW q \in Seq(T), NEW S
    PROVE  /\ IsFiniteSet(Hits(q, S)) /\ Count(q, S) \in Nat
           /\ Count(q, S) = 0 <=> Hits(q, S) = {}
<1>1. DOMAIN q = 1..Len(q) /\ Len(q) \in Nat
  BY LenProperties
<1>2. IsFiniteSet(1..Len(q))
  BY <1>1, FS_Interval
<1>3. Hits(q, S) \in SUBSET (1..Len(q))
  BY <1>1 DEF Hits
<1> QED BY <1>2, <1>3, FS_Subset, FS_CardinalityType, FS_EmptySet DEF Count

\* The hits of a concatenation are those of its parts.
LEMMA CountConcat ==
    ASSUME NEW T, NEW q \in Seq(T), NEW r \in Seq(T), NEW S
    PROVE  q \o r \in Seq(T) /\ Count(q \o r, S) = Count(q, S) + Count(r, S)
<1> DEFINE n == Len(q)
           A == Hits(q, S)
           B == {i \in (n + 1)..(n + Len(r)) : r[i - n] \in S}
<1>1. /\ q \o r \in Seq(T) /\ Len(q \o r) = n + Len(r)
      /\ \A i \in 1..n + Len(r) : (q \o r)[i] = IF i <= n THEN q[i] ELSE r[i - n]
      /\ n \in Nat /\ Len(r) \in Nat /\ DOMAIN (q \o r) = 1..(n + Len(r))
      /\ DOMAIN q = 1..n /\ DOMAIN r = 1..Len(r)
  BY ConcatProperties, LenProperties
<1> HIDE DEF n
<1>2. Hits(q \o r, S) = A \cup B /\ A \cap B = {}
  BY <1>1 DEF Hits
<1>3. IsFiniteSet(A) /\ IsFiniteSet(Hits(r, S))
  BY HitsFinite
<1>4. IsFiniteSet(B) /\ Cardinality(B) = Count(r, S)
  <2> DEFINE f == [i \in Hits(r, S) |-> i + n]
  <2>1. f \in [Hits(r, S) -> B]
    BY <1>1 DEF Hits
  <2>2. \A i, j \in Hits(r, S) : f[i] = f[j] => i = j
    BY <1>1 DEF Hits
  <2>3. \A b \in B : b - n \in Hits(r, S) /\ f[b - n] = b
    BY <1>1 DEF Hits
  <2> HIDE DEF f, B
  <2>4. f \in Bijection(Hits(r, S), B)
    BY <2>1, <2>2, <2>3 DEF Bijection, Injection, Surjection, IsInjective
  <2> QED BY <2>4, <1>3, FS_Bijection DEF ExistsBijection, Count
<1>5. Cardinality(A \cup B) = Cardinality(A) + Cardinality(B)
  <2> HIDE DEF A, B
  <2>1. Cardinality(A \cup B) = Cardinality(A) + Cardinality(B) - Cardinality(A \cap B)
    BY <1>3, <1>4, FS_Union
  <2>2. Cardinality(A \cap B) = 0 /\ Cardinality(A) \in Nat /\ Cardinality(B) \in Nat
    BY <1>2, <1>3, <1>4, FS_EmptySet, FS_CardinalityType
  <2> QED BY <2>1, <2>2
<1> QED BY <1>1, <1>2, <1>4, <1>5 DEF Count

LEMMA CountOne ==
    ASSUME NEW T, NEW e \in T, NEW S
    PROVE  <<e>> \in Seq(T) /\ Count(<<e>>, S) = One(e \in S)
<1>1. Hits(<<e>>, S) = IF e \in S THEN {1} ELSE {}
  BY DEF Hits
<1> QED BY <1>1, FS_EmptySet, FS_Singleton DEF Count, One

LEMMA CountEmpty ==
    ASSUME NEW T, NEW S
    PROVE  <<>> \in Seq(T) /\ Count(<<>>, S) = 0
<1>1. Hits(<<>>, S) = {}
  BY DEF Hits
<1> QED BY <1>1, FS_EmptySet DEF Count

LEMMA CountAppend ==
    ASSUME NEW T, NEW q \in Seq(T), NEW e \in T, NEW S
    PROVE  Append(q, e) \in Seq(T) /\ Count(Append(q, e), S) = Count(q, S) + One(e \in S)
<1>1. Append(q, e) = q \o <<e>>
  BY AppendIsConcat
<1>2. <<e>> \in Seq(T) /\ Count(<<e>>, S) = One(e \in S)
  BY CountOne
<1>3. q \o <<e>> \in Seq(T) /\ Count(q \o <<e>>, S) = Count(q, S) + Count(<<e>>, S)
  <2> DEFINE w == <<e>>
  <2>1. w \in Seq(T)
    BY <1>2
  <2> HIDE DEF w
  <2>2. q \o w \in Seq(T) /\ Count(q \o w, S) = Count(q, S) + Count(w, S)
    BY <2>1, CountConcat
  <2> QED BY <2>2 DEF w
<1> QED BY <1>1, <1>2, <1>3

LEMMA CountCons ==
    ASSUME NEW T, NEW q \in Seq(T), NEW e \in T, NEW S
    PROVE  <<e>> \o q \in Seq(T) /\ Count(<<e>> \o q, S) = Count(q, S) + One(e \in S)
<1>1. Count(q, S) \in Nat /\ One(e \in S) \in Nat
  BY HitsFinite DEF One
<1>2. <<e>> \in Seq(T) /\ Count(<<e>>, S) = One(e \in S)
  BY CountOne
<1>3. <<e>> \o q \in Seq(T) /\ Count(<<e>> \o q, S) = Count(<<e>>, S) + Count(q, S)
  <2> DEFINE w == <<e>>
  <2>1. w \in Seq(T)
    BY <1>2
  <2> HIDE DEF w
  <2>2. w \o q \in Seq(T) /\ Count(w \o q, S) = Count(w, S) + Count(q, S)
    BY <2>1, CountConcat
  <2> QED BY <2>2 DEF w
<1> QED BY <1>1, <1>2, <1>3

LEMMA CountTail ==
    ASSUME NEW T, NEW q \in Seq(T), q # <<>>, NEW S
    PROVE  /\ Head(q) \in T /\ Tail(q) \in Seq(T)
           /\ Count(q, S) = Count(Tail(q), S) + One(Head(q) \in S)
<1>1. Head(q) \in T /\ Tail(q) \in Seq(T)
  BY HeadTailProperties
<1>2. q = <<Head(q)>> \o Tail(q)
  <2>1. /\ <<Head(q)>> \in Seq(T) /\ Len(<<Head(q)>>) = 1 /\ <<Head(q)>>[1] = Head(q)
        /\ Head(q) = q[1] /\ Len(q) >= 1 /\ Len(q) \in Nat
    BY <1>1, LenProperties, EmptySeq
  <2>2. /\ <<Head(q)>> \o Tail(q) \in Seq(T) /\ Len(<<Head(q)>> \o Tail(q)) = Len(q)
        /\ \A i \in 1..Len(q) : (<<Head(q)>> \o Tail(q))[i] = q[i]
    BY <1>1, <2>1, ConcatProperties, HeadTailProperties
  <2> HIDE DEF Count
  <2> QED BY <2>1, <2>2, SeqEqual
<1> QED BY <1>1, <1>2, CountCons

LEMMA CountRemove ==
    ASSUME NEW T, NEW q \in Seq(T), NEW n \in 1..Len(q), NEW S
    PROVE  /\ RemoveAt(q, n) \in Seq(T) /\ q[n] \in T
           /\ Count(q, S) = Count(RemoveAt(q, n), S) + One(q[n] \in S)
<1> DEFINE a == SubSeq(q, 1, n - 1)
           b == SubSeq(q, n + 1, Len(q))
<1>1. Len(q) \in Nat /\ q[n] \in T
  BY LenProperties, ElementOfSeq
<1>2. /\ a \in Seq(T) /\ Len(a) = n - 1 /\ \A i \in 1..n - 1 : a[i] = q[i]
      /\ b \in Seq(T) /\ Len(b) = Len(q) - n /\ \A i \in 1..Len(q) - n : b[i] = q[i + n]
  BY <1>1, SubSeqProperties
<1> HIDE DEF a, b
<1> DEFINE e == <<q[n]>>
<1>e. e \in Seq(T) /\ Len(e) = 1 /\ e[1] = q[n]
  BY <1>1
<1> HIDE DEF e
<1> DEFINE c == e \o b
<1>c. /\ c \in Seq(T) /\ Len(c) = 1 + (Len(q) - n)
      /\ \A i \in 1..1 + (Len(q) - n) : c[i] = IF i <= 1 THEN e[i] ELSE b[i - 1]
  <2>1. /\ c \in Seq(T) /\ Len(c) = Len(e) + Len(b)
        /\ \A i \in 1..Len(e) + Len(b) : c[i] = IF i <= Len(e) THEN e[i] ELSE b[i - Len(e)]
    BY <1>2, <1>e, ConcatProperties
  <2> HIDE DEF c
  <2> QED BY <1>2, <1>e, <2>1
<1> HIDE DEF c
<1>3. q = a \o c
  <2>1. /\ a \o c \in Seq(T) /\ Len(a \o c) = (n - 1) + (1 + (Len(q) - n))
        /\ \A i \in 1..(n - 1) + (1 + (Len(q) - n)) :
             (a \o c)[i] = IF i <= n - 1 THEN a[i] ELSE c[i - (n - 1)]
    <3>1. /\ a \o c \in Seq(T) /\ Len(a \o c) = Len(a) + Len(c)
          /\ \A i \in 1..Len(a) + Len(c) :
               (a \o c)[i] = IF i <= Len(a) THEN a[i] ELSE c[i - Len(a)]
      BY <1>2, <1>c, ConcatProperties
    <3> QED BY <1>1, <1>2, <1>c, <3>1
  <2> DEFINE d == a \o c
  <2> HIDE DEF d
  <2>2. Len(d) = Len(q) /\ d \in Seq(T)
    BY <1>1, <2>1 DEF d
  <2>3. ASSUME NEW i \in 1..Len(q) PROVE d[i] = q[i]
    <3>1. CASE i <= n - 1
      BY <3>1, <1>1, <1>2, <2>1 DEF d
    <3>2. CASE i = n
      <4>1. d[i] = c[1]
        BY <3>2, <1>1, <2>1 DEF d
      <4>2. c[1] = e[1]
        BY <1>1, <1>c
      <4> QED BY <4>1, <4>2, <3>2, <1>e
    <3>3. CASE i > n
      <4>0. i \in 1..(n - 1) + (1 + (Len(q) - n)) /\ ~(i <= n - 1)
        BY <3>3, <1>1
      <4>1. d[i] = c[i - (n - 1)]
        BY <4>0, <2>1 DEF d
      <4>2. i - (n - 1) \in 1..1 + (Len(q) - n) /\ ~(i - (n - 1) <= 1)
        BY <3>3, <1>1
      <4>3. c[i - (n - 1)] = b[i - (n - 1) - 1]
        BY <4>2, <1>c
      <4>4. i - (n - 1) - 1 = i - n /\ i - n \in 1..Len(q) - n /\ i - n + n = i
        BY <3>3, <1>1
      <4>5. b[i - n] = q[i - n + n]
        BY <4>4, <1>2
      <4> QED BY <4>1, <4>3, <4>4, <4>5
    <3> QED BY <3>1, <3>2, <3>3, <1>1
  <2> QED BY <2>2, <2>3, SeqEqual DEF d
<1>4. RemoveAt(q, n) = a \o b
  BY DEF RemoveAt, a, b
<1>5. Count(q, S) = Count(a, S) + Count(c, S)
  BY <1>2, <1>c, <1>3, CountConcat
<1>6. Count(c, S) = Count(b, S) + One(q[n] \in S)
  BY <1>1, <1>2, CountCons DEF c, e
<1>7. Count(a \o b, S) = Count(a, S) + Count(b, S) /\ a \o b \in Seq(T)
  BY <1>2, CountConcat
<1>8. Count(a, S) \in Nat /\ Count(b, S) \in Nat /\ One(q[n] \in S) \in Nat
  BY <1>2, HitsFinite DEF One
<1> QED BY <1>1, <1>4, <1>5, <1>6, <1>7, <1>8

-----------------------------------------------------------------------------
(* Types, with what is in the queues.                                       *)

Handlers ==
    [h : {"read"}, what : {"header", "body"}, ok : BOOLEAN]
    \cup [h : {"write", "drop"}, what : Messages, ok : BOOLEAN]
    \cup [h : {"readTimeout", "writeTimeout", "stop"}, what : {NoMsg}, ok : {TRUE}]
TaskRecs == [k : {"close", "protocol"}, m : {NoMsg}] \cup [k : {"release"}, m : Messages]

\* The counts of references are integers here; that they are natural numbers is RefInv.
\* A message is released by the task in front of the queue: nothing gets before it.
Scalars ==
    /\ connState \in {"OPEN", "REQUEST_CLOSE", "CLOSING", "CLOSED"}
    /\ socket \in {"open", "closed", "deleted"} /\ managed \in BOOLEAN
    /\ readError \in BOOLEAN /\ writeError \in BOOLEAN
    /\ raced \in BOOLEAN /\ miscounted \in BOOLEAN
    /\ refCount \in Int /\ protoRefs \in Int
    /\ protocol \in {"none", "attached", "playing", "detached", "deleted"}
    /\ reading \in {"none", "header", "body"}
    /\ readTimer \in BOOLEAN /\ writeTimer \in BOOLEAN
    /\ ioPc \in {"idle", "parsing", "kicking"}
    /\ retryConn \in BOOLEAN /\ retryProto \in BOOLEAN /\ connecting \in BOOLEAN
    /\ dispPc \in {"idle", "ran", "unref", "sweep"} /\ sweepAt \in Nat

Pool ==
    /\ inUse \subseteq Messages /\ writing \in Messages \cup {NoMsg}
    /\ autoSend \in Seq(Messages) /\ toAdd \in Seq(Messages)
    /\ outBuf \in Messages \cup {NoMsg}
    /\ age \in [Messages -> {"young", "ripe", "stale"}]
    /\ dispPc = "sweep" /\ sweepAt = 0 => toAdd # <<>>

ReleaseInFront(q) == q # <<>> /\ q[1].k = "release"
Queues ==
    /\ ioQueue \in Seq(Handlers) /\ tasks \in Seq(TaskRecs)
    /\ dispPc = "unref" => ReleaseInFront(tasks)

Types == Scalars /\ Pool /\ Queues

\* What steps append to the queues is of the right kind.
LEMMA QueueParts ==
    /\ \A p \in {"header", "body"}, ok \in BOOLEAN : Handler("read", p, ok) \in Handlers
    /\ \A m \in Messages, ok \in BOOLEAN : /\ Handler("write", m, ok) \in Handlers
                                          /\ Handler("drop", m, ok) \in Handlers
    /\ \A h \in {"readTimeout", "writeTimeout", "stop"} : Handler(h, NoMsg, TRUE) \in Handlers
    /\ \A k \in {"close", "protocol"} : Task(k, NoMsg) \in TaskRecs
    /\ \A m \in Messages : Released(m) \in TaskRecs /\ Released(m).k = "release"
BY DEF Handlers, TaskRecs, Handler, Task, Released

LEMMA AbortedType == Types => Aborted \in Seq(Handlers)
<1> SUFFICES ASSUME Types PROVE Aborted \in Seq(Handlers)
  OBVIOUS
<1>1. (IF reading = "none" THEN <<>> ELSE <<Handler("read", reading, FALSE)>>) \in Seq(Handlers)
  BY QueueParts, CountEmpty, CountOne DEF Types, Scalars, Pool
<1>2. (IF writing = NoMsg THEN <<>> ELSE <<Handler("write", writing, FALSE)>>) \in Seq(Handlers)
  BY QueueParts, CountEmpty, CountOne DEF Types, Scalars, Pool
<1> QED BY <1>1, <1>2, CountConcat DEF Aborted

\* Pushing tasks at either end keeps the release that is being run in front.
LEMMA BackOfTasks ==
    ASSUME NEW q \in Seq(TaskRecs), NEW r \in Seq(TaskRecs)
    PROVE  /\ q \o r \in Seq(TaskRecs)
           /\ ReleaseInFront(q) => ReleaseInFront(q \o r)
<1>1. /\ q \o r \in Seq(TaskRecs) /\ Len(q \o r) = Len(q) + Len(r)
      /\ \A i \in 1 .. Len(q) + Len(r) : (q \o r)[i] = IF i <= Len(q) THEN q[i] ELSE r[i - Len(q)]
  BY ConcatProperties
<1>2. ASSUME q # <<>> PROVE q \o r # <<>> /\ (q \o r)[1] = q[1]
  <2>1. Len(q) \in Nat /\ Len(q) # 0 /\ Len(r) \in Nat
    BY <1>2, LenProperties, EmptySeq
  <2> HIDE DEF Task
  <2>2. (q \o r)[1] = q[1] /\ Len(q \o r) # 0
    BY <1>1, <2>1
  <2> QED BY <2>2, <1>1, EmptySeq
<1> QED BY <1>1, <1>2 DEF ReleaseInFront

LEMMA FrontOfTasks ==
    ASSUME NEW q \in Seq(TaskRecs), NEW t \in TaskRecs, t.k = "release"
    PROVE  <<t>> \o q \in Seq(TaskRecs) /\ ReleaseInFront(<<t>> \o q)
<1> DEFINE w == <<t>>
<1>1. w \in Seq(TaskRecs) /\ ReleaseInFront(w)
  BY DEF ReleaseInFront
<1> HIDE DEF w
<1>2. w \o q \in Seq(TaskRecs) /\ ReleaseInFront(w \o q)
  BY <1>1, BackOfTasks
<1> QED BY <1>2 DEF w

LEMMA CloseTasksType == CloseTasks \in Seq(TaskRecs)
BY QueueParts, CountEmpty, CountOne DEF CloseTasks

\* A request to close keeps the types, whatever state the connection is in.
LEMMA ClosingTypes ==
    ASSUME Types, NEW q \in Seq(TaskRecs), CloseConnection(q)
    PROVE  /\ connState' \in {"OPEN", "REQUEST_CLOSE", "CLOSING", "CLOSED"}
           /\ tasks' \in Seq(TaskRecs)
           /\ ReleaseInFront(q) => ReleaseInFront(tasks')
BY CloseTasksType, BackOfTasks DEF CloseConnection, Types, Scalars

-----------------------------------------------------------------------------
(* What the names for unchanged variables stand for.                        *)

LEMMA SameVars ==
    /\ UNCHANGED connVars =>
         /\ connState' = connState /\ socket' = socket /\ managed' = managed
         /\ readError' = readError /\ writeError' = writeError
         /\ pendingRead' = pendingRead /\ pendingWrite' = pendingWrite
    /\ UNCHANGED refVars => /\ refCount' = refCount /\ protoRefs' = protoRefs
                            /\ inUse' = inUse /\ raced' = raced
                            /\ miscounted' = miscounted
    /\ UNCHANGED opVars => /\ reading' = reading /\ writing' = writing /\ ioQueue' = ioQueue
                           /\ readTimer' = readTimer /\ writeTimer' = writeTimer
    /\ UNCHANGED poolVars => autoSend' = autoSend /\ toAdd' = toAdd /\ outBuf' = outBuf
    /\ UNCHANGED dispVars => dispPc' = dispPc /\ sweepAt' = sweepAt
    /\ UNCHANGED retryVars =>
         retryConn' = retryConn /\ retryProto' = retryProto /\ connecting' = connecting
BY DEF connVars, refVars, opVars, poolVars, dispVars, retryVars

LEMMA SameClock ==
    UNCHANGED clockOther =>
        /\ UNCHANGED connVars /\ UNCHANGED refVars /\ UNCHANGED retryVars /\ UNCHANGED dispVars
        /\ UNCHANGED poolVars /\ protocol' = protocol /\ ioPc' = ioPc /\ tasks' = tasks
BY DEF clockOther

LEMMA SameIo ==
    /\ UNCHANGED ioOther =>
         /\ managed' = managed /\ UNCHANGED refVars /\ UNCHANGED retryVars /\ UNCHANGED dispVars
         /\ autoSend' = autoSend /\ age' = age
    /\ UNCHANGED readOther =>
         /\ UNCHANGED ioOther /\ socket' = socket /\ writeError' = writeError
         /\ pendingWrite' = pendingWrite /\ writing' = writing /\ writeTimer' = writeTimer
         /\ toAdd' = toAdd /\ outBuf' = outBuf
BY DEF ioOther, readOther

LEMMA SameTask ==
    /\ UNCHANGED taskOther =>
         /\ socket' = socket /\ managed' = managed /\ readError' = readError
         /\ writeError' = writeError /\ pendingRead' = pendingRead /\ reading' = reading
         /\ readTimer' = readTimer /\ ioQueue' = ioQueue /\ ioPc' = ioPc
    /\ UNCHANGED noWrite => /\ toAdd' = toAdd /\ writing' = writing
                            /\ pendingWrite' = pendingWrite /\ writeTimer' = writeTimer
    /\ UNCHANGED noSend =>
         /\ UNCHANGED refVars /\ UNCHANGED noWrite /\ autoSend' = autoSend
         /\ outBuf' = outBuf /\ age' = age
BY DEF taskOther, noWrite, noSend

LEMMA SameSweep ==
    UNCHANGED sweepOther =>
        /\ connState' = connState /\ socket' = socket /\ managed' = managed
        /\ readError' = readError /\ writeError' = writeError /\ pendingRead' = pendingRead
        /\ UNCHANGED refVars /\ UNCHANGED retryVars /\ protocol' = protocol
        /\ reading' = reading /\ readTimer' = readTimer /\ ioQueue' = ioQueue
        /\ ioPc' = ioPc
BY DEF sweepOther

\* Whether it reads on or kicks the player, the io thread leaves "parsing".
LEMMA AfterPacket ==
    ReadOn \/ Kicks => /\ ioPc' \in {"idle", "kicking"} /\ reading' \in {"header", reading}
                       /\ readTimer' \in BOOLEAN
BY DEF ReadOn, Read, Kicks

LEMMA SocketCloses ==
    CloseSocket => /\ reading' = "none" /\ writing' = NoMsg
                   /\ socket' = IF socket = "open" THEN "closed" ELSE socket
                   /\ pendingRead' = IF socket = "open" THEN 0 ELSE pendingRead
                   /\ pendingWrite' = IF socket = "open" THEN 0 ELSE pendingWrite
BY DEF CloseSocket

LEMMA ScalarStep == Scalars /\ Queues /\ Next => Scalars'
<1> SUFFICES ASSUME Scalars, Queues, Next PROVE Scalars'
  OBVIOUS
<1> USE SameVars, SameClock, SameIo, SameTask, SameSweep DEF Scalars
<1> DEFINE Closable == connState' \in {"OPEN", "REQUEST_CLOSE", "CLOSING", "CLOSED"}
<1>1. ASSUME NEW q, CloseConnection(q) PROVE Closable
  BY <1>1 DEF CloseConnection
<1>2. CASE \E ok \in BOOLEAN : ReadEnds(ok)
  BY <1>2 DEF ReadEnds
<1>3. CASE \E ok \in BOOLEAN : WriteEnds(ok)
  BY <1>3 DEF WriteEnds
<1>4. CASE ReadTimerFires
  BY <1>4 DEF ReadTimerFires
<1>5. CASE WriteTimerFires
  BY <1>5 DEF WriteTimerFires
<1>6. CASE \E m \in Messages : Ages(m)
  BY <1>6 DEF Ages
<1>7. CASE ReadFails
  <2>1. Closable /\ readError' \in BOOLEAN /\ readTimer' \in BOOLEAN
    BY <1>1, <1>7 DEF ReadFails
  <2> QED BY <1>7, <2>1 DEF ReadFails
<1>8. CASE ParseHeader
  BY <1>8 DEF ParseHeader, ReadSucceeds, Read
<1>9. CASE NoSuchProtocol
  BY <1>1, <1>9 DEF NoSuchProtocol, ReadSucceeds, Read
<1>10. CASE ParsePacket
  <2>1. Closable
    BY <1>1, <1>10 DEF ParsePacket
  <2> QED BY <1>10, <2>1 DEF ParsePacket, ReadSucceeds, Read, Attach
<1>11. CASE ParseRefusedPacket
  BY <1>11 DEF ParseRefusedPacket, ReadSucceeds, Read, Attach
<1>12. CASE DisconnectClient
  <2>1. Closable
    BY <1>1, <1>12 DEF DisconnectClient
  <2>2. PICK m \in Messages : Allocate(m) /\ Transmit(m)
    BY <1>12 DEF DisconnectClient
  <2>3. /\ refCount' \in Int /\ protoRefs' \in Int /\ raced' \in BOOLEAN
        /\ miscounted' = miscounted
    BY <2>2 DEF Allocate
  <2>4. writeTimer' \in BOOLEAN
    BY <2>2 DEF Transmit
  <2> QED BY <1>12, <2>1, <2>3, <2>4, AfterPacket DEF DisconnectClient
<1>37. CASE ParseOverrun
  <2>1. Closable
    BY <1>1, <1>37 DEF ParseOverrun
  <2> QED BY <1>37, <2>1, AfterPacket DEF ParseOverrun, ReadSucceeds
<1>38. CASE KickPlayer
  <2>1. PICK m \in Messages : Allocate(m)
    BY <1>38 DEF KickPlayer
  <2>2. /\ refCount' \in Int /\ protoRefs' \in Int /\ raced' \in BOOLEAN
        /\ miscounted' = miscounted
    BY <2>1 DEF Allocate
  <2> QED BY <1>38, <2>2, AfterPacket DEF KickPlayer
<1>13. CASE OnWrite
  <2>1. /\ Closable /\ socket' \in {"open", "closed", "deleted"}
        /\ reading' \in {"none", "header", "body"}
    BY <1>1, <1>13, SocketCloses DEF OnWrite
  <2>2. writeError' \in BOOLEAN /\ writeTimer' \in BOOLEAN
    BY <1>13 DEF OnWrite
  <2>3. /\ UNCHANGED <<readError, protocol, readTimer, ioPc, ioOther>>
    BY <1>13 DEF OnWrite
  <2> QED BY <2>1, <2>2, <2>3
<1>14. CASE OnTimeout
  <2>1. /\ Closable /\ socket' \in {"open", "closed", "deleted"}
        /\ reading' \in {"none", "header", "body"}
    BY <1>1, <1>14, SocketCloses DEF OnTimeout
  <2>2. UNCHANGED <<readError, writeError, protocol, readTimer, writeTimer, ioPc, ioOther>>
    BY <1>14 DEF OnTimeout
  <2> QED BY <2>1, <2>2
<1>15. CASE DropMessage
  BY <1>15 DEF DropMessage
<1>16. CASE OnStop
  <2>1. /\ socket' = "deleted" /\ managed' \in BOOLEAN
        /\ readTimer' \in BOOLEAN /\ writeTimer' \in BOOLEAN
        /\ UNCHANGED connState /\ UNCHANGED readError /\ UNCHANGED writeError
        /\ UNCHANGED refVars /\ UNCHANGED protocol /\ UNCHANGED reading /\ UNCHANGED ioPc
        /\ UNCHANGED retryVars /\ UNCHANGED dispVars
    BY <1>16 DEF OnStop
  <2> QED BY <2>1
<1>17. CASE CloseConnectionTask
  <2>1. /\ connState' \in {"OPEN", "REQUEST_CLOSE", "CLOSING", "CLOSED"}
        /\ socket' \in {"open", "closed", "deleted"} /\ reading' \in {"none", "header", "body"}
    BY <1>17, SocketCloses DEF CloseConnectionTask
  <2>2. /\ protocol' \in {"none", "attached", "playing", "detached", "deleted"}
        /\ retryProto' \in BOOLEAN
    BY <1>17 DEF CloseConnectionTask, ReleaseProtocol
  <2>3. retryConn' \in BOOLEAN
    BY <1>17 DEF CloseConnectionTask, ReleaseConnection
  <2>4. dispPc' = "ran" /\ sweepAt' = sweepAt
    BY <1>17 DEF CloseConnectionTask, Runnable
  <2>5. UNCHANGED <<managed, readError, writeError, refVars, readTimer, writeTimer, ioPc,
                    connecting>>
    BY <1>17 DEF CloseConnectionTask
  <2> QED BY <2>1, <2>2, <2>3, <2>4, <2>5
<1>18. CASE RetryReleaseConnection
  BY <1>18 DEF RetryReleaseConnection, ReleaseConnection, Runnable
<1>19. CASE RetryReleaseProtocol
  BY <1>19 DEF RetryReleaseProtocol, ReleaseProtocol, Runnable
<1>20. CASE UnRef
  BY <1>20 DEF UnRef
<1>21. CASE InternalReleaseMessage
  <2>1. refCount' \in Int /\ protoRefs' \in Int /\ miscounted' \in BOOLEAN
    BY <1>21 DEF InternalReleaseMessage, Lost
  <2> QED BY <1>21, <2>1 DEF InternalReleaseMessage
<1> DEFINE Sent == /\ refCount' \in Int /\ protoRefs' \in Int /\ raced' \in BOOLEAN
                   /\ miscounted' = miscounted
                   /\ Closable /\ writeTimer' \in BOOLEAN
<1>22. ASSUME NEW q, Write(q) PROVE Sent
  <2>1. connState' = connState /\ writeTimer' = writeTimer /\ GetOutputBuffer
    BY <1>22 DEF Write
  <2>2. UNCHANGED refVars \/ \E m \in Messages : Allocate(m)
    BY <2>1 DEF GetOutputBuffer
  <2>3. refCount' \in Int /\ protoRefs' \in Int /\ raced' \in BOOLEAN /\ miscounted' = miscounted
    <3>1. CASE UNCHANGED refVars
      BY <3>1
    <3>2. CASE \E m \in Messages : Allocate(m)
      BY <3>2 DEF Allocate
    <3> QED BY <2>2, <3>1, <3>2
  <2> QED BY <2>1, <2>3
<1>23. ASSUME NEW q, Disconnect(q) \/ DoNothing(q) PROVE Sent
  BY <1>1, <1>23 DEF Disconnect, DoNothing
<1>24. ASSUME NEW q, Refuse(q) PROVE Sent
  <2>1. PICK m \in Messages : Allocate(m) /\ (Transmit(m) \/ UNCHANGED noWrite)
    BY <1>24 DEF Refuse
  <2>2. Closable
    BY <1>1, <1>24 DEF Refuse
  <2>3. refCount' \in Int /\ protoRefs' \in Int /\ raced' \in BOOLEAN /\ miscounted' = miscounted
    BY <2>1 DEF Allocate
  <2>4. writeTimer' \in BOOLEAN
    BY <2>1 DEF Transmit
  <2> QED BY <2>2, <2>3, <2>4
<1>25. ASSUME NEW q, EntersGame(q) PROVE Sent /\ protocol' \in {"playing", protocol}
  BY <1>22, <1>24, <1>25 DEF EntersGame
<1>26. CASE GameTask
  <2>1. Sent
    BY <1>22, <1>23, <1>26 DEF GameTask
  <2> QED BY <1>26, <2>1 DEF GameTask, Runnable
<1>27. CASE Login
  <2>1. Sent /\ protocol' \in {"playing", protocol} /\ connecting' \in BOOLEAN
    BY <1>23, <1>25, <1>27 DEF Login
  <2> QED BY <1>27, <2>1 DEF Login, Runnable
<1>28. CASE Logout
  <2>1. Sent
    BY <1>22, <1>23, <1>28 DEF Logout
  <2> QED BY <1>28, <2>1 DEF Logout, Runnable
<1>29. CASE Connect
  <2>1. Sent /\ protocol' \in {"playing", protocol}
    BY <1>23, <1>25, <1>29 DEF Connect
  <2> QED BY <1>29, <2>1 DEF Connect, Runnable
<1>30. CASE SweepBegins
  BY <1>30 DEF SweepBegins
<1>31. CASE SweepRequeues
  BY <1>31 DEF SweepRequeues, TakeUp
<1>32. CASE SweepDrops
  BY <1>32 DEF SweepDrops, TakeUp
<1>33. CASE SweepKeeps
  BY <1>33 DEF SweepKeeps, Sweeping
<1>34. CASE SweepFrees
  BY <1>34 DEF SweepFrees, Sweeping
<1>35. CASE SweepSends
  BY <1>35 DEF SweepSends, Sweeping, Transmit
<1>36. CASE SweepEnds
  BY <1>36 DEF SweepEnds
<1> QED
  BY <1>2, <1>3, <1>4, <1>5, <1>6, <1>7, <1>8, <1>9, <1>10, <1>11, <1>12, <1>13, <1>14, <1>15, <1>16,
     <1>17, <1>18, <1>19, <1>20, <1>21, <1>26, <1>27, <1>28, <1>29, <1>30, <1>31, <1>32, <1>33,
     <1>34, <1>35, <1>36, <1>37, <1>38
  DEF Next, Client, Io, Queued, Sweep

LEMMA PoolParts ==
    ASSUME Pool, NEW m \in Messages
    PROVE  /\ Allocate(m) => /\ inUse' \subseteq Messages
                             /\ age' \in [Messages -> {"young", "ripe", "stale"}]
           /\ Transmit(m) => /\ writing' \in Messages \cup {NoMsg} /\ toAdd' \in Seq(Messages)
                             /\ outBuf' \in Messages \cup {NoMsg}
<1>1. Append(toAdd, m) \in Seq(Messages)
  BY AppendProperties DEF Pool
<1>2. ASSUME Allocate(m)
      PROVE  /\ inUse' \subseteq Messages
             /\ age' \in [Messages -> {"young", "ripe", "stale"}]
  BY <1>2 DEF Pool, Allocate
<1>3. ASSUME Transmit(m)
      PROVE  /\ writing' \in Messages \cup {NoMsg} /\ toAdd' \in Seq(Messages)
             /\ outBuf' \in Messages \cup {NoMsg}
  BY <1>1, <1>3 DEF Pool, Transmit
<1> QED BY <1>2, <1>3

\* The steps of the sweep aside, nobody begins one.
LEMMA PoolStep == Scalars /\ Pool /\ Queues /\ Next => Pool'
<1> SUFFICES ASSUME Scalars, Pool, Queues, Next PROVE Pool'
  OBVIOUS
<1> USE SameVars, SameClock, SameIo, SameTask, SameSweep DEF Pool
<1> DEFINE Still == /\ inUse' = inUse /\ autoSend' = autoSend /\ toAdd' = toAdd
                    /\ outBuf' = outBuf /\ age' = age
           Paused == UNCHANGED dispVars \/ dispPc' # "sweep"
<1>1. ASSUME Still, writing' \in {writing, NoMsg}, Paused PROVE Pool'
  BY <1>1
<1>2. CASE \E ok \in BOOLEAN : ReadEnds(ok)
  BY <1>1, <1>2 DEF ReadEnds
<1>3. CASE \E ok \in BOOLEAN : WriteEnds(ok)
  BY <1>1, <1>3 DEF WriteEnds
<1>4. CASE ReadTimerFires
  BY <1>1, <1>4 DEF ReadTimerFires
<1>5. CASE WriteTimerFires
  BY <1>1, <1>5 DEF WriteTimerFires
<1>6. CASE \E m \in Messages : Ages(m)
  <2>1. PICK m \in Messages : Ages(m)
    BY <1>6
  <2>2. age' \in [Messages -> {"young", "ripe", "stale"}]
    BY <2>1 DEF Ages
  <2> QED BY <2>1, <2>2 DEF Ages
<1>7. CASE ReadFails
  BY <1>1, <1>7 DEF ReadFails
<1>8. CASE ParseHeader
  BY <1>1, <1>8 DEF ParseHeader
<1>9. CASE NoSuchProtocol
  BY <1>1, <1>9 DEF NoSuchProtocol
<1>10. CASE ParsePacket
  BY <1>1, <1>10 DEF ParsePacket
<1>11. CASE ParseRefusedPacket
  BY <1>1, <1>11 DEF ParseRefusedPacket
<1>12. CASE DisconnectClient
  <2>1. PICK m \in Messages : Allocate(m) /\ Transmit(m)
    BY <1>12 DEF DisconnectClient
  <2>2. dispPc # "sweep" /\ UNCHANGED dispVars /\ autoSend' = autoSend
    BY <1>12 DEF DisconnectClient
  <2> QED BY <2>1, <2>2, PoolParts
<1>39. CASE ParseOverrun
  BY <1>1, <1>39 DEF ParseOverrun
<1>40. CASE KickPlayer
  <2>1. PICK m \in Messages : Allocate(m) /\ outBuf' = m /\ autoSend' = Append(autoSend, m)
    BY <1>40 DEF KickPlayer
  <2>2. dispPc # "sweep" /\ UNCHANGED dispVars /\ writing' = writing /\ toAdd' = toAdd
    BY <1>40 DEF KickPlayer
  <2>3. autoSend' \in Seq(Messages)
    BY <2>1, AppendProperties
  <2> QED BY <2>1, <2>2, <2>3, PoolParts
<1>13. CASE OnWrite
  <2>1. writing' \in {writing, NoMsg}
    BY <1>13, SocketCloses DEF OnWrite
  <2>2. Still /\ UNCHANGED dispVars
    BY <1>13 DEF OnWrite
  <2> QED BY <1>1, <2>1, <2>2
<1>14. CASE OnTimeout
  <2>1. writing' \in {writing, NoMsg}
    BY <1>14, SocketCloses DEF OnTimeout
  <2>2. Still /\ UNCHANGED dispVars
    BY <1>14 DEF OnTimeout
  <2> QED BY <1>1, <2>1, <2>2
<1>15. CASE DropMessage
  BY <1>1, <1>15 DEF DropMessage
<1>16. CASE OnStop
  BY <1>1, <1>16 DEF OnStop
<1>17. CASE CloseConnectionTask
  <2>1. writing' \in {writing, NoMsg}
    BY <1>17, SocketCloses DEF CloseConnectionTask
  <2>2. Still /\ dispPc' # "sweep"
    BY <1>17 DEF CloseConnectionTask, Runnable
  <2> QED BY <1>1, <2>1, <2>2
<1>18. CASE RetryReleaseConnection
  BY <1>1, <1>18 DEF RetryReleaseConnection, Runnable
<1>19. CASE RetryReleaseProtocol
  BY <1>1, <1>19 DEF RetryReleaseProtocol, Runnable
<1>20. CASE UnRef
  BY <1>1, <1>20 DEF UnRef
<1>21. CASE InternalReleaseMessage
  <2>1. inUse' \subseteq Messages /\ dispPc' # "sweep" /\ writing' = writing
    BY <1>21 DEF InternalReleaseMessage
  <2>2. UNCHANGED poolVars /\ age' = age
    BY <1>21 DEF InternalReleaseMessage
  <2> QED BY <2>1, <2>2
<1>22. ASSUME NEW q, Write(q), dispPc' # "sweep" PROVE Pool'
  <2>1. UNCHANGED noWrite /\ GetOutputBuffer
    BY <1>22 DEF Write
  <2>2. CASE UNCHANGED <<refVars, outBuf, autoSend, age>>
    BY <1>22, <2>1, <2>2
  <2>3. CASE \E m \in Messages : Allocate(m) /\ outBuf' = m /\ autoSend' = Append(autoSend, m)
    <3>1. PICK m \in Messages : Allocate(m) /\ outBuf' = m /\ autoSend' = Append(autoSend, m)
      BY <2>3
    <3>2. autoSend' \in Seq(Messages)
      BY <3>1, AppendProperties
    <3> QED BY <1>22, <2>1, <3>1, <3>2, PoolParts
  <2> QED BY <2>1, <2>2, <2>3 DEF GetOutputBuffer
<1>23. ASSUME NEW q, Disconnect(q) \/ DoNothing(q), dispPc' # "sweep" PROVE Pool'
  BY <1>1, <1>23 DEF Disconnect, DoNothing
<1>24. ASSUME NEW q, Refuse(q), dispPc' # "sweep" PROVE Pool'
  <2>1. autoSend' = autoSend
    BY <1>24 DEF Refuse
  <2>2. PICK m \in Messages : Allocate(m) /\ (Transmit(m) \/ UNCHANGED <<noWrite, outBuf>>)
    BY <1>24 DEF Refuse
  <2> QED BY <1>24, <2>1, <2>2, PoolParts
<1>25. ASSUME NEW q, EntersGame(q), dispPc' # "sweep" PROVE Pool'
  BY <1>22, <1>24, <1>25 DEF EntersGame
<1>26. CASE GameTask
  BY <1>22, <1>23, <1>26 DEF GameTask, Runnable
<1>27. CASE Login
  BY <1>23, <1>25, <1>27 DEF Login, Runnable
<1>28. CASE Logout
  BY <1>22, <1>23, <1>28 DEF Logout, Runnable
<1>29. CASE Connect
  BY <1>23, <1>25, <1>29 DEF Connect, Runnable
<1>30. CASE SweepBegins
  <2>1. Still /\ writing' = writing /\ (sweepAt' = 0 => toAdd # <<>>)
    BY <1>30 DEF SweepBegins
  <2> QED BY <2>1
<1>31. ASSUME NEW stale, TakeUp(stale)
       PROVE  /\ Head(toAdd) \in Messages /\ toAdd' \in Seq(Messages)
              /\ (sweepAt' = 0 => toAdd' # <<>>)
              /\ inUse' = inUse /\ writing' = writing
  BY <1>31, HeadTailProperties DEF TakeUp
<1>32. CASE SweepRequeues
  <2>1. /\ TakeUp(FALSE) /\ autoSend' = Append(autoSend, Head(toAdd)) /\ outBuf' = outBuf
        /\ age' = age
    BY <1>32 DEF SweepRequeues
  <2>2. autoSend' \in Seq(Messages)
    BY <1>31, <2>1, AppendProperties
  <2> QED BY <1>31, <2>1, <2>2
<1>f. ASSUME NEW m \in Messages, Forget(m)
      PROVE  age' \in [Messages -> {"young", "ripe", "stale"}]
  BY <1>f DEF Forget
<1>33. CASE SweepDrops
  <2>1. /\ TakeUp(TRUE) /\ outBuf' \in {outBuf, NoMsg} /\ autoSend' = autoSend
        /\ Forget(Head(toAdd))
    BY <1>33 DEF SweepDrops
  <2> QED BY <1>31, <1>f, <2>1
<1>34. CASE SweepKeeps
  BY <1>34 DEF SweepKeeps, Sweeping, Scalars
<1>35. ASSUME Sweeping
       PROVE  RemoveAt(autoSend, sweepAt) \in Seq(Messages) /\ autoSend[sweepAt] \in Messages
  BY <1>35, CountRemove DEF Sweeping
<1>36. CASE SweepFrees
  <2>1. /\ Sweeping /\ autoSend' = RemoveAt(autoSend, sweepAt) /\ outBuf' \in {outBuf, NoMsg}
        /\ inUse' = inUse /\ writing' = writing /\ Forget(autoSend[sweepAt]) /\ toAdd' = toAdd
        /\ UNCHANGED dispVars
    BY <1>36 DEF SweepFrees
  <2> QED BY <1>35, <1>f, <2>1
<1>37. CASE SweepSends
  <2>1. /\ Sweeping /\ autoSend' = RemoveAt(autoSend, sweepAt) /\ Transmit(autoSend[sweepAt])
        /\ inUse' = inUse /\ UNCHANGED dispVars
        /\ Forget(autoSend[sweepAt]) \/ age' = age
    BY <1>37 DEF SweepSends
  <2>2. sweepAt # 0
    BY <2>1 DEF Sweeping
  <2>3. age' \in [Messages -> {"young", "ripe", "stale"}]
    BY <1>35, <1>f, <2>1
  <2> QED BY <1>35, <2>1, <2>2, <2>3, PoolParts
<1>38. CASE SweepEnds
  BY <1>1, <1>38 DEF SweepEnds
<1> QED
  BY <1>2, <1>3, <1>4, <1>5, <1>6, <1>7, <1>8, <1>9, <1>10, <1>11, <1>12, <1>13, <1>14, <1>15, <1>16,
     <1>17, <1>18, <1>19, <1>20, <1>21, <1>26, <1>27, <1>28, <1>29, <1>30, <1>32, <1>33, <1>34,
     <1>36, <1>37, <1>38, <1>39, <1>40
  DEF Next, Client, Io, Queued, Sweep

LEMMA QueueHeads ==
    ASSUME Queues
    PROVE  /\ \A h : Runs(h) => /\ ioQueue # <<>> /\ Now \in Handlers /\ Now.h = h
                                /\ Rest \in Seq(Handlers)
           /\ \A k : Takes(k) => /\ tasks # <<>> /\ Head(tasks) \in TaskRecs
                                 /\ Tail(tasks) \in Seq(TaskRecs)
BY HeadTailProperties DEF Queues, Runs, Now, Rest, Takes

LEMMA DropType ==
    ASSUME NEW e \in Handlers, e.h = "write" \/ e.h = "drop"
    PROVE  /\ e.what \in Messages
           /\ Handler("drop", e.what, TRUE) \in Handlers
           /\ Released(e.what) \in TaskRecs /\ Released(e.what).k = "release"
BY QueueParts DEF Handlers

\* The io thread pushes tasks to the back, or releases in front; the dispatcher leaves
\* "unref" as it takes a task away.
LEMMA QueueStep == Types /\ Next => Queues'
<1> SUFFICES ASSUME Types, Next PROVE Queues'
  OBVIOUS
<1> USE SameVars, SameClock, SameIo, SameTask, SameSweep
<1>q. Queues /\ ioQueue \in Seq(Handlers) /\ tasks \in Seq(TaskRecs)
  BY DEF Types, Queues
<1> DEFINE IoOK == ioQueue' \in Seq(Handlers)
           Paused == dispPc' = dispPc \/ dispPc' \in {"idle", "ran", "sweep"}
           TasksOK == /\ tasks' \in Seq(TaskRecs)
                      /\ dispPc' = "unref" => ReleaseInFront(tasks')
<1>1. IoOK /\ TasksOK => Queues'
  BY DEF Queues
<1>2. tasks' = tasks /\ Paused => TasksOK
  BY DEF Types, Queues
<1>3. ASSUME CloseConnection(tasks), Paused PROVE TasksOK
  BY <1>3, <1>q, ClosingTypes DEF Queues
<1>4. ASSUME NEW h \in Handlers, ioQueue' = Append(ioQueue, h) PROVE IoOK
  BY <1>4, <1>q, AppendProperties
<1>5. CASE \E ok \in BOOLEAN : ReadEnds(ok)
  <2>1. PICK ok \in BOOLEAN : ReadEnds(ok)
    BY <1>5
  <2>2. Handler("read", reading, ok) \in Handlers
    BY <2>1, QueueParts DEF ReadEnds, Types, Scalars
  <2> QED BY <1>1, <1>2, <1>4, <2>1, <2>2 DEF ReadEnds
<1>6. CASE \E ok \in BOOLEAN : WriteEnds(ok)
  <2>1. PICK ok \in BOOLEAN : WriteEnds(ok)
    BY <1>6
  <2>2. Handler("write", writing, ok) \in Handlers
    BY <2>1, QueueParts DEF WriteEnds, Types, Pool
  <2> QED BY <1>1, <1>2, <1>4, <2>1, <2>2 DEF WriteEnds
<1>7. CASE ReadTimerFires
  <2>1. Handler("readTimeout", NoMsg, TRUE) \in Handlers
    BY QueueParts
  <2> QED BY <1>1, <1>2, <1>4, <1>7, <2>1 DEF ReadTimerFires
<1>8. CASE WriteTimerFires
  <2>1. Handler("writeTimeout", NoMsg, TRUE) \in Handlers
    BY QueueParts
  <2> QED BY <1>1, <1>2, <1>4, <1>8, <2>1 DEF WriteTimerFires
<1>9. CASE \E m \in Messages : Ages(m)
  BY <1>1, <1>2, <1>9, <1>q DEF Ages
<1>10. ASSUME Runs("read"), ioQueue' = Rest PROVE IoOK
  BY <1>10, <1>q, QueueHeads
<1>11. CASE ReadFails
  <2>1. IoOK
    BY <1>10, <1>11 DEF ReadFails
  <2>2. CloseConnection(tasks) /\ Paused
    BY <1>11 DEF ReadFails
  <2> QED BY <1>1, <1>3, <2>1, <2>2
<1>12. ASSUME NEW what, ReadSucceeds(what) PROVE IoOK
  BY <1>10, <1>12 DEF ReadSucceeds
<1>13. CASE ParseHeader
  BY <1>1, <1>2, <1>12, <1>13 DEF ParseHeader
<1>14. CASE NoSuchProtocol
  BY <1>1, <1>3, <1>12, <1>14 DEF NoSuchProtocol
<1>15. CASE ParsePacket
  <2>1. IoOK
    BY <1>12, <1>15 DEF ParsePacket
  <2>2. Paused
    BY <1>15 DEF ParsePacket
  <2>3. \/ tasks' = tasks \/ CloseConnection(tasks)
        \/ tasks' = Append(tasks, Task("protocol", NoMsg))
    BY <1>15 DEF ParsePacket
  <2>4. ASSUME tasks' = Append(tasks, Task("protocol", NoMsg)) PROVE TasksOK
    <3> DEFINE w == <<Task("protocol", NoMsg)>>
    <3>1. w \in Seq(TaskRecs) /\ tasks' = tasks \o w
      BY <2>4, <1>q, QueueParts, AppendIsConcat
    <3> HIDE DEF w
    <3> QED BY <1>q, <2>2, <3>1, BackOfTasks DEF Queues
  <2> QED BY <1>1, <1>2, <1>3, <2>1, <2>2, <2>3, <2>4
<1>16. CASE ParseRefusedPacket
  BY <1>1, <1>2, <1>12, <1>16 DEF ParseRefusedPacket
<1>17. CASE DisconnectClient
  <2>1. IoOK /\ CloseConnection(tasks) /\ Paused
    BY <1>17, <1>q DEF DisconnectClient
  <2> QED BY <1>1, <1>3, <2>1
<1>41. CASE ParseOverrun
  <2>1. IoOK /\ CloseConnection(tasks) /\ Paused
    BY <1>12, <1>41 DEF ParseOverrun
  <2> QED BY <1>1, <1>3, <2>1
<1>42. CASE KickPlayer
  <2>1. IoOK /\ tasks' = tasks /\ Paused
    BY <1>42, <1>q DEF KickPlayer
  <2> QED BY <1>1, <1>2, <2>1
<1>18. CASE OnWrite
  <2> DEFINE drop == Handler("drop", Now.what, TRUE)
  <2>1. Rest \in Seq(Handlers) /\ drop \in Handlers
    BY <1>18, <1>q, QueueHeads, DropType DEF OnWrite
  <2> HIDE DEF drop
  <2>2. /\ <<drop>> \o Rest \in Seq(Handlers)
        /\ <<drop>> \o Rest \o Aborted \in Seq(Handlers)
    BY <2>1, CountCons, CountConcat, AbortedType
  <2>3. ioQueue' = <<drop>> \o Rest \/ ioQueue' = <<drop>> \o Rest \o Aborted
    BY <1>18 DEF OnWrite, drop
  <2>4. (tasks' = tasks \/ CloseConnection(tasks)) /\ Paused
    BY <1>18 DEF OnWrite
  <2> QED BY <1>1, <1>2, <1>3, <2>2, <2>3, <2>4
<1>19. CASE DropMessage
  <2>1. Rest \in Seq(Handlers) /\ Released(Now.what) \in TaskRecs /\ Released(Now.what).k = "release"
    BY <1>19, <1>q, QueueHeads, DropType DEF DropMessage
  <2>2. tasks' = <<Released(Now.what)>> \o tasks /\ ioQueue' = Rest
    BY <1>19 DEF DropMessage
  <2> QED BY <1>1, <1>q, <2>1, <2>2, FrontOfTasks
<1>20. CASE OnTimeout
  <2>1. Rest \in Seq(Handlers)
    BY <1>20, <1>q, QueueHeads DEF OnTimeout
  <2>2. Rest \o Aborted \in Seq(Handlers)
    BY <2>1, CountConcat, AbortedType
  <2>3. ioQueue' = Rest \/ ioQueue' = Rest \o Aborted
    BY <1>20 DEF OnTimeout
  <2>4. (tasks' = tasks \/ CloseConnection(tasks)) /\ Paused
    BY <1>20 DEF OnTimeout
  <2> QED BY <1>1, <1>2, <1>3, <2>1, <2>2, <2>3, <2>4
<1>21. CASE OnStop
  <2>1. Rest \in Seq(Handlers) /\ ioQueue' = Rest /\ tasks' = tasks /\ Paused
    BY <1>21, <1>q, QueueHeads DEF OnStop
  <2> QED BY <1>1, <1>2, <2>1
<1>22. ASSUME NEW q \in Seq(Handlers), ReleaseConnection(q) PROVE IoOK
  <2>1. Handler("stop", NoMsg, TRUE) \in Handlers
    BY QueueParts
  <2>2. Append(q, Handler("stop", NoMsg, TRUE)) \in Seq(Handlers)
    BY <2>1, AppendProperties
  <2> QED BY <1>22, <2>2 DEF ReleaseConnection
<1>23. CASE CloseConnectionTask
  <2>1. ioQueue' = ioQueue \/ ReleaseConnection(ioQueue \o Aborted)
    BY <1>23 DEF CloseConnectionTask
  <2>2. IoOK
    BY <1>22, <1>q, <2>1, CountConcat, AbortedType
  <2>3. tasks' \in Seq(TaskRecs) /\ dispPc' = "ran"
    BY <1>23, <1>q, QueueHeads DEF CloseConnectionTask, Runnable
  <2> QED BY <1>1, <2>2, <2>3
<1>24. CASE RetryReleaseConnection
  BY <1>1, <1>2, <1>22, <1>24, <1>q DEF RetryReleaseConnection, Runnable
<1>25. CASE RetryReleaseProtocol
  BY <1>1, <1>2, <1>25, <1>q DEF RetryReleaseProtocol, Runnable
<1>26. CASE UnRef
  <2>1. ReleaseInFront(tasks)
    BY <1>26, <1>q, HeadTailProperties DEF UnRef, Takes, ReleaseInFront
  <2>2. tasks' = tasks /\ ioQueue' = ioQueue
    BY <1>26 DEF UnRef
  <2> QED BY <1>1, <1>q, <2>1, <2>2
<1>27. CASE InternalReleaseMessage
  <2>1. tasks # <<>> /\ tasks' = Tail(tasks) /\ dispPc' = "ran" /\ ioQueue' = ioQueue
    BY <1>27, <1>q DEF InternalReleaseMessage, Queues, ReleaseInFront
  <2> QED BY <1>1, <1>q, <2>1, HeadTailProperties
<1>28. ASSUME NEW q \in Seq(TaskRecs), dispPc' = "ran", ioQueue' = ioQueue,
              Write(q) \/ DoNothing(q) \/ Disconnect(q) \/ EntersGame(q)
       PROVE  Queues'
  <2>1. ASSUME NEW r \in Seq(TaskRecs), CloseConnection(r) PROVE tasks' \in Seq(TaskRecs)
    BY <2>1, ClosingTypes
  <2>2. ASSUME Refuse(q) PROVE tasks' \in Seq(TaskRecs)
    <3>1. PICK m \in Messages : CloseConnection(q) \/ CloseConnection(<<Released(m)>> \o q)
      BY <2>2 DEF Refuse
    <3>2. <<Released(m)>> \o q \in Seq(TaskRecs)
      BY QueueParts, FrontOfTasks
    <3> QED BY <2>1, <3>1, <3>2
  <2>3. tasks' \in Seq(TaskRecs)
    BY <1>28, <2>1, <2>2 DEF Write, DoNothing, Disconnect, EntersGame
  <2> QED BY <1>1, <1>28, <1>q, <2>3
<1>29. CASE GameTask
  <2>1. dispPc' = "ran" /\ ioQueue' = ioQueue
    BY <1>29 DEF GameTask, Runnable
  <2> QED BY <1>28, <1>29, <1>q, <2>1 DEF GameTask
<1>30. CASE Login
  <2>1. dispPc' = "ran" /\ ioQueue' = ioQueue /\ Takes("protocol")
    BY <1>30 DEF Login, Runnable
  <2> QED BY <1>28, <1>30, <1>q, <2>1, QueueHeads DEF Login
<1>31. CASE Logout
  <2>1. dispPc' = "ran" /\ ioQueue' = ioQueue /\ Takes("protocol")
    BY <1>31 DEF Logout, Runnable
  <2> QED BY <1>28, <1>31, <1>q, <2>1, QueueHeads DEF Logout
<1>32. CASE Connect
  <2>1. dispPc' = "ran" /\ ioQueue' = ioQueue
    BY <1>32 DEF Connect, Runnable
  <2> QED BY <1>28, <1>32, <1>q, <2>1 DEF Connect
<1>33. CASE SweepBegins
  BY <1>1, <1>2, <1>33, <1>q DEF SweepBegins
<1>34. CASE SweepRequeues
  BY <1>1, <1>2, <1>34, <1>q DEF SweepRequeues, TakeUp
<1>35. ASSUME NEW m \in Messages, tasks' = <<Released(m)>> \o tasks PROVE TasksOK
  BY <1>35, <1>q, QueueParts, FrontOfTasks
<1>36. CASE SweepDrops
  <2>1. dispPc = "sweep" /\ sweepAt = 0 /\ ioQueue' = ioQueue
    BY <1>36 DEF SweepDrops, TakeUp
  <2>2. Head(toAdd) \in Messages
    BY <2>1, HeadTailProperties DEF Types, Pool
  <2> QED BY <1>1, <1>35, <1>36, <1>q, <2>1, <2>2 DEF SweepDrops
<1>37. CASE SweepKeeps
  BY <1>1, <1>2, <1>37, <1>q DEF SweepKeeps
<1>38. CASE SweepFrees
  <2>1. Sweeping /\ ioQueue' = ioQueue /\ tasks' = <<Released(autoSend[sweepAt])>> \o tasks
    BY <1>38 DEF SweepFrees
  <2>2. autoSend[sweepAt] \in Messages
    BY <2>1, CountRemove DEF Sweeping, Types, Pool
  <2> QED BY <1>1, <1>35, <1>q, <2>1, <2>2
<1>39. CASE SweepSends
  BY <1>1, <1>2, <1>39, <1>q DEF SweepSends
<1>40. CASE SweepEnds
  BY <1>1, <1>2, <1>40, <1>q DEF SweepEnds
<1> QED
  BY <1>5, <1>6, <1>7, <1>8, <1>9, <1>11, <1>13, <1>14, <1>15, <1>16, <1>17, <1>18, <1>19, <1>20,
     <1>21, <1>23, <1>24, <1>25, <1>26, <1>27, <1>29, <1>30, <1>31, <1>32, <1>33, <1>34, <1>36,
     <1>37, <1>38, <1>39, <1>40, <1>41, <1>42
  DEF Next, Client, Io, Queued, Sweep

LEMMA TypesStep == Types /\ [Next]_vars => Types'
<1>1. ASSUME Types, Next PROVE Types'
  BY <1>1, ScalarStep, PoolStep, QueueStep DEF Types
<1>2. ASSUME Types, UNCHANGED vars PROVE Types'
  BY <1>2 DEF Types, Scalars, Pool, Queues, vars, connVars, refVars, opVars, poolVars, dispVars,
              retryVars
<1> QED BY <1>1, <1>2

-----------------------------------------------------------------------------
(* What the queues hold, kind by kind.                                      *)

KindOf(h) == {e \in Handlers : e.h = h}
N(q, h) == Count(q, KindOf(h))
Reads  == N(ioQueue, "read")
Writes == N(ioQueue, "write")
Drops  == N(ioQueue, "drop")
Stops  == N(ioQueue, "stop")

CloseT == {t \in TaskRecs : t.k = "close"}
Closes == Count(tasks, CloseT)

LEMMA AppendCounts ==
    ASSUME NEW q \in Seq(Handlers), NEW e \in Handlers, NEW h
    PROVE  N(Append(q, e), h) = N(q, h) + One(e.h = h)
<1>1. Count(Append(q, e), KindOf(h)) = Count(q, KindOf(h)) + One(e \in KindOf(h))
  BY CountAppend
<1>2. One(e \in KindOf(h)) = One(e.h = h)
  BY DEF KindOf, One
<1> QED BY <1>1, <1>2 DEF N

LEMMA KindCounts ==
    ASSUME NEW q \in Seq(Handlers), NEW h
    PROVE  /\ N(q, h) \in Nat
           /\ \A e \in Handlers : N(<<e>> \o q, h) = N(q, h) + One(e.h = h)
           /\ q # <<>> => N(q, h) = N(Tail(q), h) + One(Head(q).h = h)
<1>1. N(q, h) \in Nat
  BY HitsFinite DEF N
<1>2. ASSUME NEW e \in Handlers
      PROVE  N(<<e>> \o q, h) = N(q, h) + One(e.h = h)
  <2>1. Count(<<e>> \o q, KindOf(h)) = Count(q, KindOf(h)) + One(e \in KindOf(h))
    BY CountCons
  <2>2. e \in KindOf(h) <=> e.h = h
    BY DEF KindOf
  <2> QED BY <2>1, <2>2 DEF N, One
<1>3. ASSUME q # <<>> PROVE N(q, h) = N(Tail(q), h) + One(Head(q).h = h)
  <2>1. /\ Head(q) \in Handlers
        /\ Count(q, KindOf(h)) = Count(Tail(q), KindOf(h)) + One(Head(q) \in KindOf(h))
    BY <1>3, CountTail
  <2>2. Head(q) \in KindOf(h) <=> Head(q).h = h
    BY <2>1 DEF KindOf
  <2> QED BY <2>1, <2>2 DEF N, One
<1> QED BY <1>1, <1>2, <1>3

\* The same for one element of which the kind is known.
LEMMA HandlerKind == \A h, w, ok : Handler(h, w, ok).h = h /\ Handler(h, w, ok).what = w
BY DEF Handler

\* What the socket still works on joins the queue when it is closed.
LEMMA AbortCounts ==
    ASSUME Types, NEW q \in Seq(Handlers)
    PROVE  /\ q \o Aborted \in Seq(Handlers)
           /\ N(q \o Aborted, "read") = N(q, "read") + One(reading # "none")
           /\ N(q \o Aborted, "write") = N(q, "write") + One(writing # NoMsg)
           /\ N(q \o Aborted, "drop") = N(q, "drop")
           /\ N(q \o Aborted, "stop") = N(q, "stop")
           /\ reading = "none" /\ writing = NoMsg => q \o Aborted = q
<1> DEFINE r == IF reading = "none" THEN <<>> ELSE <<Handler("read", reading, FALSE)>>
           w == IF writing = NoMsg THEN <<>> ELSE <<Handler("write", writing, FALSE)>>
<1>1. ASSUME NEW h
      PROVE  r \in Seq(Handlers) /\ N(r, h) = One(reading # "none" /\ h = "read")
  <2>1. CASE reading = "none"
    BY <2>1, CountEmpty DEF N, One
  <2>2. CASE reading # "none"
    <3> DEFINE e == Handler("read", reading, FALSE)
    <3>0. reading \in {"header", "body"}
      BY <2>2 DEF Types, Scalars
    <3>1. e \in Handlers /\ e.h = "read"
      BY <3>0, QueueParts, HandlerKind
    <3> HIDE DEF e
    <3>2. <<e>> \in Seq(Handlers) /\ Count(<<e>>, KindOf(h)) = One(e \in KindOf(h))
      BY <3>1, CountOne
    <3>3. e \in KindOf(h) <=> h = "read"
      BY <3>1 DEF KindOf
    <3>4. r = <<e>>
      BY <2>2 DEF e
    <3> QED BY <2>2, <3>2, <3>3, <3>4 DEF N, One
  <2> QED BY <2>1, <2>2
<1>2. ASSUME NEW h
      PROVE  w \in Seq(Handlers) /\ N(w, h) = One(writing # NoMsg /\ h = "write")
  <2>1. CASE writing = NoMsg
    BY <2>1, CountEmpty DEF N, One
  <2>2. CASE writing # NoMsg
    <3> DEFINE e == Handler("write", writing, FALSE)
    <3>1. e \in Handlers /\ e.h = "write"
      BY <2>2, QueueParts, HandlerKind DEF Types, Pool
    <3> HIDE DEF e
    <3>2. <<e>> \in Seq(Handlers) /\ Count(<<e>>, KindOf(h)) = One(e \in KindOf(h))
      BY <3>1, CountOne
    <3>3. e \in KindOf(h) <=> h = "write"
      BY <3>1 DEF KindOf
    <3>4. w = <<e>>
      BY <2>2 DEF e
    <3> QED BY <2>2, <3>2, <3>3, <3>4 DEF N, One
  <2> QED BY <2>1, <2>2
<1>3. reading = "none" /\ writing = NoMsg => r = <<>> /\ w = <<>>
  OBVIOUS
<1>4. Aborted = r \o w
  BY DEF Aborted
<1> HIDE DEF r, w
<1>5. ASSUME NEW h
      PROVE  /\ q \o Aborted \in Seq(Handlers)
             /\ N(q \o Aborted, h) = N(q, h) + N(r, h) + N(w, h)
  <2>1. r \o w \in Seq(Handlers) /\ N(r \o w, h) = N(r, h) + N(w, h)
    BY <1>1, <1>2, CountConcat DEF N
  <2>2. /\ q \o (r \o w) \in Seq(Handlers)
        /\ N(q \o (r \o w), h) = N(q, h) + N(r \o w, h)
    <3> DEFINE v == r \o w
    <3>1. v \in Seq(Handlers)
      BY <2>1
    <3> HIDE DEF v
    <3>2. q \o v \in Seq(Handlers) /\ N(q \o v, h) = N(q, h) + N(v, h)
      BY <3>1, CountConcat DEF N
    <3> QED BY <3>2 DEF v
  <2>3. N(q, h) \in Nat /\ N(r, h) \in Nat /\ N(w, h) \in Nat
    BY <1>1, <1>2, KindCounts
  <2> QED BY <1>4, <2>1, <2>2, <2>3
<1>6. reading = "none" /\ writing = NoMsg => q \o Aborted = q
  BY <1>3, <1>4, ConcatEmptySeq, CountEmpty
<1>7. \A h : N(q, h) \in Nat
  BY KindCounts
<1> QED BY <1>1, <1>2, <1>5, <1>6, <1>7 DEF One

\* Behind the handler that deletes the socket there are only timers.
Timeouts == {"readTimeout", "writeTimeout"}
StopIsLast(q) == \A i, j \in 1..Len(q) : i < j /\ q[i].h = "stop" => q[j].h \in Timeouts

LEMMA StopLastKept ==
    ASSUME NEW q \in Seq(Handlers), StopIsLast(q)
    PROVE  /\ \A e \in Handlers : e.h \in Timeouts => StopIsLast(Append(q, e))
           /\ \A e \in Handlers : e.h # "stop" => StopIsLast(<<e>> \o q)
           /\ q # <<>> => StopIsLast(Tail(q))
<1>0. Len(q) \in Nat
  BY LenProperties
<1>1. ASSUME NEW e \in Handlers, e.h \in Timeouts PROVE StopIsLast(Append(q, e))
  <2> DEFINE a == Append(q, e)
  <2>1. /\ Len(a) = Len(q) + 1 /\ \A i \in 1..Len(q) : a[i] = q[i]
        /\ a[Len(q) + 1] = e
    BY AppendProperties
  <2> HIDE DEF a
  <2>2. ASSUME NEW i \in 1..Len(a), NEW j \in 1..Len(a), i < j, a[i].h = "stop"
        PROVE  a[j].h \in Timeouts
    <3>1. CASE j = Len(q) + 1
      BY <1>1, <2>1, <3>1
    <3>2. CASE j # Len(q) + 1
      <4>1. i \in 1..Len(q) /\ j \in 1..Len(q)
        BY <1>0, <2>1, <2>2, <3>2
      <4> QED BY <2>1, <2>2, <4>1 DEF StopIsLast
    <3> QED BY <3>1, <3>2
  <2> QED BY <2>2 DEF StopIsLast, a
<1>2. ASSUME NEW e \in Handlers, e.h # "stop" PROVE StopIsLast(<<e>> \o q)
  <2> DEFINE w == <<e>>
             a == w \o q
  <2>1. w \in Seq(Handlers) /\ Len(w) = 1 /\ w[1] = e
    OBVIOUS
  <2> HIDE DEF w
  <2>2. /\ Len(a) = Len(q) + 1
        /\ \A i \in 1..Len(q) + 1 : a[i] = IF i <= 1 THEN w[i] ELSE q[i - 1]
    <3>1. /\ Len(a) = Len(w) + Len(q)
          /\ \A i \in 1..Len(w) + Len(q) : a[i] = IF i <= Len(w) THEN w[i] ELSE q[i - Len(w)]
      BY <2>1, ConcatProperties
    <3> HIDE DEF a
    <3> QED BY <1>0, <2>1, <3>1
  <2> HIDE DEF a
  <2>3. ASSUME NEW i \in 1..Len(a), NEW j \in 1..Len(a), i < j, a[i].h = "stop"
        PROVE  a[j].h \in Timeouts
    <3>1. i # 1
      BY <1>0, <1>2, <2>1, <2>2, <2>3
    <3>2. i - 1 \in 1..Len(q) /\ j - 1 \in 1..Len(q) /\ i - 1 < j - 1
      BY <1>0, <2>2, <2>3, <3>1
    <3>3. a[i] = q[i - 1] /\ a[j] = q[j - 1]
      BY <1>0, <2>2, <2>3, <3>2
    <3> QED BY <2>3, <3>2, <3>3 DEF StopIsLast
  <2> QED BY <2>3 DEF StopIsLast, a, w
<1>3. ASSUME q # <<>> PROVE StopIsLast(Tail(q))
  <2> DEFINE a == Tail(q)
  <2>1. Len(a) = Len(q) - 1 /\ \A i \in 1..Len(a) : a[i] = q[i + 1]
    BY <1>3, HeadTailProperties
  <2> HIDE DEF a
  <2>2. ASSUME NEW i \in 1..Len(a), NEW j \in 1..Len(a), i < j, a[i].h = "stop"
        PROVE  a[j].h \in Timeouts
    <3>1. i + 1 \in 1..Len(q) /\ j + 1 \in 1..Len(q) /\ i + 1 < j + 1
      BY <1>0, <2>1, <2>2
    <3> QED BY <2>1, <2>2, <3>1 DEF StopIsLast
  <2> QED BY <2>2 DEF StopIsLast, a
<1> QED BY <1>1, <1>2, <1>3

LEMMA NoStopIsLast ==
    ASSUME NEW q \in Seq(Handlers), N(q, "stop") = 0
    PROVE  /\ StopIsLast(q)
           /\ \A e \in Handlers : StopIsLast(Append(q, e))
<1>0. Len(q) \in Nat /\ DOMAIN q = 1..Len(q)
  BY LenProperties
<1>1. ASSUME NEW i \in 1..Len(q) PROVE q[i].h # "stop"
  <2>1. Hits(q, KindOf("stop")) = {}
    BY HitsFinite DEF N
  <2>2. q[i] \in Handlers
    BY ElementOfSeq
  <2> QED BY <1>0, <2>1, <2>2 DEF Hits, KindOf
<1>2. ASSUME NEW e \in Handlers PROVE StopIsLast(Append(q, e))
  <2> DEFINE a == Append(q, e)
  <2>1. Len(a) = Len(q) + 1 /\ \A i \in 1..Len(q) : a[i] = q[i]
    BY AppendProperties
  <2> HIDE DEF a
  <2>2. ASSUME NEW i \in 1..Len(a), NEW j \in 1..Len(a), i < j PROVE a[i].h # "stop"
    <3>1. i \in 1..Len(q)
      BY <1>0, <2>1, <2>2
    <3> QED BY <1>1, <2>1, <3>1
  <2> QED BY <2>2 DEF StopIsLast, a
<1> QED BY <1>1, <1>2 DEF StopIsLast

\* When it runs, nothing but timers is left.
LEMMA OnlyTimersAreLeft ==
    ASSUME NEW q \in Seq(Handlers), q # <<>>, StopIsLast(q), Head(q).h = "stop",
           NEW h, h \notin Timeouts
    PROVE  N(Tail(q), h) = 0
<1>1. /\ Len(q) \in Nat /\ Len(q) >= 1 /\ q[1] = Head(q)
      /\ Tail(q) \in Seq(Handlers) /\ Len(Tail(q)) = Len(q) - 1
      /\ \A i \in 1..Len(Tail(q)) : Tail(q)[i] = q[i + 1]
  BY HeadTailProperties, LenProperties, EmptySeq
<1> DEFINE a == Tail(q)
<1> HIDE DEF a
<1>2. a \in Seq(Handlers) /\ Len(a) = Len(q) - 1 /\ \A i \in 1..Len(a) : a[i] = q[i + 1]
  BY <1>1 DEF a
<1>3. ASSUME NEW i \in 1..Len(a) PROVE a[i].h \in Timeouts
  <2>1. i + 1 \in 1..Len(q) /\ 1 \in 1..Len(q) /\ 1 < i + 1
    BY <1>1, <1>2
  <2> QED BY <1>1, <1>2, <2>1 DEF StopIsLast
<1>4. Hits(a, KindOf(h)) = {}
  BY <1>2, <1>3, LenProperties DEF Hits, KindOf
<1> QED BY <1>2, <1>4, HitsFinite DEF N, a

-----------------------------------------------------------------------------
(* The connection: the inductive invariant of its state, its socket and its  *)
(* operations.                                                              *)

CloseInv == Closes = One(connState = "REQUEST_CLOSE")

WriteInv ==
    /\ pendingWrite \in Nat
    /\ socket = "open" => pendingWrite = Writes + One(writing # NoMsg) /\ pendingWrite <= 1
    /\ socket # "open" => writing = NoMsg

ReadInv ==
    /\ pendingRead \in 0..1
    /\ socket # "open" => reading = "none"
    /\ ioPc = "parsing" => connState = "OPEN"
    /\ ioPc = "kicking" => connState # "OPEN" /\ socket = "open"
    /\ connState = "OPEN" => /\ socket = "open" /\ ~readError /\ ~writeError /\ pendingRead = 1
                             /\ Reads + One(reading # "none") = One(ioPc # "parsing")

\* The stop handler is posted, about to be posted or done exactly when the state is
\* CLOSED, which a socket that still works never is.
StopInv ==
    /\ managed <=> socket # "deleted"
    /\ Stops + One(retryConn) + One(socket = "deleted") = One(connState = "CLOSED")
    /\ connState = "CLOSED" => socket # "open"
    /\ StopIsLast(ioQueue)
    /\ socket = "deleted" => /\ ~readTimer /\ ~writeTimer
                             /\ Reads = 0 /\ Writes = 0 /\ Drops = 0

ConnInv == CloseInv /\ WriteInv /\ ReadInv /\ StopInv

LEMMA CountsAreNat ==
    Types => Reads \in Nat /\ Writes \in Nat /\ Drops \in Nat /\ Stops \in Nat /\ Closes \in Nat
BY KindCounts, HitsFinite DEF Types, Queues, Reads, Writes, Drops, Stops, Closes

\* A closing of the connection posts the one close task that its new state announces.
LEMMA ClosingCounts ==
    ASSUME NEW q \in Seq(TaskRecs), Count(q, CloseT) = One(connState = "REQUEST_CLOSE"),
           CloseConnection(q)
    PROVE  /\ CloseInv' /\ connState' # "OPEN"
           /\ connState' = "CLOSED" <=> connState = "CLOSED"
<1>1. /\ Task("close", NoMsg) \in TaskRecs /\ Task("close", NoMsg) \in CloseT
  BY DEF TaskRecs, CloseT, Task
<1>2. CASE CloseRequested
  <2>1. tasks' = q \o <<>> /\ connState' = connState
    BY <1>2 DEF CloseConnection, CloseTasks
  <2>2. q \o <<>> = q
    BY ConcatEmptySeq
  <2> QED BY <1>2, <2>1, <2>2 DEF CloseInv, Closes, CloseRequested
<1>3. CASE ~CloseRequested
  <2>1. tasks' = q \o <<Task("close", NoMsg)>> /\ connState' = "REQUEST_CLOSE"
    BY <1>3 DEF CloseConnection, CloseTasks
  <2>2. tasks' = Append(q, Task("close", NoMsg))
    BY <2>1, AppendIsConcat, <1>1
  <2>3. Count(tasks', CloseT) = Count(q, CloseT) + One(Task("close", NoMsg) \in CloseT)
    BY <1>1, <2>2, CountAppend
  <2>4. Count(tasks', CloseT) = 0 + 1
    BY <1>1, <1>3, <2>3 DEF One, CloseRequested
  <2> QED BY <1>3, <2>1, <2>4 DEF CloseInv, Closes, One, CloseRequested
<1> QED BY <1>2, <1>3

\* Tasks of other kinds do not count.
LEMMA OtherTasks ==
    ASSUME Types
    PROVE  /\ \A m \in Messages, q \in Seq(TaskRecs) :
                /\ <<Released(m)>> \o q \in Seq(TaskRecs)
                /\ Count(<<Released(m)>> \o q, CloseT) = Count(q, CloseT)
           /\ Count(Append(tasks, Task("protocol", NoMsg)), CloseT) = Closes
           /\ tasks # <<>> /\ Head(tasks).k # "close" =>
                /\ Tail(tasks) \in Seq(TaskRecs) /\ Count(Tail(tasks), CloseT) = Closes
           /\ tasks # <<>> /\ Head(tasks).k = "close" =>
                /\ Tail(tasks) \in Seq(TaskRecs) /\ Count(Tail(tasks), CloseT) = Closes - 1
<1>0. tasks \in Seq(TaskRecs)
  BY DEF Types, Queues
<1>1. ASSUME NEW m \in Messages, NEW q \in Seq(TaskRecs)
      PROVE  /\ <<Released(m)>> \o q \in Seq(TaskRecs)
             /\ Count(<<Released(m)>> \o q, CloseT) = Count(q, CloseT)
  <2>1. Released(m) \in TaskRecs /\ Released(m) \notin CloseT
    BY QueueParts DEF CloseT
  <2>2. /\ <<Released(m)>> \o q \in Seq(TaskRecs)
        /\ Count(<<Released(m)>> \o q, CloseT) = Count(q, CloseT) + One(Released(m) \in CloseT)
    BY <2>1, CountCons
  <2>3. Count(q, CloseT) \in Nat
    BY HitsFinite
  <2> QED BY <2>1, <2>2, <2>3 DEF One
<1>2. Count(Append(tasks, Task("protocol", NoMsg)), CloseT) = Closes
  <2> DEFINE e == Task("protocol", NoMsg)
  <2>1. e \in TaskRecs /\ e \notin CloseT
    BY DEF TaskRecs, CloseT, Task
  <2> HIDE DEF e
  <2>2. Count(Append(tasks, e), CloseT) = Count(tasks, CloseT) + One(e \in CloseT)
    BY <1>0, <2>1, CountAppend
  <2>3. Count(tasks, CloseT) \in Nat
    BY <1>0, HitsFinite
  <2> QED BY <2>1, <2>2, <2>3 DEF One, Closes, e
<1>3. ASSUME tasks # <<>>
      PROVE  /\ Tail(tasks) \in Seq(TaskRecs)
             /\ Count(Tail(tasks), CloseT) = Closes - One(Head(tasks).k = "close")
  <2>1. /\ Head(tasks) \in TaskRecs /\ Tail(tasks) \in Seq(TaskRecs)
        /\ Closes = Count(Tail(tasks), CloseT) + One(Head(tasks) \in CloseT)
    BY <1>0, <1>3, CountTail DEF Closes
  <2>2. Head(tasks) \in CloseT <=> Head(tasks).k = "close"
    BY <2>1 DEF CloseT
  <2>3. Count(Tail(tasks), CloseT) \in Nat
    BY <2>1, HitsFinite
  <2> QED BY <2>1, <2>2, <2>3 DEF One
<1>4. Closes \in Nat
  BY CountsAreNat
<1> QED BY <1>1, <1>2, <1>3, <1>4 DEF One

LEMMA ConnStep == Types /\ ConnInv /\ Next => ConnInv'
<1> SUFFICES ASSUME Types, ConnInv, Next PROVE ConnInv'
  OBVIOUS
<1> USE SameVars, SameClock, SameIo, SameTask, SameSweep
<1>a. CloseInv /\ WriteInv /\ ReadInv /\ StopInv
  BY DEF ConnInv
<1>b. Reads \in Nat /\ Writes \in Nat /\ Drops \in Nat /\ Stops \in Nat /\ Closes \in Nat
  BY CountsAreNat
<1>q. ioQueue \in Seq(Handlers) /\ tasks \in Seq(TaskRecs) /\ Queues
  BY DEF Types, Queues
<1> DEFINE SameSocket == socket' = socket /\ managed' = managed
           SameReading == /\ pendingRead' = pendingRead /\ reading' = reading /\ ioPc' = ioPc
                          /\ readError' = readError
           SameWriting == pendingWrite' = pendingWrite /\ writing' = writing
           SameTimers == readTimer' = readTimer /\ writeTimer' = writeTimer
\* Steps that leave the connection alone.
<1>1. ASSUME SameSocket, SameReading, SameWriting, SameTimers, writeError' = writeError,
             ioQueue' = ioQueue, retryConn' = retryConn, connState' = connState
      PROVE  WriteInv' /\ ReadInv' /\ StopInv'
  BY <1>a, <1>1 DEF WriteInv, ReadInv, StopInv, Reads, Writes, Drops, Stops
<1>2. ASSUME tasks' = tasks, connState' = connState PROVE CloseInv'
  BY <1>a, <1>2 DEF CloseInv, Closes
<1>3. ASSUME CloseConnection(tasks)
      PROVE  /\ CloseInv' /\ connState' # "OPEN"
             /\ connState' = "CLOSED" <=> connState = "CLOSED"
  BY <1>3, <1>a, <1>q, ClosingCounts DEF CloseInv, Closes
\* A handler that the network or a timer adds.
<1>4. ASSUME NEW e \in Handlers, ioQueue' = Append(ioQueue, e)
      PROVE  /\ Reads' = Reads + One(e.h = "read") /\ Writes' = Writes + One(e.h = "write")
             /\ Drops' = Drops + One(e.h = "drop") /\ Stops' = Stops + One(e.h = "stop")
  <2>1. ASSUME NEW h PROVE N(Append(ioQueue, e), h) = N(ioQueue, h) + One(e.h = h)
    BY <1>4, <1>q, AppendCounts
  <2> QED BY <1>4, <2>1 DEF Reads, Writes, Drops, Stops
<1>5. CASE \E ok \in BOOLEAN : ReadEnds(ok)
  <2>1. PICK ok \in BOOLEAN : ReadEnds(ok)
    BY <1>5
  <2> DEFINE e == Handler("read", reading, ok)
  <2>2. /\ reading \in {"header", "body"} /\ reading' = "none" /\ ioQueue' = Append(ioQueue, e)
        /\ UNCHANGED clockOther /\ SameTimers /\ writing' = writing
    BY <2>1 DEF ReadEnds, Types, Scalars
  <2>3. e \in Handlers /\ e.h = "read"
    BY <2>2, QueueParts, HandlerKind
  <2> HIDE DEF e
  <2>4. Reads' = Reads + 1 /\ Writes' = Writes /\ Drops' = Drops /\ Stops' = Stops
    BY <1>4, <1>b, <2>2, <2>3 DEF One
  <2>5. socket = "open"
    BY <1>a, <2>2 DEF ReadInv
  <2>6. connState # "CLOSED"
    BY <1>a, <2>5 DEF StopInv
  <2>7. StopIsLast(ioQueue')
    <3>1. Stops = 0
      BY <1>a, <1>b, <2>6 DEF StopInv, One
    <3> QED BY <3>1, <1>q, <2>2, <2>3, NoStopIsLast DEF Stops
  <2>8. StopInv'
    BY <1>a, <2>2, <2>4, <2>5, <2>7 DEF StopInv
  <2>9. WriteInv'
    BY <1>a, <2>2, <2>4 DEF WriteInv
  <2>10. ReadInv'
    BY <1>a, <1>b, <2>2, <2>4 DEF ReadInv, One
  <2> QED BY <1>2, <2>2, <2>8, <2>9, <2>10 DEF ConnInv
<1>6. CASE \E ok \in BOOLEAN : WriteEnds(ok)
  <2>1. PICK ok \in BOOLEAN : WriteEnds(ok)
    BY <1>6
  <2> DEFINE e == Handler("write", writing, ok)
  <2>2. /\ writing \in Messages /\ writing # NoMsg /\ writing' = NoMsg
        /\ ioQueue' = Append(ioQueue, e)
        /\ UNCHANGED clockOther /\ SameTimers /\ reading' = reading
    BY <2>1 DEF WriteEnds, Types, Pool
  <2>3. e \in Handlers /\ e.h = "write"
    BY <2>2, QueueParts, HandlerKind
  <2> HIDE DEF e
  <2>4. Reads' = Reads /\ Writes' = Writes + 1 /\ Drops' = Drops /\ Stops' = Stops
    BY <1>4, <1>b, <2>2, <2>3 DEF One
  <2>5. socket = "open"
    BY <1>a, <2>2 DEF WriteInv
  <2>6. connState # "CLOSED"
    BY <1>a, <2>5 DEF StopInv
  <2>7. StopIsLast(ioQueue')
    <3>1. Stops = 0
      BY <1>a, <1>b, <2>6 DEF StopInv, One
    <3> QED BY <3>1, <1>q, <2>2, <2>3, NoStopIsLast DEF Stops
  <2>8. StopInv'
    BY <1>a, <2>2, <2>4, <2>5, <2>7 DEF StopInv
  <2>9. WriteInv'
    BY <1>a, <1>b, <2>2, <2>4, <2>5 DEF WriteInv, One
  <2>10. ReadInv'
    BY <1>a, <2>2, <2>4 DEF ReadInv
  <2> QED BY <1>2, <2>2, <2>8, <2>9, <2>10 DEF ConnInv
<1>7. ASSUME NEW h \in Timeouts, ioQueue' = Append(ioQueue, Handler(h, NoMsg, TRUE)),
             SameSocket, SameReading, SameWriting, writeError' = writeError,
             retryConn' = retryConn, connState' = connState, tasks' = tasks,
             socket = "deleted" => SameTimers
      PROVE  ConnInv'
  <2> DEFINE e == Handler(h, NoMsg, TRUE)
  <2>1. e \in Handlers /\ e.h \in Timeouts
    BY QueueParts, HandlerKind DEF Timeouts
  <2> HIDE DEF e
  <2>2. ioQueue' = Append(ioQueue, e)
    BY <1>7 DEF e
  <2>3. Reads' = Reads /\ Writes' = Writes /\ Drops' = Drops /\ Stops' = Stops
    BY <1>4, <1>b, <2>1, <2>2 DEF One, Timeouts
  <2>4. StopIsLast(ioQueue')
    BY <1>a, <1>q, <2>1, <2>2, StopLastKept DEF StopInv
  <2>5. StopInv'
    <3>1. socket' = "deleted" => /\ ~readTimer' /\ ~writeTimer'
                                 /\ Reads' = 0 /\ Writes' = 0 /\ Drops' = 0
      BY <1>a, <1>7, <2>3 DEF StopInv
    <3>2. /\ managed' <=> socket' # "deleted"
          /\ Stops' + One(retryConn') + One(socket' = "deleted") = One(connState' = "CLOSED")
          /\ connState' = "CLOSED" => socket' # "open"
      BY <1>a, <1>7, <2>3 DEF StopInv
    <3> QED BY <2>4, <3>1, <3>2 DEF StopInv
  <2>6. WriteInv' /\ ReadInv'
    BY <1>a, <1>7, <2>3 DEF WriteInv, ReadInv
  <2> QED BY <1>2, <1>7, <2>5, <2>6 DEF ConnInv
<1>8. CASE ReadTimerFires
  <2>1. /\ readTimer /\ ioQueue' = Append(ioQueue, Handler("readTimeout", NoMsg, TRUE))
        /\ writing' = writing /\ reading' = reading /\ UNCHANGED clockOther
    BY <1>8 DEF ReadTimerFires
  <2>2. socket # "deleted" /\ "readTimeout" \in Timeouts
    BY <1>a, <2>1 DEF StopInv, Timeouts
  <2> QED BY <1>7, <2>1, <2>2
<1>9. CASE WriteTimerFires
  <2>1. /\ writeTimer /\ ioQueue' = Append(ioQueue, Handler("writeTimeout", NoMsg, TRUE))
        /\ writing' = writing /\ reading' = reading /\ UNCHANGED clockOther
    BY <1>9 DEF WriteTimerFires
  <2>2. socket # "deleted" /\ "writeTimeout" \in Timeouts
    BY <1>a, <2>1 DEF StopInv, Timeouts
  <2> QED BY <1>7, <2>1, <2>2
<1>10. CASE \E m \in Messages : Ages(m)
  <2>1. UNCHANGED opVars /\ UNCHANGED clockOther
    BY <1>10 DEF Ages
  <2> QED BY <1>1, <1>2, <2>1 DEF ConnInv
\* A handler that runs leaves the queue.
<1>11. ASSUME NEW h, Runs(h)
       PROVE  /\ Rest \in Seq(Handlers) /\ StopIsLast(Rest)
              /\ Now \in Handlers /\ Now.h = h /\ ioPc = "idle"
              /\ N(Rest, "read") = Reads - One(h = "read")
              /\ N(Rest, "write") = Writes - One(h = "write")
              /\ N(Rest, "drop") = Drops - One(h = "drop")
              /\ N(Rest, "stop") = Stops - One(h = "stop")
  <2>1. ioQueue # <<>> /\ Rest \in Seq(Handlers) /\ Now.h = h /\ Now \in Handlers
    BY <1>11, <1>q, QueueHeads
  <2>2. StopIsLast(Rest)
    BY <1>a, <1>q, <2>1, StopLastKept DEF StopInv, Rest
  <2>3. ASSUME NEW k
        PROVE  N(ioQueue, k) = N(Rest, k) + One(h = k) /\ N(Rest, k) \in Nat /\ One(h = k) \in Nat
    BY <1>q, <2>1, KindCounts DEF Rest, Now, One
  <2> QED BY <1>11, <2>1, <2>2, <2>3 DEF Runs, Reads, Writes, Drops, Stops
<1>12. ASSUME NEW h, Runs(h), ioQueue' = Rest
       PROVE  /\ StopIsLast(ioQueue') /\ ioPc = "idle"
              /\ Reads' = Reads - One(h = "read") /\ Writes' = Writes - One(h = "write")
              /\ Drops' = Drops - One(h = "drop") /\ Stops' = Stops - One(h = "stop")
  BY <1>11, <1>12 DEF Reads, Writes, Drops, Stops
<1>13. ASSUME Runs("read")
       PROVE  Reads >= 1 /\ socket # "deleted"
  <2>1. N(Rest, "read") = Reads - 1 /\ N(Rest, "read") \in Nat
    BY <1>11, <1>13, KindCounts DEF One
  <2> QED BY <1>a, <1>b, <2>1 DEF StopInv
\* The steps of parseHeader and parsePacket.
<1>14. ASSUME Runs("read"), ioQueue' = Rest, UNCHANGED readOther, connState' # connState => CloseConnection(tasks)
       PROVE  WriteInv' /\ StopInv'
  <2>1. /\ StopIsLast(ioQueue') /\ Writes' = Writes /\ Drops' = Drops /\ Stops' = Stops
        /\ socket # "deleted"
    BY <1>b, <1>12, <1>13, <1>14 DEF One
  <2>2. connState' = "CLOSED" <=> connState = "CLOSED"
    BY <1>3, <1>14
  <2>3. StopInv'
    BY <1>a, <1>14, <2>1, <2>2 DEF StopInv, One
  <2>4. WriteInv'
    BY <1>a, <1>14, <2>1 DEF WriteInv
  <2> QED BY <2>3, <2>4
<1>15. CASE ReadFails
  <2>1. /\ Runs("read") /\ ioQueue' = Rest /\ UNCHANGED readOther /\ CloseConnection(tasks)
        /\ UNCHANGED pendingRead /\ UNCHANGED reading /\ UNCHANGED ioPc
    BY <1>15 DEF ReadFails
  <2>2. ioPc = "idle" /\ connState' # "OPEN" /\ CloseInv'
    BY <1>3, <1>12, <2>1
  <2>3. ReadInv'
    BY <1>a, <2>1, <2>2 DEF ReadInv
  <2> QED BY <1>14, <2>1, <2>2, <2>3 DEF ConnInv
\* Those that succeed find the connection open, with its only read just done.
<1>16. ASSUME NEW what, ReadSucceeds(what)
       PROVE  /\ Runs("read") /\ ioQueue' = Rest /\ connState = "OPEN" /\ readError' = readError
              /\ ~readError /\ ~writeError /\ socket = "open" /\ pendingRead = 1
              /\ Reads' = 0 /\ reading = "none" /\ ioPc = "idle"
  <2>1. /\ Runs("read") /\ ioQueue' = Rest /\ connState = "OPEN" /\ readError' = readError
    BY <1>16 DEF ReadSucceeds
  <2>2. Reads >= 1 /\ ioPc = "idle" /\ Reads' = Reads - 1
    BY <1>12, <1>13, <2>1 DEF One
  <2>3. /\ Reads + One(reading # "none") = 1 /\ socket = "open" /\ ~readError /\ ~writeError
        /\ pendingRead = 1
    BY <1>a, <2>1, <2>2 DEF ReadInv, One
  <2> QED BY <1>b, <2>1, <2>2, <2>3 DEF One
<1>17. CASE ParseHeader
  <2>1. /\ ReadSucceeds("header") /\ reading' = "body" /\ UNCHANGED readOther
        /\ UNCHANGED connState /\ UNCHANGED pendingRead /\ UNCHANGED ioPc /\ UNCHANGED tasks
    BY <1>17 DEF ParseHeader, Read
  <2>2. ReadInv'
    BY <1>a, <1>16, <2>1 DEF ReadInv, One
  <2> QED BY <1>2, <1>14, <1>16, <2>1, <2>2 DEF ConnInv
<1>18. CASE NoSuchProtocol
  <2>1. /\ ReadSucceeds("body") /\ pendingRead' = pendingRead - 1 /\ UNCHANGED readOther
        /\ CloseConnection(tasks) /\ UNCHANGED reading /\ UNCHANGED ioPc
    BY <1>18 DEF NoSuchProtocol
  <2>2. ReadInv'
    BY <1>a, <1>3, <1>16, <2>1 DEF ReadInv
  <2> QED BY <1>3, <1>14, <1>16, <2>1, <2>2 DEF ConnInv
<1>19. CASE ParsePacket
  <2>1. /\ ReadSucceeds("body") /\ reading' = "header" /\ UNCHANGED readOther
        /\ UNCHANGED pendingRead /\ UNCHANGED ioPc
        /\ \/ connState' = connState /\ tasks' = tasks
           \/ connState' = connState /\ tasks' = Append(tasks, Task("protocol", NoMsg))
           \/ CloseConnection(tasks)
    BY <1>19 DEF ParsePacket, Read
  <2>2. connState' # connState => CloseConnection(tasks)
    BY <2>1
  <2>3. CloseInv'
    BY <1>a, <1>3, <2>1, OtherTasks DEF CloseInv, Closes
  <2>4. ReadInv'
    BY <1>a, <1>16, <2>1 DEF ReadInv, One
  <2> QED BY <1>14, <1>16, <2>1, <2>2, <2>3, <2>4 DEF ConnInv
<1>20. CASE ParseRefusedPacket
  <2>1. /\ ReadSucceeds("body") /\ ioPc' = "parsing" /\ UNCHANGED readOther
        /\ UNCHANGED connState /\ UNCHANGED pendingRead /\ UNCHANGED reading /\ UNCHANGED tasks
    BY <1>20 DEF ParseRefusedPacket
  <2>2. ReadInv'
    BY <1>a, <1>16, <2>1 DEF ReadInv, One
  <2> QED BY <1>2, <1>14, <1>16, <2>1, <2>2 DEF ConnInv
\* A message that is sent on an open connection.
<1>21. ASSUME NEW m \in Messages, Transmit(m), connState = "OPEN", ioQueue' = ioQueue,
              socket' = socket
       PROVE  WriteInv' /\ (writeTimer' # writeTimer => writing' # NoMsg)
  <2>1. socket = "open" /\ m # NoMsg
    BY <1>a, <1>21, ConnectionAssumption DEF ReadInv
  <2>2. Writes' = Writes
    BY <1>21 DEF Writes
  <2>3. CASE pendingWrite = 0
    <3>1. writing' = m /\ pendingWrite' = 1 /\ Writes = 0
      BY <1>a, <1>b, <1>21, <2>1, <2>3 DEF Transmit, StartWrite, WriteInv, One
    <3> QED BY <1>21, <2>1, <2>2, <3>1 DEF WriteInv, One
  <2>4. CASE pendingWrite # 0
    <3>1. writing' = writing /\ pendingWrite' = pendingWrite /\ writeTimer' = writeTimer
      BY <1>21, <2>4 DEF Transmit, StartWrite
    <3> QED BY <1>a, <1>21, <2>2, <3>1 DEF WriteInv
  <2> QED BY <2>3, <2>4
<1>22. ASSUME connState = "OPEN", ioQueue' = ioQueue, SameSocket, retryConn' = retryConn,
              connState' = "CLOSED" <=> connState = "CLOSED"
       PROVE  StopInv'
  <2>1. socket = "open"
    BY <1>a, <1>22 DEF ReadInv
  <2>2. Stops' = Stops /\ StopIsLast(ioQueue')
    BY <1>a, <1>22 DEF StopInv, Stops
  <2> QED BY <1>a, <1>22, <2>1, <2>2 DEF StopInv
<1>23. CASE DisconnectClient
  <2>1. PICK m \in Messages : Transmit(m)
    BY <1>23 DEF DisconnectClient
  <2>2. /\ ioPc = "parsing" /\ ioPc' \in {"idle", "kicking"} /\ CloseConnection(tasks)
        /\ UNCHANGED socket /\ UNCHANGED managed /\ UNCHANGED pendingRead
        /\ UNCHANGED ioQueue /\ UNCHANGED retryVars
    BY <1>23, AfterPacket DEF DisconnectClient
  <2>3. connState = "OPEN" /\ socket = "open"
    BY <1>a, <2>2 DEF ReadInv
  <2>4. ReadInv'
    BY <1>a, <1>3, <2>2, <2>3 DEF ReadInv
  <2> QED BY <1>3, <1>21, <1>22, <2>1, <2>2, <2>3, <2>4 DEF ConnInv
<1>56. CASE ParseOverrun
  <2>1. /\ ReadSucceeds("body") /\ UNCHANGED readOther /\ CloseConnection(tasks)
        /\ UNCHANGED pendingRead /\ ioPc' \in {"idle", "kicking"}
    BY <1>56, AfterPacket DEF ParseOverrun
  <2>2. ReadInv'
    BY <1>a, <1>3, <1>16, <2>1 DEF ReadInv
  <2> QED BY <1>3, <1>14, <1>16, <2>1, <2>2 DEF ConnInv
<1>57. CASE KickPlayer
  <2>1. /\ ioPc = "kicking" /\ ioPc' \in {"idle", "kicking"} /\ UNCHANGED connVars
        /\ UNCHANGED writing /\ UNCHANGED ioQueue /\ UNCHANGED tasks /\ UNCHANGED retryVars
    BY <1>57, AfterPacket DEF KickPlayer
  <2>2. connState # "OPEN" /\ socket = "open"
    BY <1>a, <2>1 DEF ReadInv
  <2>3. ReadInv'
    BY <1>a, <2>1, <2>2 DEF ReadInv
  <2>4. WriteInv'
    BY <1>a, <2>1 DEF WriteInv, Writes
  <2>5. StopInv'
    BY <1>a, <2>1, <2>2 DEF StopInv, Stops
  <2> QED BY <1>2, <2>1, <2>3, <2>4, <2>5 DEF ConnInv
\* The socket is closed, and what it aborts is behind the stop handler only if there is
\* nothing to abort.
<1>24. ASSUME NEW q \in Seq(Handlers), StopIsLast(q), N(q, "stop") = Stops
       PROVE  StopIsLast(q \o Aborted)
  <2>1. CASE socket = "open"
    <3>1. Stops = 0
      BY <1>a, <1>b, <2>1 DEF StopInv, One
    <3>2. q \o Aborted \in Seq(Handlers) /\ N(q \o Aborted, "stop") = 0
      BY <1>24, <3>1, AbortCounts
    <3> DEFINE a == q \o Aborted
    <3> HIDE DEF a
    <3>3. a \in Seq(Handlers) /\ N(a, "stop") = 0
      BY <3>2 DEF a
    <3>4. StopIsLast(a)
      BY <3>3, NoStopIsLast
    <3> QED BY <3>4 DEF a
  <2>2. CASE socket # "open"
    <3>1. q \o Aborted = q
      BY <1>a, <1>24, <2>2, AbortCounts DEF ReadInv, WriteInv
    <3> QED BY <1>24, <3>1
  <2> QED BY <2>1, <2>2
<1>25. ASSUME CloseSocket, socket # "deleted"
       PROVE  /\ socket' = "closed" /\ reading' = "none" /\ writing' = NoMsg
              /\ pendingRead' \in 0..1 /\ pendingWrite' \in Nat
  <2>1. socket \in {"open", "closed"}
    BY <1>25 DEF Types, Scalars
  <2> QED BY <1>a, <1>25, <2>1, SocketCloses DEF ReadInv, WriteInv
<1>26. ASSUME NEW q \in Seq(Handlers), StopIsLast(q), N(q, "stop") = Stops, CloseSocket,
              ioQueue' = q \o Aborted, CloseConnection(tasks), ioPc' = "idle",
              socket # "deleted", managed' = managed, retryConn' = retryConn
       PROVE  ConnInv'
  <2>1. /\ socket' = "closed" /\ reading' = "none" /\ writing' = NoMsg
        /\ pendingRead' \in 0..1 /\ pendingWrite' \in Nat
    BY <1>25, <1>26
  <2>2. CloseInv' /\ connState' # "OPEN" /\ (connState' = "CLOSED" <=> connState = "CLOSED")
    BY <1>3, <1>26
  <2>3. Stops' = Stops /\ StopIsLast(ioQueue')
    BY <1>24, <1>26, AbortCounts DEF Stops
  <2>4. WriteInv' /\ ReadInv'
    BY <1>26, <2>1, <2>2 DEF WriteInv, ReadInv
  <2>5. StopInv'
    BY <1>a, <1>26, <2>1, <2>2, <2>3 DEF StopInv
  <2> QED BY <2>2, <2>4, <2>5 DEF ConnInv
<1>27. CASE OnWrite
  <2> DEFINE e == Handler("drop", Now.what, TRUE)
             q == <<e>> \o Rest
  <2>1. /\ Runs("write") /\ UNCHANGED readError /\ UNCHANGED ioPc /\ UNCHANGED ioOther
    BY <1>27 DEF OnWrite
  <2>2. /\ Rest \in Seq(Handlers) /\ StopIsLast(Rest) /\ Now \in Handlers /\ ioPc = "idle"
        /\ Now.h = "write"
        /\ N(Rest, "read") = Reads /\ N(Rest, "write") = Writes - 1
        /\ N(Rest, "drop") = Drops /\ N(Rest, "stop") = Stops /\ N(Rest, "write") \in Nat
    BY <1>b, <1>11, <2>1, KindCounts DEF One
  <2>3. socket # "deleted" /\ Writes >= 1
    BY <1>a, <1>b, <2>2 DEF StopInv
  <2>4. e \in Handlers /\ e.h = "drop"
    <3>1. e \in Handlers
      BY <2>2, DropType
    <3>2. e.h = "drop"
      BY HandlerKind
    <3> QED BY <3>1, <3>2
  <2>5. \/ /\ connState = "OPEN" /\ ~writeError' /\ ioQueue' = q
           /\ pendingWrite' = pendingWrite - 1
           /\ UNCHANGED connState /\ UNCHANGED socket /\ UNCHANGED pendingRead
           /\ UNCHANGED reading /\ UNCHANGED writing /\ UNCHANGED tasks
        \/ CloseSocket /\ ioQueue' = q \o Aborted /\ CloseConnection(tasks)
    BY <1>27 DEF OnWrite
  <2> HIDE DEF e
  <2>6. /\ q \in Seq(Handlers) /\ StopIsLast(q)
        /\ N(q, "read") = Reads /\ N(q, "write") = Writes - 1 /\ N(q, "stop") = Stops
    <3>1. q \in Seq(Handlers) /\ StopIsLast(q)
      BY <2>2, <2>4, CountCons, StopLastKept
    <3>2. ASSUME NEW h PROVE N(q, h) = N(Rest, h) + One(e.h = h)
      BY <2>2, <2>4, KindCounts
    <3> QED BY <1>b, <2>2, <2>4, <3>1, <3>2 DEF One
  <2> HIDE DEF q
  <2>7. CASE CloseSocket /\ ioQueue' = q \o Aborted /\ CloseConnection(tasks)
    BY <1>26, <2>1, <2>2, <2>3, <2>6, <2>7
  <2>8. CASE /\ connState = "OPEN" /\ ~writeError' /\ ioQueue' = q
             /\ pendingWrite' = pendingWrite - 1
             /\ UNCHANGED connState /\ UNCHANGED socket /\ UNCHANGED pendingRead
             /\ UNCHANGED reading /\ UNCHANGED writing /\ UNCHANGED tasks
    <3>1. Reads' = Reads /\ Writes' = Writes - 1 /\ Stops' = Stops /\ StopIsLast(ioQueue')
      BY <2>6, <2>8 DEF Reads, Writes, Stops
    <3>2. ReadInv'
      BY <1>a, <2>1, <2>8, <3>1 DEF ReadInv
    <3>3. socket = "open"
      BY <1>a, <2>8 DEF ReadInv
    <3>4. pendingWrite = Writes + One(writing # NoMsg) /\ pendingWrite <= 1
      BY <1>a, <3>3 DEF WriteInv
    <3>5. WriteInv'
      BY <1>b, <2>3, <2>8, <3>1, <3>3, <3>4 DEF WriteInv, One
    <3>6. StopInv'
      BY <1>a, <2>1, <2>3, <2>8, <3>1 DEF StopInv
    <3> QED BY <1>2, <2>8, <3>2, <3>5, <3>6 DEF ConnInv
  <2> QED BY <2>5, <2>7, <2>8
<1>28. CASE OnTimeout
  <2>1. PICK h \in Timeouts : Runs(h)
    BY <1>28 DEF OnTimeout, Timeouts
  <2>2. /\ UNCHANGED readError /\ UNCHANGED writeError /\ UNCHANGED readTimer
        /\ UNCHANGED writeTimer /\ UNCHANGED ioPc /\ UNCHANGED ioOther
    BY <1>28 DEF OnTimeout
  <2>3. \/ managed /\ CloseSocket /\ ioQueue' = Rest \o Aborted /\ CloseConnection(tasks)
        \/ /\ ioQueue' = Rest
           /\ UNCHANGED connState /\ UNCHANGED socket /\ UNCHANGED pendingRead
           /\ UNCHANGED pendingWrite /\ UNCHANGED reading /\ UNCHANGED writing /\ UNCHANGED tasks
    BY <1>28 DEF OnTimeout
  <2>4. /\ Rest \in Seq(Handlers) /\ StopIsLast(Rest) /\ ioPc = "idle"
        /\ N(Rest, "read") = Reads /\ N(Rest, "write") = Writes
        /\ N(Rest, "drop") = Drops /\ N(Rest, "stop") = Stops
    BY <1>b, <1>11, <2>1 DEF One, Timeouts
  <2>5. CASE managed /\ CloseSocket /\ ioQueue' = Rest \o Aborted /\ CloseConnection(tasks)
    <3>1. socket # "deleted"
      BY <1>a, <2>5 DEF StopInv
    <3> QED BY <1>26, <2>2, <2>4, <2>5, <3>1
  <2>6. CASE /\ ioQueue' = Rest
             /\ UNCHANGED connState /\ UNCHANGED socket /\ UNCHANGED pendingRead
             /\ UNCHANGED pendingWrite /\ UNCHANGED reading /\ UNCHANGED writing /\ UNCHANGED tasks
    <3>1. /\ Reads' = Reads /\ Writes' = Writes /\ Drops' = Drops /\ Stops' = Stops
          /\ StopIsLast(ioQueue')
      BY <2>4, <2>6 DEF Reads, Writes, Drops, Stops
    <3>2. ReadInv' /\ WriteInv'
      BY <1>a, <2>2, <2>6, <3>1 DEF ReadInv, WriteInv
    <3>3. StopInv'
      BY <1>a, <2>2, <2>6, <3>1 DEF StopInv
    <3> QED BY <1>2, <2>6, <3>2, <3>3 DEF ConnInv
  <2> QED BY <2>3, <2>5, <2>6
<1>29. CASE DropMessage
  <2>1. /\ Runs("drop") /\ ioQueue' = Rest /\ tasks' = <<Released(Now.what)>> \o tasks
        /\ UNCHANGED connVars /\ UNCHANGED reading /\ UNCHANGED writing /\ UNCHANGED ioPc
        /\ UNCHANGED retryVars
    BY <1>29 DEF DropMessage
  <2>2. /\ StopIsLast(ioQueue') /\ Reads' = Reads /\ Writes' = Writes /\ Stops' = Stops
        /\ N(Rest, "drop") = Drops - 1 /\ N(Rest, "drop") \in Nat
        /\ Now \in Handlers /\ Now.h = "drop"
    BY <1>b, <1>11, <1>12, <2>1, KindCounts DEF One
  <2>3. socket # "deleted"
    BY <1>a, <2>2 DEF StopInv
  <2>4. Now.what \in Messages
    BY <2>2, DropType
  <2>5. CloseInv'
    BY <1>a, <1>q, <2>1, <2>4, OtherTasks DEF CloseInv, Closes
  <2>6. ReadInv' /\ WriteInv'
    BY <1>a, <2>1, <2>2 DEF ReadInv, WriteInv
  <2>7. StopInv'
    BY <1>a, <2>1, <2>2, <2>3 DEF StopInv
  <2> QED BY <2>5, <2>6, <2>7 DEF ConnInv
<1>30. CASE OnStop
  <2>1. /\ Runs("stop") /\ ioQueue' = Rest /\ socket' = "deleted"
        /\ ~managed' /\ ~readTimer' /\ ~writeTimer'
        /\ UNCHANGED connState /\ UNCHANGED pendingRead /\ UNCHANGED pendingWrite
        /\ UNCHANGED reading /\ UNCHANGED writing /\ UNCHANGED ioPc /\ UNCHANGED tasks
        /\ UNCHANGED retryVars
    BY <1>30 DEF OnStop
  <2>2. /\ StopIsLast(ioQueue') /\ Stops' = Stops - 1 /\ Reads' = Reads /\ Writes' = Writes
        /\ Drops' = Drops /\ ioQueue # <<>> /\ Now.h = "stop" /\ N(Rest, "stop") \in Nat
        /\ Rest \in Seq(Handlers) /\ N(Rest, "stop") = Stops - 1
    BY <1>b, <1>q, <1>11, <1>12, <2>1, KindCounts, QueueHeads DEF One
  <2>3. /\ Stops = 1 /\ connState = "CLOSED" /\ socket # "deleted" /\ ~retryConn
    BY <1>a, <1>b, <2>2 DEF StopInv, One
  <2>4. socket = "closed"
    BY <1>a, <2>3 DEF StopInv, Types, Scalars
  <2>5. Reads' = 0 /\ Writes' = 0 /\ Drops' = 0
    <3>1. ASSUME NEW h, h \notin Timeouts PROVE N(Rest, h) = 0
      BY <1>a, <1>q, <2>2, <3>1, OnlyTimersAreLeft DEF StopInv, Rest, Now
    <3> QED BY <2>1, <3>1 DEF Reads, Writes, Drops, Timeouts
  <2>6. WriteInv' /\ ReadInv'
    BY <1>a, <2>1, <2>3, <2>4 DEF WriteInv, ReadInv
  <2>7. StopInv'
    BY <2>1, <2>2, <2>3, <2>5 DEF StopInv, One
  <2> QED BY <1>2, <2>1, <2>6, <2>7 DEF ConnInv
\* The dispatcher's tasks.
<1>31. ASSUME SameSocket, SameTimers, ioQueue' = ioQueue, retryConn' = retryConn,
              connState' = "CLOSED" <=> connState = "CLOSED"
       PROVE  StopInv'
  BY <1>a, <1>31 DEF StopInv, Reads, Writes, Drops, Stops
<1>32. ASSUME SameSocket, SameReading, connState' # "OPEN", ioPc = "idle" PROVE ReadInv'
  BY <1>a, <1>32 DEF ReadInv
<1>33. ASSUME SameSocket, SameWriting, ioQueue' = ioQueue PROVE WriteInv'
  BY <1>a, <1>33 DEF WriteInv, Writes
<1>34. ASSUME NEW q \in Seq(TaskRecs), Count(q, CloseT) = Closes, CloseConnection(q)
       PROVE  /\ CloseInv' /\ connState' # "OPEN"
              /\ connState' = "CLOSED" <=> connState = "CLOSED"
  BY <1>a, <1>34, ClosingCounts DEF CloseInv
<1>35. ASSUME NEW q \in Seq(TaskRecs), Count(q, CloseT) = Closes, UNCHANGED taskOther,
              retryConn' = retryConn, Write(q) \/ DoNothing(q) \/ Disconnect(q) \/ Refuse(q)
       PROVE  ConnInv'
  <2>1. CASE Write(q) \/ DoNothing(q)
    <3>1. tasks' = q /\ connState' = connState /\ UNCHANGED noWrite
      BY <2>1 DEF Write, DoNothing
    <3>2. CloseInv'
      BY <1>a, <1>35, <3>1 DEF CloseInv, Closes
    <3> QED BY <1>1, <1>35, <3>1, <3>2 DEF ConnInv
  <2>2. CASE Disconnect(q)
    <3>1. ioPc = "idle" /\ CloseConnection(q) /\ UNCHANGED noSend
      BY <2>2 DEF Disconnect
    <3> QED BY <1>31, <1>32, <1>33, <1>34, <1>35, <3>1 DEF ConnInv
  <2>3. CASE Refuse(q)
    <3>1. PICK m \in Messages :
            \/ connState = "OPEN" /\ Transmit(m) /\ CloseConnection(q)
            \/ CloseConnection(<<Released(m)>> \o q) /\ UNCHANGED noWrite
      BY <2>3 DEF Refuse
    <3>2. ioPc = "idle"
      BY <2>3 DEF Refuse
    <3>3. CASE connState = "OPEN" /\ Transmit(m) /\ CloseConnection(q)
      <4>1. WriteInv'
        BY <1>21, <1>35, <3>3
      <4> QED BY <1>22, <1>32, <1>34, <1>35, <3>2, <3>3, <4>1 DEF ConnInv
    <3>4. CASE CloseConnection(<<Released(m)>> \o q) /\ UNCHANGED noWrite
      <4> DEFINE r == <<Released(m)>> \o q
      <4>1. r \in Seq(TaskRecs) /\ Count(r, CloseT) = Closes
        BY <1>35, OtherTasks
      <4>2. CloseConnection(r)
        BY <3>4
      <4> HIDE DEF r
      <4> QED BY <1>31, <1>32, <1>33, <1>34, <1>35, <3>2, <3>4, <4>1, <4>2 DEF ConnInv
    <3> QED BY <3>1, <3>3, <3>4
  <2> QED BY <1>35, <2>1, <2>2, <2>3
<1>36. /\ Count(tasks, CloseT) = Closes
       /\ Takes("protocol") =>
            Tail(tasks) \in Seq(TaskRecs) /\ Count(Tail(tasks), CloseT) = Closes
  <2>1. Count(tasks, CloseT) = Closes
    BY DEF Closes
  <2>2. ASSUME Takes("protocol")
        PROVE  Tail(tasks) \in Seq(TaskRecs) /\ Count(Tail(tasks), CloseT) = Closes
    BY <2>2, OtherTasks DEF Takes
  <2> QED BY <2>1, <2>2
<1>37. CASE GameTask
  <2>1. /\ UNCHANGED taskOther /\ UNCHANGED retryVars
        /\ DoNothing(tasks) \/ Write(tasks) \/ Disconnect(tasks)
    BY <1>37 DEF GameTask
  <2> QED BY <1>35, <1>36, <1>q, <2>1
<1>38. CASE Login
  <2>1. /\ UNCHANGED taskOther /\ retryConn' = retryConn /\ Takes("protocol")
        /\ Write(Tail(tasks)) \/ Refuse(Tail(tasks)) \/ DoNothing(Tail(tasks))
    BY <1>38 DEF Login, EntersGame
  <2> QED BY <1>35, <1>36, <2>1
<1>39. CASE Logout
  <2>1. /\ UNCHANGED taskOther /\ UNCHANGED retryVars /\ Takes("protocol")
        /\ Write(Tail(tasks)) \/ Disconnect(Tail(tasks)) \/ DoNothing(Tail(tasks))
    BY <1>39 DEF Logout
  <2> QED BY <1>35, <1>36, <2>1
<1>40. CASE Connect
  <2>1. /\ UNCHANGED taskOther /\ retryConn' = retryConn
        /\ Write(tasks) \/ Refuse(tasks) \/ DoNothing(tasks)
    BY <1>40 DEF Connect, EntersGame
  <2> QED BY <1>35, <1>36, <1>q, <2>1
<1>41. CASE UnRef
  <2>1. /\ UNCHANGED connVars /\ UNCHANGED opVars /\ UNCHANGED ioPc /\ UNCHANGED tasks
        /\ UNCHANGED retryVars
    BY <1>41 DEF UnRef
  <2> QED BY <1>1, <1>2, <2>1 DEF ConnInv
<1>42. CASE RetryReleaseProtocol
  <2>1. /\ UNCHANGED connVars /\ UNCHANGED opVars /\ UNCHANGED ioPc /\ UNCHANGED tasks
        /\ UNCHANGED retryConn
    BY <1>42 DEF RetryReleaseProtocol
  <2> QED BY <1>1, <1>2, <2>1 DEF ConnInv
<1>43. CASE InternalReleaseMessage
  <2>1. /\ UNCHANGED connVars /\ UNCHANGED opVars /\ UNCHANGED ioPc /\ tasks' = Tail(tasks)
        /\ UNCHANGED retryVars /\ dispPc = "unref"
    BY <1>43 DEF InternalReleaseMessage
  <2>2. tasks # <<>> /\ Head(tasks).k = "release"
    BY <1>q, <2>1, HeadTailProperties DEF Queues, ReleaseInFront
  <2>3. CloseInv'
    BY <1>a, <2>1, <2>2, OtherTasks DEF CloseInv, Closes
  <2> QED BY <1>1, <2>1, <2>3 DEF ConnInv
\* releaseConnection: what it stands on is that nothing has stopped the connection yet.
<1>44. ASSUME NEW q \in Seq(Handlers), N(q, "stop") = 0, StopIsLast(q), ReleaseConnection(q),
              connState' = "CLOSED", socket' = "closed", managed' = managed,
              socket # "deleted"
       PROVE  StopInv'
  <2> DEFINE e == Handler("stop", NoMsg, TRUE)
  <2>1. e \in Handlers /\ e.h = "stop"
    BY QueueParts, HandlerKind
  <2>2. \/ ioQueue' = q /\ retryConn'
        \/ ioQueue' = Append(q, e) /\ ~retryConn'
    BY <1>44 DEF ReleaseConnection
  <2> HIDE DEF e
  <2>3. StopIsLast(Append(q, e)) /\ N(Append(q, e), "stop") = 1
    BY <1>44, <2>1, NoStopIsLast, AppendCounts DEF One
  <2>4. CASE ioQueue' = q /\ retryConn'
    <3>1. Stops' = 0 /\ StopIsLast(ioQueue')
      BY <1>44, <2>4 DEF Stops
    <3> QED BY <1>a, <1>44, <2>4, <3>1 DEF StopInv, One
  <2>5. CASE ioQueue' = Append(q, e) /\ ~retryConn'
    <3>1. Stops' = 1 /\ StopIsLast(ioQueue')
      BY <2>3, <2>5 DEF Stops
    <3> QED BY <1>a, <1>44, <2>5, <3>1 DEF StopInv, One
  <2> QED BY <2>2, <2>4, <2>5
<1>45. CASE CloseConnectionTask
  <2>1. Takes("close") /\ ioPc = "idle" /\ tasks' = Tail(tasks) /\ managed' = managed
        /\ UNCHANGED readTimer /\ UNCHANGED writeTimer /\ UNCHANGED ioPc
        /\ UNCHANGED readError /\ UNCHANGED writeError
    BY <1>45 DEF CloseConnectionTask
  <2>2. Tail(tasks) \in Seq(TaskRecs) /\ Count(Tail(tasks), CloseT) = Closes - 1
    BY <2>1, OtherTasks DEF Takes
  <2>3. Closes' = Closes - 1 /\ Closes >= 1
    <3>1. Closes' = Count(Tail(tasks), CloseT)
      BY <2>1 DEF Closes
    <3>2. Count(Tail(tasks), CloseT) \in Nat
      BY <2>2, HitsFinite
    <3> QED BY <1>b, <2>2, <3>1, <3>2
  <2>4. connState = "REQUEST_CLOSE" /\ Closes' = 0
    BY <1>a, <1>b, <2>3 DEF CloseInv, One
  <2>5. Stops = 0 /\ ~retryConn /\ socket # "deleted"
    BY <1>a, <1>b, <2>4 DEF StopInv, One
  <2>6. \/ /\ connState' = "CLOSED" /\ CloseSocket /\ ReleaseConnection(ioQueue \o Aborted)
        \/ /\ connState' = "CLOSING" /\ UNCHANGED socket /\ UNCHANGED pendingRead
           /\ UNCHANGED pendingWrite /\ UNCHANGED reading /\ UNCHANGED writing
           /\ UNCHANGED ioQueue /\ UNCHANGED retryConn
    BY <1>45, <2>4 DEF CloseConnectionTask
  <2>7. CASE connState' = "CLOSED" /\ CloseSocket /\ ReleaseConnection(ioQueue \o Aborted)
    <3>1. /\ socket' = "closed" /\ reading' = "none" /\ writing' = NoMsg
          /\ pendingRead' \in 0..1 /\ pendingWrite' \in Nat
      BY <1>25, <2>5, <2>7
    <3> DEFINE q == ioQueue \o Aborted
    <3>2. q \in Seq(Handlers) /\ N(q, "stop") = 0
      BY <1>q, <2>5, AbortCounts DEF Stops
    <3>3. ReleaseConnection(q)
      BY <2>7
    <3> HIDE DEF q
    <3>4. StopIsLast(q)
      BY <3>2, NoStopIsLast
    <3>5. StopInv'
      BY <1>44, <2>1, <2>5, <2>7, <3>1, <3>2, <3>3, <3>4
    <3>6. CloseInv' /\ ReadInv' /\ WriteInv'
      BY <2>1, <2>4, <2>7, <3>1 DEF CloseInv, ReadInv, WriteInv, One
    <3> QED BY <3>5, <3>6 DEF ConnInv
  <2>8. CASE /\ connState' = "CLOSING" /\ UNCHANGED socket /\ UNCHANGED pendingRead
             /\ UNCHANGED pendingWrite /\ UNCHANGED reading /\ UNCHANGED writing
             /\ UNCHANGED ioQueue /\ UNCHANGED retryConn
    <3>1. CloseInv'
      BY <2>4, <2>8 DEF CloseInv, One
    <3> QED BY <1>31, <1>32, <1>33, <2>1, <2>4, <2>8, <3>1 DEF ConnInv
  <2> QED BY <2>6, <2>7, <2>8
<1>46. CASE RetryReleaseConnection
  <2>1. /\ retryConn /\ ReleaseConnection(ioQueue) /\ UNCHANGED connVars /\ UNCHANGED reading
        /\ UNCHANGED writing /\ UNCHANGED ioPc /\ UNCHANGED tasks
    BY <1>46 DEF RetryReleaseConnection
  <2>2. Stops = 0 /\ connState = "CLOSED" /\ socket # "deleted"
    BY <1>a, <1>b, <2>1 DEF StopInv, One
  <2>3. socket = "closed"
    BY <1>a, <2>2 DEF StopInv, Types, Scalars
  <2>4. StopInv'
    BY <1>44, <1>a, <1>q, <2>1, <2>2, <2>3 DEF StopInv, Stops
  <2>5. ReadInv' /\ WriteInv'
    BY <1>a, <2>1, <2>2, <2>3 DEF ReadInv, WriteInv
  <2> QED BY <1>2, <2>1, <2>4, <2>5 DEF ConnInv
\* The sweep.
<1>47. ASSUME UNCHANGED sweepOther, UNCHANGED pendingWrite, UNCHANGED writing,
              UNCHANGED writeTimer,
              \/ tasks' = tasks
              \/ \E m \in Messages : tasks' = <<Released(m)>> \o tasks
       PROVE  ConnInv'
  <2>1. Closes' = Closes
    BY <1>47, <1>q, OtherTasks DEF Closes
  <2>2. CloseInv'
    BY <1>a, <1>47, <2>1 DEF CloseInv
  <2> QED BY <1>1, <1>47, <2>2 DEF ConnInv
<1>48. CASE SweepBegins
  BY <1>47, <1>48 DEF SweepBegins
<1>49. CASE SweepRequeues
  BY <1>47, <1>49 DEF SweepRequeues, TakeUp
<1>50. CASE SweepDrops
  <2>1. /\ dispPc = "sweep" /\ sweepAt = 0 /\ UNCHANGED sweepOther /\ UNCHANGED pendingWrite
        /\ UNCHANGED writing /\ UNCHANGED writeTimer
        /\ tasks' = <<Released(Head(toAdd))>> \o tasks
    BY <1>50 DEF SweepDrops, TakeUp
  <2>2. Head(toAdd) \in Messages
    BY <2>1, HeadTailProperties DEF Types, Pool
  <2> QED BY <1>47, <2>1, <2>2
<1>51. CASE SweepKeeps
  BY <1>47, <1>51 DEF SweepKeeps
<1>52. ASSUME Sweeping PROVE autoSend[sweepAt] \in Messages
  BY <1>52, CountRemove DEF Sweeping, Types, Pool
<1>53. CASE SweepFrees
  <2>1. /\ Sweeping /\ UNCHANGED sweepOther /\ UNCHANGED pendingWrite
        /\ UNCHANGED writing /\ UNCHANGED writeTimer
        /\ tasks' = <<Released(autoSend[sweepAt])>> \o tasks
    BY <1>53 DEF SweepFrees
  <2> QED BY <1>47, <1>52, <2>1
<1>54. CASE SweepSends
  <2>1. /\ Sweeping /\ UNCHANGED sweepOther /\ connState = "OPEN"
        /\ Transmit(autoSend[sweepAt]) /\ UNCHANGED tasks
    BY <1>54 DEF SweepSends
  <2>2. WriteInv'
    BY <1>21, <1>52, <2>1
  <2>3. StopInv'
    BY <1>22, <2>1
  <2>4. ReadInv'
    BY <1>a, <2>1 DEF ReadInv, Reads
  <2> QED BY <1>2, <2>1, <2>2, <2>3, <2>4 DEF ConnInv
<1>55. CASE SweepEnds
  BY <1>47, <1>55 DEF SweepEnds
<1> QED
  BY <1>5, <1>6, <1>8, <1>9, <1>10, <1>15, <1>17, <1>18, <1>19, <1>20, <1>23, <1>27, <1>28, <1>29,
     <1>30, <1>37, <1>38, <1>39, <1>40, <1>41, <1>42, <1>43, <1>45, <1>46, <1>48, <1>49, <1>50,
     <1>51, <1>53, <1>54, <1>55, <1>56, <1>57
  DEF Next, Client, Io, Queued, Sweep

-----------------------------------------------------------------------------
(* The theorems on the connection, which hold whatever the client sends.     *)

LEMMA Initially == Init => Types /\ ConnInv
<1> SUFFICES ASSUME Init PROVE Types /\ ConnInv
  OBVIOUS
<1> USE DEF Init
<1>1. Scalars
  <2>1. /\ managed \in BOOLEAN /\ readError \in BOOLEAN /\ writeError \in BOOLEAN
        /\ raced \in BOOLEAN /\ miscounted \in BOOLEAN /\ readTimer \in BOOLEAN /\ writeTimer \in BOOLEAN
        /\ retryConn \in BOOLEAN /\ retryProto \in BOOLEAN /\ connecting \in BOOLEAN
    OBVIOUS
  <2>2. /\ connState \in {"OPEN", "REQUEST_CLOSE", "CLOSING", "CLOSED"}
        /\ socket \in {"open", "closed", "deleted"} /\ refCount \in Int /\ protoRefs \in Int
        /\ protocol \in {"none", "attached", "playing", "detached", "deleted"}
        /\ reading \in {"none", "header", "body"} /\ ioPc \in {"idle", "parsing", "kicking"}
        /\ dispPc \in {"idle", "ran", "unref", "sweep"} /\ sweepAt \in Nat
    OBVIOUS
  <2> HIDE DEF Init
  <2> QED BY <2>1, <2>2 DEF Scalars
<1>2. Pool
  BY CountEmpty DEF Pool
<1>3. Queues
  BY CountEmpty DEF Queues
<1>4. Reads = 0 /\ Writes = 0 /\ Drops = 0 /\ Stops = 0 /\ Closes = 0
  BY CountEmpty DEF Reads, Writes, Drops, Stops, Closes, N
<1>5. StopIsLast(<<>>)
  BY DEF StopIsLast
<1>6. CloseInv /\ WriteInv
  BY <1>4 DEF CloseInv, WriteInv, One
<1>7. ReadInv
  BY <1>4 DEF ReadInv, One
<1>8. StopInv
  BY <1>4, <1>5 DEF StopInv, One
<1> QED BY <1>1, <1>2, <1>3, <1>6, <1>7, <1>8 DEF Types, ConnInv

LEMMA ConnStutters == Types /\ ConnInv /\ UNCHANGED vars => ConnInv'
<1> SUFFICES ASSUME Types, ConnInv, UNCHANGED vars PROVE ConnInv'
  OBVIOUS
<1>1. /\ UNCHANGED connVars /\ UNCHANGED opVars /\ UNCHANGED ioPc /\ UNCHANGED tasks
      /\ UNCHANGED retryVars
  BY DEF vars
<1>2. /\ Reads' = Reads /\ Writes' = Writes /\ Drops' = Drops /\ Stops' = Stops /\ Closes' = Closes
  BY <1>1, SameVars DEF Reads, Writes, Drops, Stops, Closes
<1>3. CloseInv' /\ WriteInv' /\ ReadInv'
  BY <1>1, <1>2, SameVars DEF ConnInv, CloseInv, WriteInv, ReadInv
<1>4. StopInv'
  BY <1>1, <1>2, SameVars DEF ConnInv, StopInv
<1> QED BY <1>3, <1>4 DEF ConnInv

\* The inductive invariant of the connection.
THEOREM ConnectionInvariant == Spec => [](Types /\ ConnInv)
<1>1. Types /\ ConnInv /\ [Next]_vars => (Types /\ ConnInv)'
  BY TypesStep, ConnStep, ConnStutters
<1> QED BY Initially, <1>1, PTL DEF Spec

\* The properties count by position, the invariant by kind.
LEMMA PositionsByKind ==
    ASSUME Types
    PROVE  /\ \A h : Cardinality(HandlersOf({h})) = N(ioQueue, h)
           /\ Cardinality(TasksOf("close")) = Closes
           /\ Closes = 0 => TasksOf("close") = {}
           /\ Reads = 0 /\ Writes = 0 /\ Drops = 0 /\ Stops = 0 =>
                HandlersOf({"read", "write", "drop", "stop"}) = {}
<1>0. /\ ioQueue \in Seq(Handlers) /\ \A i \in DOMAIN ioQueue : ioQueue[i] \in Handlers
      /\ tasks \in Seq(TaskRecs) /\ \A i \in DOMAIN tasks : tasks[i] \in TaskRecs
  BY ElementOfSeq, LenProperties DEF Types, Queues
<1>1. ASSUME NEW h PROVE HandlersOf({h}) = Hits(ioQueue, KindOf(h))
  BY <1>0 DEF HandlersOf, Hits, KindOf
<1>2. TasksOf("close") = Hits(tasks, CloseT)
  BY <1>0 DEF TasksOf, Hits, CloseT
<1>3. \A h : N(ioQueue, h) = 0 => HandlersOf({h}) = {}
  BY <1>0, <1>1, HitsFinite DEF N
<1>4. Closes = 0 => TasksOf("close") = {}
  BY <1>0, <1>2, HitsFinite DEF Closes
<1>5. /\ \A h : Cardinality(HandlersOf({h})) = N(ioQueue, h)
      /\ Cardinality(TasksOf("close")) = Closes
  BY <1>1, <1>2 DEF N, Count, Closes
<1>6. ASSUME Reads = 0, Writes = 0, Drops = 0, Stops = 0
      PROVE  HandlersOf({"read", "write", "drop", "stop"}) = {}
  <2>1. /\ HandlersOf({"read"}) = {} /\ HandlersOf({"write"}) = {}
        /\ HandlersOf({"drop"}) = {} /\ HandlersOf({"stop"}) = {}
    BY <1>3, <1>6 DEF Reads, Writes, Drops, Stops
  <2> QED BY <2>1 DEF HandlersOf
<1> QED BY <1>4, <1>5, <1>6

\* However many handlers, tasks and timeouts ask for a close, there is one close task for
\* each REQUEST_CLOSE, and it finds that state.
THEOREM CloseTaskSafe == Spec => []CloseTaskMatchesState
<1>1. Types /\ ConnInv => CloseTaskMatchesState
  BY PositionsByKind DEF ConnInv, CloseInv, CloseTaskMatchesState, One
<1> QED BY ConnectionInvariant, <1>1, PTL

\* At most one async_write is under way on the socket, and m_pendingWrite counts it.
THEOREM WriteSafe == Spec => []OneWriteAtATime
<1>1. ASSUME Types, ConnInv PROVE OneWriteAtATime
  <2>1. Cardinality(HandlersOf({"write"})) = Writes /\ Writes \in Nat
    BY <1>1, PositionsByKind, CountsAreNat DEF Writes
  <2> QED BY <1>1, <2>1 DEF ConnInv, WriteInv, OneWriteAtATime, One
<1> QED BY ConnectionInvariant, <1>1, PTL

\* As long as nobody asked for a close, a read is on its way.
THEOREM ListeningSafe == Spec => []OpenMeansListening
<1>1. ASSUME Types, ConnInv PROVE OpenMeansListening
  <2>1. Cardinality(HandlersOf({"read"})) = Reads /\ Reads \in Nat
    BY <1>1, PositionsByKind, CountsAreNat DEF Reads
  <2> QED BY <1>1, <2>1 DEF ConnInv, ReadInv, StopInv, OpenMeansListening, One, Types, Scalars
<1> QED BY ConnectionInvariant, <1>1, PTL

\* onStopOperation, which deletes the socket, is the last to touch the connection.
THEOREM SocketSafe == Spec => []SocketOutlivesItsUsers
<1>1. ASSUME Types, ConnInv PROVE SocketOutlivesItsUsers
  <2>1. SUFFICES ASSUME socket = "deleted"
                 PROVE  /\ connState = "CLOSED" /\ ~managed /\ ~retryConn
                        /\ reading = "none" /\ writing = NoMsg /\ ~readTimer /\ ~writeTimer
                        /\ HandlersOf({"read", "write", "drop", "stop"}) = {}
                        /\ TasksOf("close") = {}
    BY DEF SocketOutlivesItsUsers
  <2>2. Stops \in Nat /\ Closes \in Nat
    BY <1>1, CountsAreNat
  <2>3. /\ connState = "CLOSED" /\ ~managed /\ ~retryConn /\ Stops = 0
        /\ ~readTimer /\ ~writeTimer /\ Reads = 0 /\ Writes = 0 /\ Drops = 0
    BY <1>1, <2>1, <2>2 DEF ConnInv, StopInv, One
  <2>4. reading = "none" /\ writing = NoMsg /\ Closes = 0
    BY <1>1, <2>1, <2>3 DEF ConnInv, ReadInv, WriteInv, CloseInv, One
  <2> QED BY <1>1, <2>3, <2>4, PositionsByKind
<1> QED BY ConnectionInvariant, <1>1, PTL
=============================================================================
