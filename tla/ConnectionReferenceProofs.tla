---------------------- MODULE ConnectionReferenceProofs ----------------------
(***************************************************************************)
(* The references that the messages hold on the connection and its protocol, *)
(* for any number of messages.  Two threads count them without a common lock, *)
(* but only while a player plays whose packets are bad (CountInv).           *)
(***************************************************************************)
EXTENDS ConnectionProofs

MsgH(m) == {e \in Handlers : e.h \in {"write", "drop"} /\ e.what = m}
RelT(m) == {t \in TaskRecs : t.k = "release" /\ t.m = m}
ProtoT == {t \in TaskRecs : t.k = "protocol"}

\* Where a message can be, in the terms of the counting lemmas.
Listed(m) == Count(autoSend, {m}) + Count(toAdd, {m})
InHandlers(m) == Count(ioQueue, MsgH(m))
InTasks(m) == Count(tasks, RelT(m))
Held(m) == Listed(m) + One(writing = m) + InHandlers(m) + InTasks(m)
Protos == Count(tasks, ProtoT)

\* No task that is bound to the protocol comes after the close that releases it.
NoneBehindClose(q) ==
    \A i, j \in 1..Len(q) : i < j /\ q[i].k = "close" => q[j].k # "protocol"

-----------------------------------------------------------------------------
(* The inductive invariant.                                                 *)

HeldInv == \A m \in Messages : Held(m) = One(m \in inUse)

RefInv ==
    /\ IsFiniteSet(inUse)
    /\ ~miscounted => refCount = Cardinality(inUse) /\ protoRefs = Cardinality(inUse)
    /\ outBuf # NoMsg => Listed(outBuf) >= 1

\* A protocol that has not begun has nobody who knows of it; the io thread that refuses
\* its first packet is the only one.  Until its player plays there is one login, or one
\* connect that it left behind.  A protocol that is released has lost them all.
ProtoInv ==
    /\ protocol = "none" \/ (ioPc = "parsing" /\ protocol = "attached") =>
         inUse = {} /\ Protos = 0 /\ ~connecting /\ ~retryProto
    /\ ioPc # "idle" => \/ ioPc = "parsing" /\ protocol = "attached"
                        \/ protocol = "playing" /\ BadPackets # {}
    /\ protocol = "playing" => ~connecting
    /\ protocol = "attached" => Protos + One(connecting) <= 1
    /\ protocol \in {"detached", "deleted"} => connState # "OPEN" /\ Protos = 0
    /\ protocol = "deleted" => (~miscounted => inUse = {}) /\ ~connecting
    /\ retryProto => protocol = "detached"
    /\ NoneBehindClose(tasks)

\* The io thread takes a message out of the pool while the dispatcher returns one only for
\* a bad packet of a player who plays.
CountInv ==
    raced \/ miscounted =>
        BadPackets # {} /\ protocol \notin {"none", "attached"} /\ ~connecting

MsgInv == HeldInv /\ RefInv /\ ProtoInv /\ CountInv

-----------------------------------------------------------------------------
(* Counting.                                                                *)

LEMMA HeldAreNat ==
    ASSUME Types
    PROVE  /\ \A m : /\ Count(autoSend, {m}) \in Nat /\ Count(toAdd, {m}) \in Nat
                     /\ Listed(m) \in Nat /\ InHandlers(m) \in Nat /\ InTasks(m) \in Nat
           /\ Protos \in Nat
<1>1. \A S : /\ Count(autoSend, S) \in Nat /\ Count(toAdd, S) \in Nat
             /\ Count(ioQueue, S) \in Nat /\ Count(tasks, S) \in Nat
  BY HitsFinite DEF Types, Pool, Queues
<1> QED BY <1>1 DEF Listed, InHandlers, InTasks, Protos

LEMMA HandlerHolds ==
    ASSUME NEW e \in Handlers, NEW m
    PROVE  One(e \in MsgH(m)) = One(e.h \in {"write", "drop"} /\ e.what = m)
BY DEF MsgH, One

LEMMA TaskHolds ==
    ASSUME NEW t \in TaskRecs, NEW m
    PROVE  /\ One(t \in RelT(m)) = One(t.k = "release" /\ t.m = m)
           /\ One(t \in ProtoT) = One(t.k = "protocol")
BY DEF RelT, ProtoT, One

\* What closing the socket aborts holds the message that was being written.
LEMMA AbortHolds ==
    ASSUME Types, NEW q \in Seq(Handlers), NEW m \in Messages
    PROVE  Count(q \o Aborted, MsgH(m)) = Count(q, MsgH(m)) + One(writing = m)
<1> DEFINE r == IF reading = "none" THEN <<>> ELSE <<Handler("read", reading, FALSE)>>
           w == IF writing = NoMsg THEN <<>> ELSE <<Handler("write", writing, FALSE)>>
<1>0. m # NoMsg
  BY ConnectionAssumption
<1>1. r \in Seq(Handlers) /\ Count(r, MsgH(m)) = 0
  <2>1. CASE reading = "none"
    BY <2>1, CountEmpty
  <2>2. CASE reading # "none"
    <3> DEFINE e == Handler("read", reading, FALSE)
    <3>0. reading \in {"header", "body"}
      BY <2>2 DEF Types, Scalars
    <3>1. e \in Handlers /\ e.h = "read"
      BY <3>0, QueueParts, HandlerKind
    <3> HIDE DEF e
    <3>2. <<e>> \in Seq(Handlers) /\ Count(<<e>>, MsgH(m)) = One(e \in MsgH(m))
      BY <3>1, CountOne
    <3>3. One(e \in MsgH(m)) = 0
      BY <3>1 DEF MsgH, One
    <3>4. r = <<e>>
      BY <2>2 DEF e
    <3> QED BY <3>2, <3>3, <3>4
  <2> QED BY <2>1, <2>2
<1>2. w \in Seq(Handlers) /\ Count(w, MsgH(m)) = One(writing = m)
  <2>1. CASE writing = NoMsg
    BY <1>0, <2>1, CountEmpty DEF One
  <2>2. CASE writing # NoMsg
    <3> DEFINE e == Handler("write", writing, FALSE)
    <3>0. writing \in Messages
      BY <2>2 DEF Types, Pool
    <3>1. e \in Handlers /\ e.h = "write" /\ e.what = writing
      BY <3>0, QueueParts, HandlerKind
    <3> HIDE DEF e
    <3>2. <<e>> \in Seq(Handlers) /\ Count(<<e>>, MsgH(m)) = One(e \in MsgH(m))
      BY <3>1, CountOne
    <3>3. One(e \in MsgH(m)) = One(writing = m)
      BY <3>1, HandlerHolds DEF One
    <3>4. w = <<e>>
      BY <2>2 DEF e
    <3> QED BY <3>2, <3>3, <3>4
  <2> QED BY <2>1, <2>2
<1>3. Aborted = r \o w
  BY DEF Aborted
<1> HIDE DEF r, w
<1> DEFINE v == r \o w
<1>4. v \in Seq(Handlers) /\ Count(v, MsgH(m)) = One(writing = m)
  BY <1>1, <1>2, CountConcat DEF One
<1> HIDE DEF v
<1>5. Count(q \o v, MsgH(m)) = Count(q, MsgH(m)) + Count(v, MsgH(m))
  BY <1>4, CountConcat
<1> QED BY <1>3, <1>4, <1>5 DEF v

\* A close adds no release and no task that is bound to the protocol.
LEMMA CloseHolds ==
    ASSUME NEW q \in Seq(TaskRecs), CloseConnection(q)
    PROVE  /\ \A m : InTasks(m)' = Count(q, RelT(m))
           /\ Protos' = Count(q, ProtoT)
<1> DEFINE t == Task("close", NoMsg)
<1>1. t \in TaskRecs /\ t.k = "close"
  BY DEF TaskRecs, Task
<1>2. CloseTasks \in Seq(TaskRecs) /\ (CloseTasks = <<>> \/ CloseTasks = <<t>>)
  BY CloseTasksType DEF CloseTasks
<1> HIDE DEF t
<1>3. ASSUME NEW S, t \notin S PROVE Count(q \o CloseTasks, S) = Count(q, S)
  <2>1. Count(<<t>>, S) = 0 /\ Count(<<>>, S) = 0
    BY <1>1, <1>3, CountOne, CountEmpty DEF One
  <2>2. Count(q \o CloseTasks, S) = Count(q, S) + Count(CloseTasks, S) /\ Count(q, S) \in Nat
    BY <1>2, CountConcat, HitsFinite
  <2> QED BY <1>2, <2>1, <2>2
<1>4. tasks' = q \o CloseTasks
  BY DEF CloseConnection
<1>5. \A m : t \notin RelT(m)
  BY <1>1 DEF RelT
<1>6. t \notin ProtoT
  BY <1>1 DEF ProtoT
<1> QED BY <1>3, <1>4, <1>5, <1>6 DEF InTasks, Protos

LEMMA BehindCloseKept ==
    ASSUME NEW q \in Seq(TaskRecs), NoneBehindClose(q)
    PROVE  /\ \A t \in TaskRecs : t.k # "protocol" \/ Count(q, CloseT) = 0 =>
                NoneBehindClose(Append(q, t))
           /\ \A t \in TaskRecs : t.k # "close" => NoneBehindClose(<<t>> \o q)
           /\ q # <<>> => NoneBehindClose(Tail(q))
           /\ q # <<>> /\ Head(q).k = "close" => Count(Tail(q), ProtoT) = 0
<1>0. Len(q) \in Nat /\ DOMAIN q = 1..Len(q) /\ \A i \in 1..Len(q) : q[i] \in TaskRecs
  BY LenProperties, ElementOfSeq
<1>1. ASSUME NEW t \in TaskRecs, t.k # "protocol" \/ Count(q, CloseT) = 0
      PROVE  NoneBehindClose(Append(q, t))
  <2> DEFINE a == Append(q, t)
  <2>1. /\ Len(a) = Len(q) + 1 /\ \A i \in 1..Len(q) : a[i] = q[i]
        /\ a[Len(q) + 1] = t
    BY AppendProperties
  <2> HIDE DEF a
  <2>2. Count(q, CloseT) = 0 => \A i \in 1..Len(q) : q[i].k # "close"
    <3>1. Count(q, CloseT) = 0 => Hits(q, CloseT) = {}
      BY HitsFinite
    <3> QED BY <1>0, <3>1 DEF Hits, CloseT
  <2>3. ASSUME NEW i \in 1..Len(a), NEW j \in 1..Len(a), i < j, a[i].k = "close"
        PROVE  a[j].k # "protocol"
    <3>1. i \in 1..Len(q) /\ a[i] = q[i]
      BY <1>0, <2>1, <2>3
    <3>2. CASE j = Len(q) + 1
      BY <1>1, <2>1, <2>2, <2>3, <3>1, <3>2
    <3>3. CASE j # Len(q) + 1
      <4>1. j \in 1..Len(q) /\ a[j] = q[j]
        BY <1>0, <2>1, <2>3, <3>3
      <4> QED BY <2>3, <3>1, <4>1 DEF NoneBehindClose
    <3> QED BY <3>2, <3>3
  <2> QED BY <2>3 DEF NoneBehindClose, a
<1>2. ASSUME NEW t \in TaskRecs, t.k # "close" PROVE NoneBehindClose(<<t>> \o q)
  <2> DEFINE w == <<t>>
             a == w \o q
  <2>1. w \in Seq(TaskRecs) /\ Len(w) = 1 /\ w[1] = t
    OBVIOUS
  <2> HIDE DEF w
  <2>2. /\ Len(a) = Len(q) + 1
        /\ \A i \in 1..Len(q) + 1 : a[i] = IF i <= 1 THEN w[i] ELSE q[i - 1]
    <3>1. /\ Len(a) = Len(w) + Len(q)
          /\ \A i \in 1..Len(w) + Len(q) : a[i] = IF i <= Len(w) THEN w[i] ELSE q[i - Len(w)]
      BY <2>1, ConcatProperties
    <3> HIDE DEF a
    <3> QED BY <1>0, <2>1, <3>1
  <2> HIDE DEF a
  <2>3. ASSUME NEW i \in 1..Len(a), NEW j \in 1..Len(a), i < j, a[i].k = "close"
        PROVE  a[j].k # "protocol"
    <3>1. i # 1
      BY <1>0, <1>2, <2>1, <2>2, <2>3
    <3>2. i - 1 \in 1..Len(q) /\ j - 1 \in 1..Len(q) /\ i - 1 < j - 1
      BY <1>0, <2>2, <2>3, <3>1
    <3>3. a[i] = q[i - 1] /\ a[j] = q[j - 1]
      BY <1>0, <2>2, <2>3, <3>2
    <3> QED BY <2>3, <3>2, <3>3 DEF NoneBehindClose
  <2> QED BY <2>3 DEF NoneBehindClose, a, w
<1>3. ASSUME q # <<>>
      PROVE  /\ NoneBehindClose(Tail(q))
             /\ Head(q).k = "close" => Count(Tail(q), ProtoT) = 0
  <2> DEFINE a == Tail(q)
  <2>1. /\ a \in Seq(TaskRecs) /\ Len(a) = Len(q) - 1 /\ Head(q) = q[1] /\ Len(q) >= 1
        /\ \A i \in 1..Len(a) : a[i] = q[i + 1]
    BY <1>0, <1>3, HeadTailProperties, EmptySeq
  <2> HIDE DEF a
  <2>2. ASSUME NEW i \in 1..Len(a), NEW j \in 1..Len(a), i < j, a[i].k = "close"
        PROVE  a[j].k # "protocol"
    <3>1. i + 1 \in 1..Len(q) /\ j + 1 \in 1..Len(q) /\ i + 1 < j + 1
      BY <1>0, <2>1, <2>2
    <3> QED BY <2>1, <2>2, <3>1 DEF NoneBehindClose
  <2>3. ASSUME Head(q).k = "close" PROVE Count(a, ProtoT) = 0
    <3>1. ASSUME NEW i \in 1..Len(a) PROVE a[i].k # "protocol"
      <4>1. 1 \in 1..Len(q) /\ i + 1 \in 1..Len(q) /\ 1 < i + 1
        BY <1>0, <2>1
      <4> QED BY <2>1, <2>3, <4>1 DEF NoneBehindClose
    <3>2. Hits(a, ProtoT) = {}
      BY <2>1, <3>1, LenProperties DEF Hits, ProtoT
    <3> QED BY <2>1, <3>2, HitsFinite
  <2> QED BY <2>2, <2>3 DEF NoneBehindClose, a
<1> QED BY <1>1, <1>2, <1>3

LEMMA CloseBehind ==
    ASSUME NEW q \in Seq(TaskRecs), NoneBehindClose(q), CloseConnection(q)
    PROVE  NoneBehindClose(tasks')
<1> DEFINE t == Task("close", NoMsg)
<1>1. t \in TaskRecs /\ t.k # "protocol"
  BY DEF TaskRecs, Task
<1>2. tasks' = q \o <<>> \/ tasks' = q \o <<t>>
  BY DEF CloseConnection, CloseTasks
<1> HIDE DEF t
<1>3. q \o <<>> = q
  BY ConcatEmptySeq
<1>4. q \o <<t>> = Append(q, t)
  BY <1>1, AppendIsConcat
<1> QED BY <1>1, <1>2, <1>3, <1>4, BehindCloseKept

\* A release in front of the queue holds its message.
LEMMA ReleaseHolds ==
    ASSUME Types, HeldInv, tasks # <<>>, Head(tasks).k = "release"
    PROVE  Head(tasks).m \in inUse
<1>1. tasks \in Seq(TaskRecs) /\ Head(tasks) \in TaskRecs
  BY HeadTailProperties DEF Types, Queues
<1>2. Head(tasks).m \in Messages
  BY <1>1 DEF TaskRecs
<1> DEFINE m == Head(tasks).m
<1>3. Count(tasks, RelT(m)) = Count(Tail(tasks), RelT(m)) + One(Head(tasks) \in RelT(m))
  BY <1>1, CountTail
<1>4. Tail(tasks) \in Seq(TaskRecs) /\ Count(Tail(tasks), RelT(m)) \in Nat
  BY <1>1, HeadTailProperties, HitsFinite
<1>5. Head(tasks) \in RelT(m)
  BY <1>1 DEF RelT
<1>6. InTasks(m) >= 1
  BY <1>3, <1>4, <1>5 DEF InTasks, One
<1>7. /\ Listed(m) \in Nat /\ InHandlers(m) \in Nat /\ InTasks(m) \in Nat
  BY HeldAreNat
<1>8. Held(m) >= 1
  BY <1>6, <1>7 DEF Held, One
<1> QED BY <1>2, <1>8 DEF HeldInv, One

LEMMA NothingIsReleased ==
    ASSUME Types, HeldInv, inUse = {}
    PROVE  dispPc # "unref"
<1>1. ASSUME dispPc = "unref" PROVE tasks # <<>> /\ Head(tasks).k = "release"
  BY <1>1, HeadTailProperties DEF Types, Queues, ReleaseInFront
<1> QED BY <1>1, ReleaseHolds

-----------------------------------------------------------------------------
(* What the pieces of the steps do to the places of the messages.           *)

LEMMA ListCounts ==
    ASSUME NEW q \in Seq(Messages), NEW x
    PROVE  /\ q # <<>> => Count(q, {x}) = Count(Tail(q), {x}) + One(x = Head(q))
           /\ \A n \in 1..Len(q) : Count(q, {x}) = Count(RemoveAt(q, n), {x}) + One(x = q[n])
<1>0. \A m : One(m \in {x}) = One(x = m)
  BY DEF One
<1>1. ASSUME q # <<>> PROVE Count(q, {x}) = Count(Tail(q), {x}) + One(x = Head(q))
  <2>1. Count(q, {x}) = Count(Tail(q), {x}) + One(Head(q) \in {x})
    BY <1>1, CountTail
  <2> QED BY <1>0, <2>1
<1>2. ASSUME NEW n \in 1..Len(q)
      PROVE  Count(q, {x}) = Count(RemoveAt(q, n), {x}) + One(x = q[n])
  <2>1. Count(q, {x}) = Count(RemoveAt(q, n), {x}) + One(q[n] \in {x})
    BY CountRemove
  <2> QED BY <1>0, <2>1
<1> QED BY <1>1, <1>2

\* A message that is sent is being written, or waits in m_toAddQueue.
LEMMA TransmitHolds ==
    ASSUME Types, ConnInv, connState = "OPEN", NEW m \in Messages, Transmit(m), NEW x \in Messages
    PROVE  /\ Count(toAdd', {x}) + One(writing' = x)
              = Count(toAdd, {x}) + One(writing = x) + One(x = m)
           /\ outBuf' = x => outBuf = x /\ Count(toAdd', {x}) = Count(toAdd, {x}) + One(x = m)
<1>1. x # NoMsg /\ m # NoMsg
  BY ConnectionAssumption
<1>2. Count(toAdd, {x}) \in Nat /\ Writes \in Nat
  BY HeldAreNat, CountsAreNat
<1>3. CASE pendingWrite = 0
  <2>1. writing' = m /\ toAdd' = toAdd /\ outBuf' = IF outBuf = m THEN NoMsg ELSE outBuf
    BY <1>3 DEF Transmit, StartWrite
  <2>2. writing = NoMsg
    BY <1>2, <1>3 DEF ConnInv, WriteInv, ReadInv, One
  <2> QED BY <1>1, <1>2, <2>1, <2>2 DEF One
<1>4. CASE pendingWrite # 0
  <2>1. writing' = writing /\ toAdd' = Append(toAdd, m) /\ outBuf' = outBuf
    BY <1>4 DEF Transmit, StartWrite
  <2>2. Count(toAdd', {x}) = Count(toAdd, {x}) + One(x = m)
    <3>0. toAdd \in Seq(Messages)
      BY DEF Types, Pool
    <3>1. Count(Append(toAdd, m), {x}) = Count(toAdd, {x}) + One(m \in {x})
      BY <3>0, CountAppend
    <3>2. One(m \in {x}) = One(x = m)
      BY DEF One
    <3> QED BY <2>1, <3>1, <3>2
  <2>3. One(writing = x) \in Nat /\ One(x = m) \in Nat
    BY DEF One
  <2> QED BY <1>2, <2>1, <2>2, <2>3
<1> QED BY <1>3, <1>4

\* Taking a message out of the pool.
LEMMA AllocateRefs ==
    ASSUME RefInv, NEW m, Allocate(m)
    PROVE  /\ m \in Messages /\ m \notin inUse /\ inUse' = inUse \cup {m}
           /\ IsFiniteSet(inUse') /\ miscounted' = miscounted
           /\ ~miscounted' => refCount' = Cardinality(inUse') /\ protoRefs' = Cardinality(inUse')
<1>1. m \in Messages /\ m \notin inUse /\ inUse' = inUse \cup {m}
  BY DEF Allocate
<1>2. IsFiniteSet(inUse \cup {m}) /\ Cardinality(inUse \cup {m}) = Cardinality(inUse) + 1
  BY <1>1, FS_AddElement DEF RefInv
<1>3. refCount' = refCount + 1 /\ protoRefs' = protoRefs + 1 /\ miscounted' = miscounted
  BY DEF Allocate
<1> QED BY <1>1, <1>2, <1>3 DEF RefInv

\* A handler that runs takes its message from the queue; a task does the same.
LEMMA HeadsHold ==
    ASSUME Types, NEW m
    PROVE  /\ \A h : Runs(h) =>
                Count(Rest, MsgH(m)) = InHandlers(m) - One(h \in {"write", "drop"} /\ Now.what = m)
           /\ tasks # <<>> =>
                /\ Tail(tasks) \in Seq(TaskRecs)
                /\ Count(Tail(tasks), RelT(m))
                   = InTasks(m) - One(Head(tasks).k = "release" /\ Head(tasks).m = m)
                /\ Count(Tail(tasks), ProtoT) = Protos - One(Head(tasks).k = "protocol")
<1>0. ioQueue \in Seq(Handlers) /\ tasks \in Seq(TaskRecs) /\ Queues
  BY DEF Types, Queues
<1>1. ASSUME NEW h, Runs(h)
      PROVE  Count(Rest, MsgH(m)) = InHandlers(m) - One(h \in {"write", "drop"} /\ Now.what = m)
  <2>1. ioQueue # <<>> /\ Now \in Handlers /\ Now.h = h /\ Rest \in Seq(Handlers)
    BY <1>0, <1>1, QueueHeads
  <2>2. Count(ioQueue, MsgH(m)) = Count(Rest, MsgH(m)) + One(Now \in MsgH(m))
    BY <1>0, <2>1, CountTail DEF Now, Rest
  <2>3. One(Now \in MsgH(m)) = One(h \in {"write", "drop"} /\ Now.what = m)
    BY <2>1, HandlerHolds
  <2>4. Count(Rest, MsgH(m)) \in Nat /\ One(Now \in MsgH(m)) \in Nat
    BY <2>1, HitsFinite DEF One
  <2> QED BY <2>2, <2>3, <2>4 DEF InHandlers
<1>2. ASSUME tasks # <<>>
      PROVE  /\ Tail(tasks) \in Seq(TaskRecs)
             /\ Count(Tail(tasks), RelT(m))
                = InTasks(m) - One(Head(tasks).k = "release" /\ Head(tasks).m = m)
             /\ Count(Tail(tasks), ProtoT) = Protos - One(Head(tasks).k = "protocol")
  <2>1. Head(tasks) \in TaskRecs /\ Tail(tasks) \in Seq(TaskRecs)
    BY <1>0, <1>2, HeadTailProperties
  <2>2. /\ Count(tasks, RelT(m)) = Count(Tail(tasks), RelT(m)) + One(Head(tasks) \in RelT(m))
        /\ Count(tasks, ProtoT) = Count(Tail(tasks), ProtoT) + One(Head(tasks) \in ProtoT)
    BY <1>0, <1>2, CountTail
  <2>3. /\ One(Head(tasks) \in RelT(m)) = One(Head(tasks).k = "release" /\ Head(tasks).m = m)
        /\ One(Head(tasks) \in ProtoT) = One(Head(tasks).k = "protocol")
    BY <2>1, TaskHolds
  <2>4. /\ Count(Tail(tasks), RelT(m)) \in Nat /\ Count(Tail(tasks), ProtoT) \in Nat
        /\ One(Head(tasks) \in RelT(m)) \in Nat /\ One(Head(tasks) \in ProtoT) \in Nat
    BY <2>1, HitsFinite DEF One
  <2> QED BY <2>1, <2>2, <2>3, <2>4 DEF InTasks, Protos
<1> QED BY <1>1, <1>2

\* A release is pushed in front of the queue.
LEMMA PushHolds ==
    ASSUME NEW q \in Seq(TaskRecs), NEW x \in Messages, NEW m
    PROVE  /\ <<Released(x)>> \o q \in Seq(TaskRecs)
           /\ Count(<<Released(x)>> \o q, RelT(m)) = Count(q, RelT(m)) + One(m = x)
           /\ Count(<<Released(x)>> \o q, ProtoT) = Count(q, ProtoT)
<1> DEFINE t == Released(x)
<1>1. t \in TaskRecs /\ t.k = "release" /\ t.m = x
  BY QueueParts DEF Released, Task
<1> HIDE DEF t
<1>2. /\ <<t>> \o q \in Seq(TaskRecs)
      /\ Count(<<t>> \o q, RelT(m)) = Count(q, RelT(m)) + One(t \in RelT(m))
      /\ Count(<<t>> \o q, ProtoT) = Count(q, ProtoT) + One(t \in ProtoT)
  BY <1>1, CountCons
<1>3. One(t \in RelT(m)) = One(m = x) /\ One(t \in ProtoT) = 0
  BY <1>1, TaskHolds DEF One
<1>4. Count(q, ProtoT) \in Nat
  BY HitsFinite
<1> QED BY <1>2, <1>3, <1>4 DEF t

\* A write handler that runs leaves its message to the handler object that goes, and
\* what the socket still wrote joins it.
LEMMA OnWriteHolds ==
    ASSUME Types, ConnInv, OnWrite, NEW m \in Messages
    PROVE  InHandlers(m)' + One(writing' = m) = InHandlers(m) + One(writing = m)
<1> DEFINE e == Handler("drop", Now.what, TRUE)
           q == <<e>> \o Rest
<1>0. m # NoMsg
  BY ConnectionAssumption
<1>1. /\ Runs("write") /\ Rest \in Seq(Handlers) /\ Now \in Handlers /\ Now.h = "write"
  BY QueueHeads DEF OnWrite, Types
<1>2. e \in Handlers /\ e.h = "drop" /\ e.what = Now.what
  <2>1. e \in Handlers
    BY <1>1, DropType
  <2>2. e.h = "drop" /\ e.what = Now.what
    BY HandlerKind
  <2> QED BY <2>1, <2>2
<1>3. \/ ioQueue' = q /\ UNCHANGED writing
      \/ ioQueue' = q \o Aborted /\ writing' = NoMsg
  BY SocketCloses DEF OnWrite
<1>4. Count(Rest, MsgH(m)) = InHandlers(m) - One(Now.what = m)
  <2>1. Count(Rest, MsgH(m)) = InHandlers(m) - One("write" \in {"write", "drop"} /\ Now.what = m)
    BY <1>1, HeadsHold
  <2>2. One("write" \in {"write", "drop"} /\ Now.what = m) = One(Now.what = m)
    BY DEF One
  <2> QED BY <2>1, <2>2
<1> HIDE DEF e
<1>5. q \in Seq(Handlers) /\ Count(q, MsgH(m)) = Count(Rest, MsgH(m)) + One(e \in MsgH(m))
  BY <1>1, <1>2, CountCons
<1>6. One(e \in MsgH(m)) = One(Now.what = m)
  BY <1>2, HandlerHolds DEF One
<1> HIDE DEF q
<1>7. Count(q, MsgH(m)) = InHandlers(m)
  <2>1. InHandlers(m) \in Nat /\ One(Now.what = m) \in Nat
    BY HeldAreNat DEF One
  <2> QED BY <1>4, <1>5, <1>6, <2>1
<1>8. Count(q \o Aborted, MsgH(m)) = Count(q, MsgH(m)) + One(writing = m)
  BY <1>5, AbortHolds
<1>9. InHandlers(m) \in Nat /\ One(writing = m) \in Nat
  BY HeldAreNat DEF One
<1>10. CASE ioQueue' = q /\ UNCHANGED writing
  <2>1. InHandlers(m)' = Count(q, MsgH(m))
    BY <1>10 DEF InHandlers
  <2> QED BY <1>7, <1>9, <1>10, <2>1
<1>11. CASE ioQueue' = q \o Aborted /\ writing' = NoMsg
  <2>1. InHandlers(m)' = Count(q \o Aborted, MsgH(m)) /\ One(writing' = m) = 0
    BY <1>0, <1>11 DEF InHandlers, One
  <2> QED BY <1>7, <1>8, <1>9, <2>1
<1> QED BY <1>3, <1>10, <1>11

LEMMA MsgStep == Types /\ ConnInv /\ MsgInv /\ Next => HeldInv' /\ RefInv'
<1> SUFFICES ASSUME Types, ConnInv, MsgInv, Next PROVE HeldInv' /\ RefInv'
  OBVIOUS
<1> USE SameVars, SameClock, SameIo, SameTask, SameSweep
<1>a. HeldInv /\ RefInv /\ ProtoInv
  BY DEF MsgInv
<1>b. \A m : /\ Count(autoSend, {m}) \in Nat /\ Count(toAdd, {m}) \in Nat
             /\ Listed(m) \in Nat /\ InHandlers(m) \in Nat /\ InTasks(m) \in Nat
  BY HeldAreNat
<1>c. \A m : Listed(m)' \in Nat /\ InHandlers(m)' \in Nat /\ InTasks(m)' \in Nat
  <2>1. /\ ioQueue' \in Seq(Handlers) /\ tasks' \in Seq(TaskRecs)
        /\ autoSend' \in Seq(Messages) /\ toAdd' \in Seq(Messages)
    BY TypesStep DEF Types, Queues, Pool
  <2>2. \A S : /\ Count(autoSend', S) \in Nat /\ Count(toAdd', S) \in Nat
               /\ Count(ioQueue', S) \in Nat /\ Count(tasks', S) \in Nat
    BY <2>1, HitsFinite
  <2> QED BY <2>2 DEF Listed, InHandlers, InTasks
<1>q. /\ ioQueue \in Seq(Handlers) /\ tasks \in Seq(TaskRecs)
      /\ autoSend \in Seq(Messages) /\ toAdd \in Seq(Messages)
      /\ writing \in Messages \cup {NoMsg} /\ outBuf \in Messages \cup {NoMsg}
      /\ NoMsg \notin Messages
  BY ConnectionAssumption DEF Types, Queues, Pool
<1> DEFINE SameLists == autoSend' = autoSend /\ toAdd' = toAdd
           SameHandlers == \A m \in Messages : InHandlers(m)' = InHandlers(m)
           SameTasks == \A m \in Messages : InTasks(m)' = InTasks(m)
\* Messages move between the lists, the socket, the handlers and the tasks.
<1>1. ASSUME inUse' = inUse,
             \A m \in Messages :
               Listed(m)' + One(writing' = m) + InHandlers(m)' + InTasks(m)'
               = Listed(m) + One(writing = m) + InHandlers(m) + InTasks(m)
      PROVE  HeldInv'
  BY <1>a, <1>1 DEF HeldInv, Held
<1>2. ASSUME inUse' = inUse, SameLists, SameTasks,
             \A m \in Messages : InHandlers(m)' + One(writing' = m) = InHandlers(m) + One(writing = m)
      PROVE  HeldInv'
  <2>1. ASSUME NEW m \in Messages
        PROVE  Listed(m)' + One(writing' = m) + InHandlers(m)' + InTasks(m)'
               = Listed(m) + One(writing = m) + InHandlers(m) + InTasks(m)
    <3>1. Listed(m)' = Listed(m) /\ InTasks(m)' = InTasks(m)
      BY <1>2 DEF Listed
    <3>2. InHandlers(m)' + One(writing' = m) = InHandlers(m) + One(writing = m)
      BY <1>2
    <3>3. /\ Listed(m) \in Nat /\ InHandlers(m) \in Nat /\ InTasks(m) \in Nat
          /\ InHandlers(m)' \in Nat /\ One(writing' = m) \in Nat /\ One(writing = m) \in Nat
      BY <1>b, <1>c DEF One
    <3> QED BY <3>1, <3>2, <3>3
  <2> QED BY <1>1, <1>2, <2>1
<1>3. ASSUME UNCHANGED refVars, SameLists, outBuf' \in {outBuf, NoMsg} PROVE RefInv'
  BY <1>a, <1>3 DEF RefInv, Listed
<1>4. ASSUME UNCHANGED refVars, SameLists, outBuf' = outBuf, SameTasks,
             \A m \in Messages : InHandlers(m)' + One(writing' = m) = InHandlers(m) + One(writing = m)
      PROVE  HeldInv' /\ RefInv'
  BY <1>2, <1>3, <1>4
<1>5. ASSUME UNCHANGED refVars, SameLists, outBuf' = outBuf, SameTasks, SameHandlers,
             writing' = writing
      PROVE  HeldInv' /\ RefInv'
  BY <1>4, <1>5
<1>6. ASSUME tasks' = tasks \/ CloseConnection(tasks) PROVE SameTasks
  BY <1>6, <1>q, CloseHolds DEF InTasks
<1>7. ASSUME ioQueue' = ioQueue PROVE SameHandlers
  BY <1>7 DEF InHandlers
\* The network and the timers.
<1>8. ASSUME NEW e \in Handlers, ioQueue' = Append(ioQueue, e), NEW m
      PROVE  InHandlers(m)' = InHandlers(m) + One(e.h \in {"write", "drop"} /\ e.what = m)
  <2>1. Count(Append(ioQueue, e), MsgH(m)) = Count(ioQueue, MsgH(m)) + One(e \in MsgH(m))
    BY <1>8, <1>q, CountAppend
  <2>2. One(e \in MsgH(m)) = One(e.h \in {"write", "drop"} /\ e.what = m)
    BY <1>8, HandlerHolds
  <2> QED BY <1>8, <2>1, <2>2 DEF InHandlers
<1>9. ASSUME NEW h \in {"read", "readTimeout", "writeTimeout", "stop"}, NEW w, NEW ok,
             Handler(h, w, ok) \in Handlers, ioQueue' = Append(ioQueue, Handler(h, w, ok))
      PROVE  SameHandlers
  <2> DEFINE e == Handler(h, w, ok)
  <2>1. e \in Handlers /\ e.h = h /\ ioQueue' = Append(ioQueue, e)
    BY <1>9, HandlerKind
  <2> HIDE DEF e
  <2>2. ASSUME NEW m \in Messages PROVE InHandlers(m)' = InHandlers(m)
    <3>1. InHandlers(m)' = InHandlers(m) + One(e.h \in {"write", "drop"} /\ e.what = m)
      BY <1>8, <2>1
    <3>2. One(e.h \in {"write", "drop"} /\ e.what = m) = 0
      BY <2>1 DEF One
    <3>3. InHandlers(m) \in Nat
      BY <1>b
    <3> QED BY <3>1, <3>2, <3>3
  <2> QED BY <2>2
<1>10. CASE \E ok \in BOOLEAN : ReadEnds(ok)
  <2>1. PICK ok \in BOOLEAN : ReadEnds(ok)
    BY <1>10
  <2>2. /\ reading \in {"header", "body"} /\ UNCHANGED clockOther /\ writing' = writing
        /\ ioQueue' = Append(ioQueue, Handler("read", reading, ok))
    BY <2>1 DEF ReadEnds, Types, Scalars
  <2>3. SameHandlers
    BY <1>9, <2>2, QueueParts
  <2> QED BY <1>5, <1>6, <2>2, <2>3
<1>11. CASE \E ok \in BOOLEAN : WriteEnds(ok)
  <2>1. PICK ok \in BOOLEAN : WriteEnds(ok)
    BY <1>11
  <2> DEFINE e == Handler("write", writing, ok)
  <2>2. /\ writing \in Messages /\ writing' = NoMsg /\ ioQueue' = Append(ioQueue, e)
        /\ UNCHANGED clockOther
    BY <2>1, <1>q DEF WriteEnds
  <2>3. e \in Handlers /\ e.h = "write" /\ e.what = writing
    BY <2>2, QueueParts, HandlerKind
  <2> HIDE DEF e
  <2>4. ASSUME NEW m \in Messages
        PROVE  InHandlers(m)' + One(writing' = m) = InHandlers(m) + One(writing = m)
    <3>1. InHandlers(m)' = InHandlers(m) + One(e.h \in {"write", "drop"} /\ e.what = m)
      BY <1>8, <2>2, <2>3
    <3>2. One(e.h \in {"write", "drop"} /\ e.what = m) = One(writing = m)
      BY <2>3 DEF One
    <3>3. One(writing' = m) = 0 /\ One(writing = m) \in Nat
      BY <1>q, <2>2 DEF One
    <3>4. InHandlers(m) \in Nat
      BY <1>b
    <3> QED BY <3>1, <3>2, <3>3, <3>4
  <2> QED BY <1>4, <1>6, <2>2, <2>4
<1>12. CASE ReadTimerFires
  <2>1. /\ UNCHANGED clockOther /\ writing' = writing
        /\ ioQueue' = Append(ioQueue, Handler("readTimeout", NoMsg, TRUE))
    BY <1>12 DEF ReadTimerFires
  <2>2. SameHandlers
    BY <1>9, <2>1, QueueParts
  <2> QED BY <1>5, <1>6, <2>1, <2>2
<1>13. CASE WriteTimerFires
  <2>1. /\ UNCHANGED clockOther /\ writing' = writing
        /\ ioQueue' = Append(ioQueue, Handler("writeTimeout", NoMsg, TRUE))
    BY <1>13 DEF WriteTimerFires
  <2>2. SameHandlers
    BY <1>9, <2>1, QueueParts
  <2> QED BY <1>5, <1>6, <2>1, <2>2
<1>14. CASE \E m \in Messages : Ages(m)
  <2>1. UNCHANGED opVars /\ UNCHANGED clockOther
    BY <1>14 DEF Ages
  <2> QED BY <1>5, <1>6, <1>7, <2>1
\* The io thread.
<1>15. ASSUME NEW h \in {"read", "readTimeout", "writeTimeout", "stop"}, Runs(h)
       PROVE  \A m \in Messages : Count(Rest, MsgH(m)) = InHandlers(m)
  <2>1. ASSUME NEW m \in Messages PROVE Count(Rest, MsgH(m)) = InHandlers(m)
    <3>1. Count(Rest, MsgH(m)) = InHandlers(m) - One(h \in {"write", "drop"} /\ Now.what = m)
      BY <1>15, HeadsHold
    <3>2. One(h \in {"write", "drop"} /\ Now.what = m) = 0
      BY DEF One
    <3>3. InHandlers(m) \in Nat
      BY <1>b
    <3> QED BY <3>1, <3>2, <3>3
  <2> QED BY <2>1
<1>16. ASSUME NEW h \in {"read", "readTimeout", "writeTimeout", "stop"}, Runs(h), ioQueue' = Rest
       PROVE  SameHandlers
  BY <1>15, <1>16 DEF InHandlers
<1>17. CASE ReadFails
  <2>1. Runs("read") /\ ioQueue' = Rest /\ CloseConnection(tasks) /\ UNCHANGED readOther
    BY <1>17 DEF ReadFails
  <2> QED BY <1>5, <1>6, <1>16, <2>1
<1>18. CASE ParseHeader
  <2>1. Runs("read") /\ ioQueue' = Rest /\ UNCHANGED tasks /\ UNCHANGED readOther
    BY <1>18 DEF ParseHeader, ReadSucceeds
  <2> QED BY <1>5, <1>6, <1>16, <2>1
<1>19. CASE NoSuchProtocol
  <2>1. Runs("read") /\ ioQueue' = Rest /\ CloseConnection(tasks) /\ UNCHANGED readOther
    BY <1>19 DEF NoSuchProtocol, ReadSucceeds
  <2> QED BY <1>5, <1>6, <1>16, <2>1
<1>20. CASE ParsePacket
  <2>1. /\ Runs("read") /\ ioQueue' = Rest /\ UNCHANGED readOther
        /\ \/ tasks' = tasks \/ CloseConnection(tasks)
           \/ tasks' = Append(tasks, Task("protocol", NoMsg))
    BY <1>20 DEF ParsePacket, ReadSucceeds
  <2>2. ASSUME tasks' = Append(tasks, Task("protocol", NoMsg)) PROVE SameTasks
    <3> DEFINE t == Task("protocol", NoMsg)
    <3>1. t \in TaskRecs /\ t.k = "protocol"
      BY DEF TaskRecs, Task
    <3> HIDE DEF t
    <3>2. ASSUME NEW m \in Messages PROVE InTasks(m)' = InTasks(m)
      <4>1. Count(Append(tasks, t), RelT(m)) = Count(tasks, RelT(m)) + One(t \in RelT(m))
        BY <1>q, <3>1, CountAppend
      <4>2. One(t \in RelT(m)) = 0
        BY <3>1 DEF RelT, One
      <4>3. tasks' = Append(tasks, t)
        BY <2>2 DEF t
      <4>4. Count(tasks, RelT(m)) \in Nat
        BY <1>b DEF InTasks
      <4> QED BY <4>1, <4>2, <4>3, <4>4 DEF InTasks
    <3> QED BY <3>2
  <2> QED BY <1>5, <1>6, <1>16, <2>1, <2>2
<1>21. CASE ParseRefusedPacket
  <2>1. Runs("read") /\ ioQueue' = Rest /\ UNCHANGED tasks /\ UNCHANGED readOther
    BY <1>21 DEF ParseRefusedPacket, ReadSucceeds
  <2> QED BY <1>5, <1>6, <1>16, <2>1
<1>22. CASE OnWrite
  <2>1. /\ UNCHANGED ioOther /\ UNCHANGED toAdd /\ UNCHANGED outBuf
        /\ tasks' = tasks \/ CloseConnection(tasks)
    BY <1>22 DEF OnWrite
  <2>2. \A m \in Messages : InHandlers(m)' + One(writing' = m) = InHandlers(m) + One(writing = m)
    BY <1>22, OnWriteHolds
  <2> QED BY <1>4, <1>6, <2>1, <2>2
\* The socket is closed with ioQueue at q.
<1>23. ASSUME NEW q \in Seq(Handlers), \A m \in Messages : Count(q, MsgH(m)) = InHandlers(m),
              ioQueue' = q \o Aborted, CloseSocket
       PROVE  \A m \in Messages : InHandlers(m)' + One(writing' = m) = InHandlers(m) + One(writing = m)
  <2>1. ASSUME NEW m \in Messages
        PROVE  InHandlers(m)' + One(writing' = m) = InHandlers(m) + One(writing = m)
    <3>1. Count(q \o Aborted, MsgH(m)) = Count(q, MsgH(m)) + One(writing = m)
      BY <1>23, AbortHolds
    <3>2. writing' = NoMsg
      BY <1>23, SocketCloses
    <3>3. One(writing' = m) = 0 /\ One(writing = m) \in Nat
      BY <1>q, <3>2 DEF One
    <3>4. InHandlers(m)' = InHandlers(m) + One(writing = m)
      BY <1>23, <3>1 DEF InHandlers
    <3>5. InHandlers(m) \in Nat
      BY <1>b
    <3> QED BY <3>3, <3>4, <3>5
  <2> QED BY <2>1
<1>24. CASE OnTimeout
  <2>1. PICK h \in {"readTimeout", "writeTimeout"} : Runs(h)
    BY <1>24 DEF OnTimeout
  <2>2. /\ UNCHANGED ioOther /\ UNCHANGED toAdd /\ UNCHANGED outBuf
        /\ tasks' = tasks \/ CloseConnection(tasks)
        /\ \/ CloseSocket /\ ioQueue' = Rest \o Aborted
           \/ ioQueue' = Rest /\ UNCHANGED writing
    BY <1>24 DEF OnTimeout
  <2>3. CASE CloseSocket /\ ioQueue' = Rest \o Aborted
    <3>1. Rest \in Seq(Handlers) /\ \A m \in Messages : Count(Rest, MsgH(m)) = InHandlers(m)
      BY <1>15, <2>1, QueueHeads DEF Types
    <3> QED BY <1>4, <1>6, <1>23, <2>2, <2>3, <3>1
  <2>4. CASE ioQueue' = Rest /\ UNCHANGED writing
    BY <1>5, <1>6, <1>16, <2>1, <2>2, <2>4
  <2> QED BY <2>2, <2>3, <2>4
<1>25. CASE DropMessage
  <2> DEFINE x == Now.what
  <2>1. /\ Runs("drop") /\ ioQueue' = Rest /\ tasks' = <<Released(x)>> \o tasks
        /\ UNCHANGED refVars /\ UNCHANGED writing /\ UNCHANGED poolVars
    BY <1>25 DEF DropMessage
  <2>2. x \in Messages
    BY <2>1, QueueHeads, DropType DEF Types
  <2> HIDE DEF x
  <2>3. ASSUME NEW m \in Messages
        PROVE  Listed(m)' + One(writing' = m) + InHandlers(m)' + InTasks(m)'
               = Listed(m) + One(writing = m) + InHandlers(m) + InTasks(m)
    <3>1. InHandlers(m)' = InHandlers(m) - One(m = x)
      <4>1. Count(Rest, MsgH(m)) = InHandlers(m) - One("drop" \in {"write", "drop"} /\ Now.what = m)
        BY <2>1, HeadsHold
      <4>2. One("drop" \in {"write", "drop"} /\ Now.what = m) = One(m = x)
        BY DEF One, x
      <4> QED BY <2>1, <4>1, <4>2 DEF InHandlers
    <3>2. InTasks(m)' = InTasks(m) + One(m = x)
      BY <1>q, <2>1, <2>2, PushHolds DEF InTasks
    <3>3. Listed(m)' = Listed(m) /\ writing' = writing
      BY <2>1 DEF Listed
    <3>4. One(m = x) \in Nat /\ One(writing = m) \in Nat
      BY DEF One
    <3>5. Listed(m) \in Nat /\ InHandlers(m) \in Nat /\ InTasks(m) \in Nat
      BY <1>b
    <3> QED BY <3>1, <3>2, <3>3, <3>4, <3>5
  <2> QED BY <1>1, <1>3, <2>1, <2>3
<1>26. CASE OnStop
  <2>1. /\ Runs("stop") /\ ioQueue' = Rest /\ UNCHANGED tasks /\ UNCHANGED refVars
        /\ UNCHANGED writing /\ UNCHANGED poolVars
    BY <1>26 DEF OnStop
  <2> QED BY <1>5, <1>6, <1>16, <2>1
\* A message leaves the pool.
<1>27. ASSUME NEW m, Allocate(m),
              \A x \in Messages :
                Listed(x)' + One(writing' = x) + InHandlers(x)' + InTasks(x)'
                = Listed(x) + One(writing = x) + InHandlers(x) + InTasks(x) + One(x = m)
       PROVE  HeldInv'
  <2>1. m \in Messages /\ m \notin inUse /\ inUse' = inUse \cup {m}
    BY <1>a, <1>27, AllocateRefs
  <2>2. ASSUME NEW x \in Messages PROVE Held(x)' = One(x \in inUse')
    <3>1. Held(x)' = Held(x) + One(x = m)
      BY <1>27 DEF Held
    <3>2. Held(x) = One(x \in inUse)
      BY <1>a DEF HeldInv
    <3>3. One(x \in inUse') = One(x \in inUse) + One(x = m)
      BY <2>1 DEF One
    <3> QED BY <3>1, <3>2, <3>3
  <2> QED BY <2>2 DEF HeldInv
<1>28. ASSUME NEW m \in Messages, Allocate(m), Transmit(m), connState = "OPEN",
              autoSend' = autoSend, ioQueue' = ioQueue, SameTasks
       PROVE  HeldInv' /\ RefInv'
  <2>1. ASSUME NEW x \in Messages
        PROVE  /\ Listed(x)' + One(writing' = x) + InHandlers(x)' + InTasks(x)'
                  = Listed(x) + One(writing = x) + InHandlers(x) + InTasks(x) + One(x = m)
               /\ outBuf' = x => outBuf = x /\ Listed(x)' >= Listed(x)
    <3>1. /\ Count(toAdd', {x}) + One(writing' = x)
             = Count(toAdd, {x}) + One(writing = x) + One(x = m)
          /\ outBuf' = x => outBuf = x /\ Count(toAdd', {x}) = Count(toAdd, {x}) + One(x = m)
      BY <1>28, TransmitHolds
    <3>2. InHandlers(x)' = InHandlers(x) /\ InTasks(x)' = InTasks(x)
      BY <1>7, <1>28
    <3>3. /\ Listed(x)' = Count(autoSend, {x}) + Count(toAdd', {x})
          /\ Listed(x) = Count(autoSend, {x}) + Count(toAdd, {x})
      BY <1>28 DEF Listed
    <3>4. /\ Count(autoSend, {x}) \in Nat /\ Count(toAdd, {x}) \in Nat
          /\ InHandlers(x) \in Nat /\ InTasks(x) \in Nat
      BY <1>b
    <3>5. One(writing' = x) \in Nat /\ One(writing = x) \in Nat /\ One(x = m) \in Nat
      BY DEF One
    <3>6. Count(toAdd', {x}) \in Nat
      BY HitsFinite, TypesStep DEF Types, Pool
    <3> QED BY <3>1, <3>2, <3>3, <3>4, <3>5, <3>6
  <2>2. HeldInv'
    BY <1>27, <1>28, <2>1
  <2>3. outBuf' # NoMsg => Listed(outBuf)' >= 1
    <3>1. SUFFICES ASSUME outBuf' # NoMsg PROVE Listed(outBuf)' >= 1
      OBVIOUS
    <3>2. outBuf' \in Messages
      BY <3>1, TypesStep DEF Types, Pool
    <3>3. outBuf = outBuf' /\ Listed(outBuf)' >= Listed(outBuf)
      <4> DEFINE x == outBuf'
      <4>1. outBuf = x /\ Count(autoSend', {x}) + Count(toAdd', {x}) >= Listed(x)
        BY <2>1, <3>2 DEF Listed
      <4> QED BY <4>1 DEF Listed
    <3>4. Listed(outBuf) >= 1 /\ Listed(outBuf) \in Nat /\ Listed(outBuf)' \in Nat
      BY <1>a, <1>b, <1>c, <1>q, <3>2, <3>3 DEF RefInv
    <3> QED BY <3>3, <3>4
  <2>4. RefInv'
    BY <1>a, <1>28, <2>3, AllocateRefs DEF RefInv
  <2> QED BY <2>2, <2>4
<1>29. CASE DisconnectClient
  <2>1. PICK m \in Messages : Allocate(m) /\ Transmit(m)
    BY <1>29 DEF DisconnectClient
  <2>2. /\ ioPc = "parsing" /\ CloseConnection(tasks) /\ UNCHANGED ioQueue /\ UNCHANGED autoSend
    BY <1>29 DEF DisconnectClient
  <2>3. connState = "OPEN"
    BY <2>2 DEF ConnInv, ReadInv
  <2> QED BY <1>6, <1>28, <2>1, <2>2, <2>3
<1>30. ASSUME NEW m \in Messages, Allocate(m), UNCHANGED noWrite, outBuf' = outBuf,
              autoSend' = autoSend, ioQueue' = ioQueue,
              \A x \in Messages : InTasks(x)' = InTasks(x) + One(x = m)
       PROVE  HeldInv' /\ RefInv'
  <2>1. ASSUME NEW x \in Messages
        PROVE  Listed(x)' + One(writing' = x) + InHandlers(x)' + InTasks(x)'
               = Listed(x) + One(writing = x) + InHandlers(x) + InTasks(x) + One(x = m)
    <3>1. Listed(x)' = Listed(x) /\ writing' = writing /\ InHandlers(x)' = InHandlers(x)
      BY <1>7, <1>30 DEF Listed
    <3>2. InTasks(x)' = InTasks(x) + One(x = m)
      BY <1>30
    <3>3. /\ Listed(x) \in Nat /\ InHandlers(x) \in Nat /\ InTasks(x) \in Nat
          /\ One(x = m) \in Nat /\ One(writing = x) \in Nat
      BY <1>b DEF One
    <3> QED BY <3>1, <3>2, <3>3
  <2>2. HeldInv'
    BY <1>27, <1>30, <2>1
  <2>3. RefInv'
    <3>1. outBuf' # NoMsg => Listed(outBuf)' >= 1
      BY <1>a, <1>30 DEF RefInv, Listed
    <3> QED BY <1>a, <1>30, <3>1, AllocateRefs DEF RefInv
  <2> QED BY <2>2, <2>3
<1>31. ASSUME NEW m \in Messages, Allocate(m), toAdd' = toAdd, writing' = writing, outBuf' = m,
              autoSend' = Append(autoSend, m), ioQueue' = ioQueue, SameTasks
       PROVE  HeldInv' /\ RefInv'
  <2>1. ASSUME NEW x \in Messages PROVE Listed(x)' = Listed(x) + One(x = m)
    <3>1. Count(Append(autoSend, m), {x}) = Count(autoSend, {x}) + One(m \in {x})
      BY <1>q, <1>31, CountAppend
    <3>2. One(m \in {x}) = One(x = m) /\ One(x = m) \in Nat
      BY DEF One
    <3>3. Count(autoSend, {x}) \in Nat /\ Count(toAdd, {x}) \in Nat
      BY <1>b
    <3> QED BY <1>31, <3>1, <3>2, <3>3 DEF Listed
  <2>2. ASSUME NEW x \in Messages
        PROVE  Listed(x)' + One(writing' = x) + InHandlers(x)' + InTasks(x)'
               = Listed(x) + One(writing = x) + InHandlers(x) + InTasks(x) + One(x = m)
    <3>1. Listed(x)' = Listed(x) + One(x = m) /\ writing' = writing
      BY <1>31, <2>1
    <3>2. InHandlers(x)' = InHandlers(x) /\ InTasks(x)' = InTasks(x)
      BY <1>7, <1>31
    <3>3. /\ Listed(x) \in Nat /\ InHandlers(x) \in Nat /\ InTasks(x) \in Nat
          /\ One(x = m) \in Nat /\ One(writing = x) \in Nat
      BY <1>b DEF One
    <3> QED BY <3>1, <3>2, <3>3
  <2>3. HeldInv'
    BY <1>27, <1>31, <2>2
  <2>4. Listed(m)' >= 1
    <3>1. Listed(m)' = Listed(m) + 1 /\ Listed(m) \in Nat
      BY <1>b, <2>1, <1>31 DEF One
    <3> QED BY <3>1
  <2>5. Listed(outBuf)' >= 1
    BY <1>31, <2>4 DEF Listed
  <2> QED BY <1>a, <1>31, <2>3, <2>5, AllocateRefs DEF RefInv
\* The overrun: the io thread closes the connection and kicks the player.
<1>50. CASE ParseOverrun
  <2>1. Runs("read") /\ ioQueue' = Rest /\ CloseConnection(tasks) /\ UNCHANGED readOther
    BY <1>50 DEF ParseOverrun, ReadSucceeds
  <2> QED BY <1>5, <1>6, <1>16, <2>1
<1>51. CASE KickPlayer
  <2>1. /\ tasks' = tasks /\ ioQueue' = ioQueue /\ toAdd' = toAdd /\ writing' = writing
        /\ \E m \in Messages : Allocate(m) /\ outBuf' = m /\ autoSend' = Append(autoSend, m)
    BY <1>51 DEF KickPlayer
  <2> QED BY <1>6, <1>31, <2>1
\* The dispatcher's tasks.
<1>32. ASSUME NEW q \in Seq(TaskRecs), \A x \in Messages : Count(q, RelT(x)) = InTasks(x),
              ioQueue' = ioQueue,
              Write(q) \/ DoNothing(q) \/ Disconnect(q) \/ Refuse(q)
       PROVE  HeldInv' /\ RefInv'
  <2>1. tasks' = q \/ CloseConnection(q) => SameTasks
    BY <1>32, CloseHolds DEF InTasks
  <2>2. CASE Write(q)
    <3>1. tasks' = q /\ UNCHANGED noWrite /\ GetOutputBuffer
      BY <2>2 DEF Write
    <3>2. CASE UNCHANGED refVars /\ outBuf' = outBuf /\ autoSend' = autoSend
      BY <1>5, <1>7, <1>32, <2>1, <3>1, <3>2
    <3>3. CASE \E m \in Messages : Allocate(m) /\ outBuf' = m /\ autoSend' = Append(autoSend, m)
      BY <1>31, <1>32, <2>1, <3>1, <3>3
    <3> QED BY <3>1, <3>2, <3>3 DEF GetOutputBuffer
  <2>3. CASE DoNothing(q)
    <3>1. tasks' = q /\ UNCHANGED noSend
      BY <2>3 DEF DoNothing
    <3> QED BY <1>5, <1>7, <1>32, <2>1, <3>1
  <2>4. CASE Disconnect(q)
    <3>1. CloseConnection(q) /\ UNCHANGED noSend
      BY <2>4 DEF Disconnect
    <3> QED BY <1>5, <1>7, <1>32, <2>1, <3>1
  <2>5. CASE Refuse(q)
    <3>1. autoSend' = autoSend
      BY <2>5 DEF Refuse
    <3>2. PICK m \in Messages :
            /\ Allocate(m)
            /\ \/ connState = "OPEN" /\ Transmit(m) /\ CloseConnection(q)
               \/ /\ CloseConnection(<<Released(m)>> \o q) /\ UNCHANGED noWrite
                  /\ UNCHANGED outBuf
      BY <2>5 DEF Refuse
    <3>3. CASE connState = "OPEN" /\ Transmit(m) /\ CloseConnection(q)
      BY <1>28, <1>32, <2>1, <3>1, <3>2, <3>3
    <3>4. CASE /\ CloseConnection(<<Released(m)>> \o q) /\ UNCHANGED noWrite
               /\ UNCHANGED outBuf
      <4> DEFINE r == <<Released(m)>> \o q
      <4>1. r \in Seq(TaskRecs)
            /\ \A x \in Messages : Count(r, RelT(x)) = InTasks(x) + One(x = m)
        BY <1>32, PushHolds
      <4>2. CloseConnection(r)
        BY <3>4
      <4> HIDE DEF r
      <4>3. \A x \in Messages : InTasks(x)' = InTasks(x) + One(x = m)
        BY <4>1, <4>2, CloseHolds
      <4> QED BY <1>30, <1>32, <3>1, <3>2, <3>4, <4>3
    <3> QED BY <3>2, <3>3, <3>4
  <2> QED BY <1>32, <2>2, <2>3, <2>4, <2>5
<1>33. /\ \A x \in Messages : Count(tasks, RelT(x)) = InTasks(x)
       /\ \A k \in {"close", "protocol"} : Takes(k) =>
            /\ Tail(tasks) \in Seq(TaskRecs)
            /\ \A x \in Messages : Count(Tail(tasks), RelT(x)) = InTasks(x)
  <2>1. ASSUME NEW k \in {"close", "protocol"}, Takes(k), NEW x \in Messages
        PROVE  Count(Tail(tasks), RelT(x)) = InTasks(x)
    <3>1. Count(Tail(tasks), RelT(x))
          = InTasks(x) - One(Head(tasks).k = "release" /\ Head(tasks).m = x)
      BY <2>1, HeadsHold DEF Takes
    <3>2. One(Head(tasks).k = "release" /\ Head(tasks).m = x) = 0
      BY <2>1 DEF One, Takes
    <3>3. InTasks(x) \in Nat
      BY <1>b
    <3> QED BY <3>1, <3>2, <3>3
  <2>2. ASSUME NEW k, Takes(k) PROVE Tail(tasks) \in Seq(TaskRecs)
    BY <2>2, QueueHeads DEF Types
  <2> QED BY <2>1, <2>2 DEF InTasks
<1>34. CASE GameTask
  <2>1. /\ UNCHANGED taskOther /\ dispPc = "idle"
        /\ DoNothing(tasks) \/ Write(tasks) \/ Disconnect(tasks)
    BY <1>34 DEF GameTask, Runnable
  <2> QED BY <1>32, <1>33, <1>q, <2>1
<1>35. CASE Login
  <2>1. /\ UNCHANGED taskOther /\ dispPc = "idle" /\ Takes("protocol")
        /\ Write(Tail(tasks)) \/ Refuse(Tail(tasks)) \/ DoNothing(Tail(tasks))
    BY <1>35 DEF Login, EntersGame, Runnable
  <2> QED BY <1>32, <1>33, <2>1
<1>36. CASE Logout
  <2>1. /\ UNCHANGED taskOther /\ dispPc = "idle" /\ Takes("protocol")
        /\ Write(Tail(tasks)) \/ Disconnect(Tail(tasks)) \/ DoNothing(Tail(tasks))
    BY <1>36 DEF Logout, Runnable
  <2> QED BY <1>32, <1>33, <2>1
<1>37. CASE Connect
  <2>1. /\ UNCHANGED taskOther /\ dispPc = "idle"
        /\ Write(tasks) \/ Refuse(tasks) \/ DoNothing(tasks)
    BY <1>37 DEF Connect, EntersGame, Runnable
  <2> QED BY <1>32, <1>33, <1>q, <2>1
<1>38. CASE CloseConnectionTask
  <2>1. /\ Takes("close") /\ tasks' = Tail(tasks) /\ UNCHANGED refVars /\ UNCHANGED poolVars
        /\ \/ UNCHANGED writing /\ UNCHANGED ioQueue
           \/ CloseSocket /\ ReleaseConnection(ioQueue \o Aborted)
    BY <1>38 DEF CloseConnectionTask
  <2>2. SameTasks
    BY <1>33, <2>1 DEF InTasks
  <2>3. CASE UNCHANGED writing /\ UNCHANGED ioQueue
    BY <1>5, <1>7, <2>1, <2>2, <2>3
  <2>4. CASE CloseSocket /\ ReleaseConnection(ioQueue \o Aborted)
    <3> DEFINE q == ioQueue \o Aborted
               e == Handler("stop", NoMsg, TRUE)
    <3>1. q \in Seq(Handlers)
      BY <1>q, AbortCounts
    <3>2. e \in Handlers /\ e.h = "stop"
      BY QueueParts, HandlerKind
    <3>3. \A m \in Messages : Count(q, MsgH(m)) = InHandlers(m) + One(writing = m)
      BY <1>q, AbortHolds DEF InHandlers
    <3>4. ioQueue' = q \/ ioQueue' = Append(q, e)
      BY <2>4 DEF ReleaseConnection
    <3>5. writing' = NoMsg
      BY <2>4, SocketCloses
    <3> HIDE DEF q, e
    <3>6. ASSUME NEW m \in Messages
          PROVE  InHandlers(m)' + One(writing' = m) = InHandlers(m) + One(writing = m)
      <4>1. Count(Append(q, e), MsgH(m)) = Count(q, MsgH(m)) + One(e \in MsgH(m))
        BY <3>1, <3>2, CountAppend
      <4>2. One(e \in MsgH(m)) = 0
        BY <3>2 DEF MsgH, One
      <4>3. Count(q, MsgH(m)) \in Nat
        BY <3>1, HitsFinite
      <4>4. Count(ioQueue', MsgH(m)) = Count(q, MsgH(m))
        <5>1. Count(Append(q, e), MsgH(m)) = Count(q, MsgH(m))
          BY <4>1, <4>2, <4>3
        <5>2. CASE ioQueue' = q
          BY <5>2
        <5>3. CASE ioQueue' = Append(q, e)
          BY <5>1, <5>3
        <5> QED BY <3>4, <5>2, <5>3
      <4>5. One(writing' = m) = 0 /\ One(writing = m) \in Nat
        BY <1>q, <3>5 DEF One
      <4>6. InHandlers(m)' = InHandlers(m) + One(writing = m)
        BY <3>3, <4>4 DEF InHandlers
      <4>7. InHandlers(m) \in Nat
        BY <1>b
      <4> QED BY <4>5, <4>6, <4>7
    <3> QED BY <1>4, <2>1, <2>2, <3>6
  <2> QED BY <2>1, <2>3, <2>4
<1>39. CASE RetryReleaseConnection
  <2>1. /\ tasks' = tasks /\ UNCHANGED refVars /\ UNCHANGED poolVars /\ writing' = writing
        /\ \/ UNCHANGED ioQueue
           \/ ioQueue' = Append(ioQueue, Handler("stop", NoMsg, TRUE))
    BY <1>39 DEF RetryReleaseConnection, ReleaseConnection
  <2>2. SameHandlers
    BY <1>7, <1>9, <2>1, QueueParts
  <2> QED BY <1>5, <1>6, <2>1, <2>2
<1>40. CASE RetryReleaseProtocol
  <2>1. /\ tasks' = tasks /\ UNCHANGED refVars /\ UNCHANGED poolVars /\ UNCHANGED opVars
    BY <1>40 DEF RetryReleaseProtocol
  <2> QED BY <1>5, <1>6, <1>7, <2>1
<1>41. CASE UnRef
  <2>1. /\ tasks' = tasks /\ UNCHANGED refCount /\ UNCHANGED protoRefs /\ UNCHANGED inUse
        /\ miscounted' = miscounted /\ UNCHANGED poolVars /\ UNCHANGED opVars
    BY <1>41 DEF UnRef
  <2>2. HeldInv'
    BY <1>2, <1>6, <1>7, <2>1
  <2>3. RefInv'
    BY <1>a, <2>1 DEF RefInv, Listed
  <2> QED BY <2>2, <2>3
<1>42. CASE InternalReleaseMessage
  <2> DEFINE x == Head(tasks).m
  <2>1. /\ dispPc = "unref" /\ inUse' = inUse \ {x} /\ tasks' = Tail(tasks)
        /\ UNCHANGED opVars /\ UNCHANGED poolVars
        /\ ~miscounted' => /\ ~miscounted /\ refCount' = refCount - 1 + 0
                           /\ protoRefs' = protoRefs - 1 + 0
    BY <1>42 DEF InternalReleaseMessage
  <2>2. tasks # <<>> /\ Head(tasks).k = "release"
    BY <2>1, HeadTailProperties DEF Types, Queues, ReleaseInFront
  <2>3. x \in inUse
    BY <1>a, <2>2, ReleaseHolds
  <2> HIDE DEF x
  <2>4. ASSUME NEW m \in Messages PROVE Held(m)' = One(m \in inUse')
    <3>1. Count(Tail(tasks), RelT(m))
          = InTasks(m) - One(Head(tasks).k = "release" /\ Head(tasks).m = m)
      BY <2>2, HeadsHold
    <3>2. One(Head(tasks).k = "release" /\ Head(tasks).m = m) = One(m = x)
      BY <2>2 DEF One, x
    <3>3. InTasks(m)' = InTasks(m) - One(m = x)
      BY <2>1, <3>1, <3>2 DEF InTasks
    <3>4. Listed(m)' = Listed(m) /\ writing' = writing /\ InHandlers(m)' = InHandlers(m)
      BY <2>1, <1>7 DEF Listed
    <3>5. One(m \in inUse') = One(m \in inUse) - One(m = x)
      BY <2>1, <2>3 DEF One
    <3>6. Listed(m) + One(writing = m) + InHandlers(m) + InTasks(m) = One(m \in inUse)
      BY <1>a DEF HeldInv, Held
    <3>7. /\ Listed(m) \in Nat /\ InHandlers(m) \in Nat /\ InTasks(m) \in Nat
          /\ One(m = x) \in Nat /\ One(writing = m) \in Nat
      BY <1>b DEF One
    <3>8. Held(m)' = Listed(m)' + One(writing' = m) + InHandlers(m)' + InTasks(m)'
      BY DEF Held
    <3> QED BY <3>3, <3>4, <3>5, <3>6, <3>7, <3>8
  <2>5. HeldInv'
    BY <2>4 DEF HeldInv
  <2>6. /\ IsFiniteSet(inUse \ {x}) /\ Cardinality(inUse \ {x}) = Cardinality(inUse) - 1
        /\ Cardinality(inUse) \in Nat
    BY <1>a, <2>3, FS_RemoveElement, FS_CardinalityType DEF RefInv
  <2>7. /\ ~miscounted' => refCount' = Cardinality(inUse') /\ protoRefs' = Cardinality(inUse')
        /\ IsFiniteSet(inUse')
    BY <1>a, <2>1, <2>6 DEF RefInv
  <2>8. outBuf' # NoMsg => Listed(outBuf)' >= 1
    BY <1>a, <2>1 DEF RefInv, Listed
  <2> QED BY <2>1, <2>5, <2>7, <2>8 DEF RefInv
\* The sweep.
<1>43. CASE SweepBegins \/ SweepKeeps \/ SweepEnds
  <2>1. /\ UNCHANGED poolVars /\ tasks' = tasks /\ writing' = writing /\ UNCHANGED sweepOther
    BY <1>43 DEF SweepBegins, SweepKeeps, SweepEnds
  <2> QED BY <1>5, <1>6, <1>7, <2>1
<1>44. CASE SweepRequeues
  <2> DEFINE x == Head(toAdd)
  <2>1. /\ dispPc = "sweep" /\ sweepAt = 0 /\ toAdd' = Tail(toAdd)
        /\ autoSend' = Append(autoSend, x) /\ tasks' = tasks /\ outBuf' = outBuf
        /\ writing' = writing /\ UNCHANGED sweepOther
    BY <1>44 DEF SweepRequeues, TakeUp
  <2>2. toAdd # <<>> /\ x \in Messages
    BY <1>q, <2>1, HeadTailProperties DEF Types, Pool
  <2> HIDE DEF x
  <2>3. ASSUME NEW m \in Messages PROVE Listed(m)' = Listed(m)
    <3>1. Count(Append(autoSend, x), {m}) = Count(autoSend, {m}) + One(x \in {m})
      BY <1>q, <2>2, CountAppend
    <3>2. Count(toAdd, {m}) = Count(Tail(toAdd), {m}) + One(m = Head(toAdd))
      BY <1>q, <2>2, ListCounts
    <3>3. One(x \in {m}) = One(m = x) /\ One(m = Head(toAdd)) = One(m = x) /\ One(m = x) \in Nat
      BY DEF One, x
    <3>4. Count(autoSend, {m}) \in Nat /\ Count(toAdd, {m}) \in Nat
      BY <1>b
    <3>5. Count(Tail(toAdd), {m}) \in Nat
      BY <1>q, <2>2, HeadTailProperties, HitsFinite
    <3> QED BY <2>1, <3>1, <3>2, <3>3, <3>4, <3>5 DEF Listed
  <2>4. ASSUME NEW m \in Messages
        PROVE  Listed(m)' + One(writing' = m) + InHandlers(m)' + InTasks(m)'
               = Listed(m) + One(writing = m) + InHandlers(m) + InTasks(m)
    BY <1>6, <1>7, <2>1, <2>3
  <2>5. HeldInv'
    BY <1>1, <2>1, <2>4
  <2>6. outBuf' # NoMsg => Listed(outBuf)' >= 1
    <3>1. ASSUME outBuf # NoMsg PROVE Listed(outBuf)' >= 1
      <4> DEFINE m == outBuf
      <4>1. m \in Messages /\ Listed(m) >= 1
        BY <1>a, <1>q, <3>1 DEF RefInv
      <4>2. Count(autoSend', {m}) + Count(toAdd', {m}) >= 1
        BY <2>3, <4>1 DEF Listed
      <4> QED BY <2>1, <4>2 DEF Listed
    <3> QED BY <2>1, <3>1
  <2> QED BY <1>a, <2>1, <2>5, <2>6 DEF RefInv
\* A message of the lists is freed or sent: x leaves them.
<1>45. ASSUME NEW x \in Messages, UNCHANGED sweepOther, UNCHANGED writing,
              tasks' = <<Released(x)>> \o tasks, outBuf' = IF outBuf = x THEN NoMsg ELSE outBuf,
              \A m \in Messages : Listed(m) = Listed(m)' + One(m = x)
       PROVE  HeldInv' /\ RefInv'
  <2>1. ASSUME NEW m \in Messages
        PROVE  Listed(m)' + One(writing' = m) + InHandlers(m)' + InTasks(m)'
               = Listed(m) + One(writing = m) + InHandlers(m) + InTasks(m)
    <3>1. InTasks(m)' = InTasks(m) + One(m = x)
      BY <1>q, <1>45, PushHolds DEF InTasks
    <3>2. Listed(m) = Listed(m)' + One(m = x) /\ InHandlers(m)' = InHandlers(m)
      BY <1>7, <1>45
    <3>3. /\ Listed(m)' \in Nat /\ InHandlers(m) \in Nat /\ InTasks(m) \in Nat
          /\ One(m = x) \in Nat /\ One(writing = m) \in Nat
      BY <1>b, <1>c DEF One
    <3> QED BY <1>45, <3>1, <3>2, <3>3
  <2>2. HeldInv'
    BY <1>1, <1>45, <2>1
  <2>3. outBuf' # NoMsg => Listed(outBuf)' >= 1
    <3>1. ASSUME outBuf' # NoMsg PROVE Listed(outBuf)' >= 1
      <4> DEFINE m == outBuf
      <4>1. m \in Messages /\ m # x /\ outBuf' = m /\ Listed(m) >= 1
        BY <1>a, <1>q, <1>45, <3>1 DEF RefInv
      <4>2. Listed(m) = Count(autoSend', {m}) + Count(toAdd', {m}) + One(m = x)
        BY <1>45, <4>1 DEF Listed
      <4>3. One(m = x) = 0
        BY <4>1 DEF One
      <4>4. Listed(m) \in Nat
        BY <1>b
      <4>5. Count(autoSend', {m}) \in Nat /\ Count(toAdd', {m}) \in Nat
        BY HitsFinite, TypesStep DEF Types, Pool
      <4>6. Count(autoSend', {m}) + Count(toAdd', {m}) >= 1
        BY <4>1, <4>2, <4>3, <4>4, <4>5
      <4> QED BY <4>1, <4>6 DEF Listed
    <3> QED BY <3>1
  <2> QED BY <1>a, <1>45, <2>2, <2>3 DEF RefInv
<1>46. CASE SweepDrops
  <2> DEFINE x == Head(toAdd)
  <2>1. /\ dispPc = "sweep" /\ sweepAt = 0 /\ toAdd' = Tail(toAdd) /\ autoSend' = autoSend
        /\ tasks' = <<Released(x)>> \o tasks /\ writing' = writing /\ UNCHANGED sweepOther
        /\ outBuf' = IF outBuf = x THEN NoMsg ELSE outBuf
    BY <1>46 DEF SweepDrops, TakeUp
  <2>2. toAdd # <<>> /\ x \in Messages
    BY <1>q, <2>1, HeadTailProperties DEF Types, Pool
  <2>3. ASSUME NEW m \in Messages PROVE Listed(m) = Listed(m)' + One(m = x)
    <3>1. Count(toAdd, {m}) = Count(Tail(toAdd), {m}) + One(m = x)
      BY <1>q, <2>2, ListCounts
    <3>2. Count(autoSend, {m}) \in Nat /\ Count(toAdd, {m}) \in Nat /\ One(m = x) \in Nat
      BY <1>b DEF One
    <3>3. Count(Tail(toAdd), {m}) \in Nat
      BY <1>q, <2>2, HeadTailProperties, HitsFinite
    <3> QED BY <2>1, <3>1, <3>2, <3>3 DEF Listed
  <2> HIDE DEF x
  <2> QED BY <1>45, <2>1, <2>2, <2>3
\* sendAll takes a message out of m_autoSendOutputMessages.
<1>47. ASSUME Sweeping, autoSend' = RemoveAt(autoSend, sweepAt), NEW m \in Messages
       PROVE  /\ autoSend[sweepAt] \in Messages
              /\ Count(autoSend, {m}) = Count(autoSend', {m}) + One(m = autoSend[sweepAt])
              /\ Count(autoSend', {m}) \in Nat
  <2>1. sweepAt \in 1..Len(autoSend)
    BY <1>47 DEF Sweeping
  <2>2. autoSend[sweepAt] \in Messages /\ RemoveAt(autoSend, sweepAt) \in Seq(Messages)
    BY <1>q, <2>1, CountRemove
  <2>3. Count(RemoveAt(autoSend, sweepAt), {m}) \in Nat
    BY <2>2, HitsFinite
  <2>4. Count(autoSend, {m}) = Count(RemoveAt(autoSend, sweepAt), {m}) + One(m = autoSend[sweepAt])
    <3>1. \A n \in 1..Len(autoSend) :
            Count(autoSend, {m}) = Count(RemoveAt(autoSend, n), {m}) + One(m = autoSend[n])
      BY <1>q, ListCounts
    <3> QED BY <2>1, <3>1
  <2> QED BY <1>47, <2>2, <2>3, <2>4
<1>48. CASE SweepFrees
  <2> DEFINE x == autoSend[sweepAt]
  <2>1. /\ Sweeping /\ autoSend' = RemoveAt(autoSend, sweepAt) /\ toAdd' = toAdd
        /\ tasks' = <<Released(x)>> \o tasks /\ writing' = writing /\ UNCHANGED sweepOther
        /\ outBuf' = IF outBuf = x THEN NoMsg ELSE outBuf
    BY <1>48 DEF SweepFrees
  <2>2. x \in Messages
    BY <1>q, <2>1, CountRemove DEF Sweeping
  <2>3. ASSUME NEW m \in Messages PROVE Listed(m) = Listed(m)' + One(m = x)
    <3>1. Count(autoSend, {m}) = Count(autoSend', {m}) + One(m = x) /\ Count(autoSend', {m}) \in Nat
      BY <1>47, <2>1
    <3>2. Count(toAdd, {m}) \in Nat /\ One(m = x) \in Nat
      BY <1>b DEF One
    <3> QED BY <2>1, <3>1, <3>2 DEF Listed
  <2> HIDE DEF x
  <2> QED BY <1>45, <2>1, <2>2, <2>3
<1>49. CASE SweepSends
  <2> DEFINE x == autoSend[sweepAt]
  <2>1. /\ Sweeping /\ autoSend' = RemoveAt(autoSend, sweepAt) /\ Transmit(x)
        /\ connState = "OPEN" /\ tasks' = tasks /\ UNCHANGED sweepOther
    BY <1>49 DEF SweepSends
  <2>2. x \in Messages
    BY <1>q, <2>1, CountRemove DEF Sweeping
  <2>3. ASSUME NEW m \in Messages
        PROVE  /\ Listed(m)' + One(writing' = m) = Listed(m) + One(writing = m)
               /\ outBuf' = m => outBuf = m /\ Listed(m)' >= Listed(m)
    <3>1. Count(autoSend, {m}) = Count(autoSend', {m}) + One(m = x) /\ Count(autoSend', {m}) \in Nat
      BY <1>47, <2>1
    <3>2. /\ Count(toAdd', {m}) + One(writing' = m)
             = Count(toAdd, {m}) + One(writing = m) + One(m = x)
          /\ outBuf' = m => outBuf = m /\ Count(toAdd', {m}) = Count(toAdd, {m}) + One(m = x)
      BY <2>1, <2>2, TransmitHolds
    <3>3. /\ Count(toAdd, {m}) \in Nat /\ One(m = x) \in Nat /\ One(writing = m) \in Nat
          /\ One(writing' = m) \in Nat
      BY <1>b DEF One
    <3>4. Count(toAdd', {m}) \in Nat
      BY HitsFinite, TypesStep DEF Types, Pool
    <3>5. Listed(m) = Count(autoSend, {m}) + Count(toAdd, {m})
          /\ Listed(m)' = Count(autoSend', {m}) + Count(toAdd', {m})
      BY DEF Listed
    <3> HIDE DEF x
    <3> QED BY <3>1, <3>2, <3>3, <3>4, <3>5
  <2> HIDE DEF x
  <2>4. ASSUME NEW m \in Messages
        PROVE  Listed(m)' + One(writing' = m) + InHandlers(m)' + InTasks(m)'
               = Listed(m) + One(writing = m) + InHandlers(m) + InTasks(m)
    <3>1. InHandlers(m)' = InHandlers(m) /\ InTasks(m)' = InTasks(m)
      BY <1>6, <1>7, <2>1
    <3>2. Listed(m)' + One(writing' = m) = Listed(m) + One(writing = m)
      BY <2>3
    <3> QED BY <3>1, <3>2
  <2>5. HeldInv'
    BY <1>1, <2>1, <2>4
  <2>6. outBuf' # NoMsg => Listed(outBuf)' >= 1
    <3>1. ASSUME outBuf' # NoMsg PROVE Listed(outBuf)' >= 1
      <4> DEFINE m == outBuf'
      <4>1. m \in Messages
        BY <3>1, TypesStep DEF Types, Pool
      <4>2. outBuf = m /\ Count(autoSend', {m}) + Count(toAdd', {m}) >= Listed(m)
        BY <2>3, <4>1 DEF Listed
      <4>3. Listed(m) >= 1 /\ Listed(m) \in Nat
        BY <1>a, <1>b, <3>1, <4>2 DEF RefInv
      <4>4. Count(autoSend', {m}) \in Nat /\ Count(toAdd', {m}) \in Nat
        BY HitsFinite, TypesStep DEF Types, Pool
      <4>5. Count(autoSend', {m}) + Count(toAdd', {m}) >= 1
        BY <4>2, <4>3, <4>4
      <4> QED BY <4>5 DEF Listed
    <3> QED BY <3>1
  <2> QED BY <1>a, <2>1, <2>5, <2>6 DEF RefInv
<1> QED
  BY <1>10, <1>11, <1>12, <1>13, <1>14, <1>17, <1>18, <1>19, <1>20, <1>21, <1>22, <1>24, <1>25,
     <1>26, <1>29, <1>34, <1>35, <1>36, <1>37, <1>38, <1>39, <1>40, <1>41, <1>42, <1>43, <1>44,
     <1>46, <1>48, <1>49, <1>50, <1>51
     DEF Next, Client, Io, Queued, Sweep

-----------------------------------------------------------------------------
(* The protocol.                                                            *)

\* A protocol that is deleted has no message left, unless the count was wrong, and no event
\* that would come back to it.
LEMMA FreeProtocol ==
    ASSUME Types, RefInv, CountInv, ReleaseProtocol
    PROVE  \/ protocol' = "detached" /\ retryProto'
           \/ /\ protocol' = "deleted" /\ ~retryProto' /\ (~miscounted => inUse = {})
              /\ ~connecting
<1>1. Cardinality(inUse) \in Nat /\ (Cardinality(inUse) = 0 => inUse = {})
  BY FS_CardinalityType, FS_EmptySet DEF RefInv
<1>2. /\ ~miscounted => protoRefs = Cardinality(inUse)
      /\ miscounted => ~connecting
      /\ connecting \in BOOLEAN /\ miscounted \in BOOLEAN
  BY DEF RefInv, CountInv, Types, Scalars
<1>3. ASSUME protoRefs + One(connecting) = 0
      PROVE  (~miscounted => inUse = {}) /\ ~connecting
  <2>1. CASE miscounted
    BY <1>2, <2>1
  <2>2. CASE ~miscounted
    BY <1>1, <1>2, <1>3, <2>2 DEF One
  <2> QED BY <2>1, <2>2
<1>4. CASE protoRefs + One(connecting) # 0
  BY <1>4 DEF ReleaseProtocol, One
<1>5. CASE protoRefs + One(connecting) = 0
  BY <1>3, <1>5 DEF ReleaseProtocol, One
<1> QED BY <1>4, <1>5

LEMMA ClosesInFront ==
    ASSUME Types, tasks # <<>>, Head(tasks).k = "close"
    PROVE  Closes # 0
<1>1. Tail(tasks) \in Seq(TaskRecs) /\ Count(Tail(tasks), CloseT) = Closes - 1
  BY OtherTasks
<1>2. Count(Tail(tasks), CloseT) \in Nat /\ Closes \in Nat
  BY <1>1, HitsFinite, CountsAreNat
<1> QED BY <1>1, <1>2

LEMMA ProtoStep == Types /\ ConnInv /\ MsgInv /\ Next => ProtoInv'
<1> SUFFICES ASSUME Types, ConnInv, MsgInv, Next PROVE ProtoInv'
  OBVIOUS
<1> USE SameVars, SameClock, SameIo, SameTask, SameSweep
<1>a. HeldInv /\ RefInv /\ ProtoInv
  BY DEF MsgInv
<1>b. NoneBehindClose(tasks) /\ tasks \in Seq(TaskRecs) /\ ioQueue \in Seq(Handlers)
  BY <1>a DEF ProtoInv, Types, Queues
<1>c. /\ connecting \in BOOLEAN /\ retryProto \in BOOLEAN
      /\ ioPc \in {"idle", "parsing", "kicking"} /\ miscounted \in BOOLEAN
      /\ protocol \in {"none", "attached", "playing", "detached", "deleted"}
  BY DEF Types, Scalars
<1>d. /\ connecting' \in BOOLEAN /\ retryProto' \in BOOLEAN /\ miscounted' \in BOOLEAN
      /\ Protos \in Nat /\ Protos' \in Nat
  <2>1. tasks' \in Seq(TaskRecs)
    BY TypesStep DEF Types, Queues
  <2>2. Protos' \in Nat
    BY <2>1, HitsFinite DEF Protos
  <2> QED BY <2>2, TypesStep, HeldAreNat DEF Types, Scalars
<1>e. CountInv
  BY DEF MsgInv
\* A step that only takes from the protocol's users.
<1>1. ASSUME protocol' = protocol, ioPc' = ioPc, inUse = {} => inUse' = {},
             miscounted => miscounted', connecting' => connecting, retryProto' = retryProto,
             Protos' <= Protos, connState # "OPEN" => connState' # "OPEN",
             NoneBehindClose(tasks')
      PROVE  ProtoInv'
  <2>1. One(connecting') <= One(connecting) /\ One(connecting) \in Nat /\ One(connecting') \in Nat
    BY <1>1 DEF One
  <2>2. Protos' + One(connecting') <= Protos + One(connecting) /\ (Protos = 0 => Protos' = 0)
    BY <1>1, <1>d, <2>1
  <2>3. Protos + One(connecting) <= 1 => Protos' + One(connecting') <= 1
    BY <1>d, <2>1, <2>2
  <2>4. ~miscounted' => ~miscounted
    BY <1>1
  <2> QED BY <1>a, <1>c, <1>1, <2>2, <2>3, <2>4 DEF ProtoInv
\* The protocol has a connection and the io thread is not in it.
<1>2. ASSUME ioPc' = "idle", protocol' \in {"attached", "playing"}, ~retryProto',
             protocol' = "playing" => ~connecting',
             protocol' = "attached" => Protos' + One(connecting') <= 1,
             NoneBehindClose(tasks')
      PROVE  ProtoInv'
  BY <1>2 DEF ProtoInv
\* The player plays on.
<1>p. ASSUME protocol = "playing", protocol' = "playing", ioPc' # "idle" => BadPackets # {},
             connecting' = connecting, retryProto' = retryProto, NoneBehindClose(tasks')
      PROVE  ProtoInv'
  BY <1>a, <1>p DEF ProtoInv
<1>3. ASSUME NEW q \in Seq(TaskRecs), NoneBehindClose(q), tasks' = q \/ CloseConnection(q)
      PROVE  NoneBehindClose(tasks') /\ Protos' = Count(q, ProtoT)
  BY <1>3, CloseHolds, CloseBehind DEF Protos
<1>4. ASSUME NEW q, CloseConnection(q) \/ connState' = connState
      PROVE  connState # "OPEN" => connState' # "OPEN"
  BY <1>4 DEF CloseConnection
<1>5. tasks' = tasks \/ CloseConnection(tasks) =>
        NoneBehindClose(tasks') /\ Protos' = Protos
  BY <1>3, <1>b DEF Protos
<1>6. ASSUME protocol' = protocol, ioPc' = ioPc, inUse' = inUse, miscounted' = miscounted,
             UNCHANGED retryVars,
             CloseConnection(tasks) \/ (UNCHANGED connState /\ tasks' = tasks)
      PROVE  ProtoInv'
  <2>1. Protos' <= Protos /\ NoneBehindClose(tasks')
    BY <1>5, <1>6, <1>d
  <2>2. connState # "OPEN" => connState' # "OPEN"
    BY <1>4, <1>6
  <2> QED BY <1>1, <1>6, <2>1, <2>2
<1>7. ASSUME NEW q \in Seq(TaskRecs), NoneBehindClose(q), NEW x \in Messages
      PROVE  /\ <<Released(x)>> \o q \in Seq(TaskRecs)
             /\ NoneBehindClose(<<Released(x)>> \o q)
             /\ Count(<<Released(x)>> \o q, ProtoT) = Count(q, ProtoT)
  <2> DEFINE t == Released(x)
  <2>1. t \in TaskRecs /\ t.k # "close"
    BY QueueParts
  <2> HIDE DEF t
  <2>2. NoneBehindClose(<<t>> \o q)
    BY <1>7, <2>1, BehindCloseKept
  <2> QED BY <1>7, <2>2, PushHolds DEF t
\* A message is freed: its release goes in front of the tasks.
<1>8. ASSUME NEW x \in Messages, protocol' = protocol, ioPc' = ioPc, inUse' = inUse,
             miscounted' = miscounted, UNCHANGED retryVars, UNCHANGED connState, tasks' = <<Released(x)>> \o tasks
      PROVE  ProtoInv'
  <2>1. NoneBehindClose(tasks') /\ Protos' = Protos
    BY <1>7, <1>8, <1>b DEF Protos
  <2> QED BY <1>1, <1>8, <1>d, <2>1
\* The network, the clock and the io thread.
<1>9. CASE Client \/ ReadTimerFires \/ WriteTimerFires \/ \E m \in Messages : Ages(m)
  <2>1. UNCHANGED clockOther
    BY <1>9 DEF Client, ReadEnds, WriteEnds, ReadTimerFires, WriteTimerFires, Ages
  <2> QED BY <1>6, <2>1
<1>10. CASE ReadFails \/ NoSuchProtocol
  <2>1. CloseConnection(tasks) /\ protocol' = protocol /\ ioPc' = ioPc /\ UNCHANGED readOther
    BY <1>10 DEF ReadFails, NoSuchProtocol
  <2> QED BY <1>6, <2>1
<1>11. CASE ParseHeader
  <2>1. /\ connState' = connState /\ tasks' = tasks /\ protocol' = protocol /\ ioPc' = ioPc
        /\ UNCHANGED readOther
    BY <1>11 DEF ParseHeader
  <2> QED BY <1>6, <2>1
<1>12. CASE OnWrite \/ OnTimeout
  <2>1. /\ CloseConnection(tasks) \/ (UNCHANGED connState /\ tasks' = tasks)
        /\ protocol' = protocol /\ ioPc' = ioPc /\ UNCHANGED ioOther
    BY <1>12 DEF OnWrite, OnTimeout
  <2> QED BY <1>6, <2>1
<1>13. CASE OnStop
  <2>1. /\ connState' = connState /\ tasks' = tasks /\ protocol' = protocol /\ ioPc' = ioPc
        /\ UNCHANGED refVars /\ UNCHANGED retryVars
    BY <1>13 DEF OnStop
  <2> QED BY <1>6, <2>1
<1>14. CASE DropMessage
  <2>1. /\ Runs("drop") /\ tasks' = <<Released(Now.what)>> \o tasks /\ UNCHANGED connVars
        /\ protocol' = protocol /\ ioPc' = ioPc /\ UNCHANGED refVars /\ UNCHANGED retryVars
    BY <1>14 DEF DropMessage
  <2>2. Now.what \in Messages
    BY <2>1, QueueHeads, DropType DEF Types
  <2> QED BY <1>8, <2>1, <2>2
\* An open connection: its protocol has not been released, and no close is queued.
<1>15. ASSUME connState = "OPEN", Attach
       PROVE  protocol' \in {"attached", "playing"} /\ ~retryProto /\ Closes = 0
  BY <1>a, <1>c, <1>15 DEF Attach, ProtoInv, ConnInv, CloseInv, One
<1>16. CASE ParsePacket
  <2>1. /\ connState = "OPEN" /\ Attach /\ ioPc = "idle" /\ ioPc' = "idle"
        /\ UNCHANGED readOther
        /\ \/ protocol # "none" /\ tasks' = tasks
           \/ protocol # "attached" /\ tasks' = Append(tasks, Task("protocol", NoMsg))
           \/ protocol = "none" /\ CloseConnection(tasks)
    BY <1>16 DEF ParsePacket, ReadSucceeds, Runs
  <2>2. protocol' \in {"attached", "playing"} /\ ~retryProto' /\ Closes = 0
    BY <1>15, <2>1
  <2>3. /\ protocol \in {"none", "attached", "playing"} /\ connecting' = connecting
        /\ protocol' = IF protocol = "none" THEN "attached" ELSE protocol
    BY <2>1, <2>2 DEF Attach
  <2>4. CASE tasks' = tasks \/ CloseConnection(tasks)
    <3>1. NoneBehindClose(tasks') /\ Protos' = Protos
      BY <1>5, <2>4
    <3>2. protocol' = "attached" => Protos' + One(connecting') <= 1
      BY <1>a, <2>3, <3>1 DEF ProtoInv, One
    <3>3. protocol' = "playing" => ~connecting'
      BY <1>a, <2>3 DEF ProtoInv
    <3> QED BY <1>2, <2>1, <2>2, <3>1, <3>2, <3>3
  <2>5. CASE protocol # "attached" /\ tasks' = Append(tasks, Task("protocol", NoMsg))
    <3> DEFINE t == Task("protocol", NoMsg)
    <3>1. t \in TaskRecs /\ t.k = "protocol"
      BY DEF TaskRecs, Task
    <3>2. NoneBehindClose(tasks')
      BY <1>b, <2>2, <2>5, <3>1, BehindCloseKept DEF Closes
    <3> HIDE DEF t
    <3>3. Count(Append(tasks, t), ProtoT) = Protos + One(t \in ProtoT)
      BY <1>b, <3>1, CountAppend DEF Protos
    <3>4. One(t \in ProtoT) = 1
      BY <3>1 DEF ProtoT, One
    <3>5. Protos' = Protos + 1
      BY <2>5, <3>3, <3>4 DEF Protos, t
    <3>6. protocol' = "attached" => Protos' + One(connecting') <= 1
      BY <1>a, <2>3, <2>5, <3>5 DEF ProtoInv, One
    <3>7. protocol' = "playing" => ~connecting'
      BY <1>a, <2>3 DEF ProtoInv
    <3> QED BY <1>2, <2>1, <2>2, <3>2, <3>6, <3>7
  <2> QED BY <2>1, <2>4, <2>5
<1>17. CASE ParseRefusedPacket
  <2>1. /\ Attach /\ ioPc' = "parsing" /\ UNCHANGED readOther
        /\ tasks' = tasks /\ connState' = connState
        /\ protocol = "none" \/ (BadPackets # {} /\ protocol = "playing")
    BY <1>17 DEF ParseRefusedPacket
  <2>2. NoneBehindClose(tasks') /\ Protos' = Protos
    BY <1>5, <2>1
  <2>3. CASE protocol = "none"
    <3>1. inUse' = {} /\ Protos' = 0 /\ ~connecting' /\ ~retryProto' /\ protocol' = "attached"
      BY <1>a, <2>1, <2>2, <2>3 DEF ProtoInv, Attach
    <3> QED BY <2>1, <2>2, <3>1 DEF ProtoInv, One
  <2>4. CASE BadPackets # {} /\ protocol = "playing"
    <3>1. protocol' = "playing"
      BY <2>1, <2>4 DEF Attach
    <3> QED BY <1>p, <2>1, <2>2, <2>4, <3>1
  <2> QED BY <2>1, <2>3, <2>4
<1>18. CASE DisconnectClient
  <2>1. /\ ioPc = "parsing" /\ protocol' = protocol /\ UNCHANGED retryVars
        /\ CloseConnection(tasks)
        /\ ioPc' = "idle" \/ (ioPc' = "kicking" /\ protocol = "playing")
    BY <1>18 DEF DisconnectClient, ReadOn, Kicks
  <2>2. NoneBehindClose(tasks') /\ Protos' = Protos
    BY <1>5, <2>1
  <2>3. CASE protocol = "attached"
    BY <1>2, <1>a, <2>1, <2>2, <2>3 DEF ProtoInv
  <2>4. CASE protocol = "playing" /\ BadPackets # {}
    BY <1>p, <2>1, <2>2, <2>4
  <2> QED BY <1>a, <2>1, <2>3, <2>4 DEF ProtoInv
<1>33. CASE ParseOverrun
  <2>1. /\ protocol = "playing" /\ BadPackets # {} /\ protocol' = protocol
        /\ CloseConnection(tasks) /\ UNCHANGED readOther
    BY <1>33 DEF ParseOverrun
  <2> QED BY <1>5, <1>p, <2>1
<1>34. CASE KickPlayer
  <2>1. ioPc = "kicking" /\ protocol' = protocol /\ tasks' = tasks /\ UNCHANGED retryVars
    BY <1>34 DEF KickPlayer
  <2>2. protocol = "playing" /\ BadPackets # {}
    BY <1>a, <2>1 DEF ProtoInv
  <2> QED BY <1>5, <1>p, <2>1, <2>2
\* The dispatcher.
<1>19. CASE CloseConnectionTask
  <2>1. /\ ioPc = "idle" /\ ioPc' = "idle" /\ tasks # <<>> /\ Head(tasks).k = "close"
        /\ tasks' = Tail(tasks) /\ connecting' = connecting /\ UNCHANGED refVars
    BY <1>19 DEF CloseConnectionTask, Takes
  <2>2. Protos' = 0 /\ NoneBehindClose(tasks')
    BY <1>b, <2>1, BehindCloseKept DEF Protos
  <2>3. CASE protocol' = protocol /\ retryProto' = retryProto
    <3>1. connState # "OPEN" => connState' # "OPEN"
      BY <1>19 DEF CloseConnectionTask
    <3>2. Protos' <= Protos
      BY <1>d, <2>2
    <3> QED BY <1>1, <2>1, <2>2, <2>3, <3>1, <3>2
  <2>4. CASE Attached /\ ReleaseProtocol
    <3>1. connState' # "OPEN"
      <4>1. Closes # 0
        BY <1>b, <2>1, ClosesInFront
      <4>2. connState = "REQUEST_CLOSE"
        BY <4>1 DEF ConnInv, CloseInv, One
      <4> QED BY <1>19, <4>2 DEF CloseConnectionTask
    <3>2. \/ protocol' = "detached" /\ retryProto'
          \/ /\ protocol' = "deleted" /\ ~retryProto' /\ (~miscounted => inUse = {})
             /\ ~connecting
      BY <1>a, <1>e, <2>4, FreeProtocol
    <3>3. inUse' = inUse /\ miscounted' = miscounted
      BY <2>1
    <3> QED BY <1>d, <2>1, <2>2, <3>1, <3>2, <3>3 DEF ProtoInv
  <2> QED BY <1>19, <2>3, <2>4 DEF CloseConnectionTask
<1>20. CASE RetryReleaseProtocol
  <2>1. /\ retryProto /\ ReleaseProtocol /\ ioPc' = ioPc /\ tasks' = tasks
        /\ connecting' = connecting /\ UNCHANGED connVars /\ UNCHANGED refVars
    BY <1>20 DEF RetryReleaseProtocol
  <2>2. protocol = "detached" /\ ioPc = "idle" /\ connState # "OPEN" /\ Protos = 0
    BY <1>a, <1>c, <2>1 DEF ProtoInv
  <2>3. \/ protocol' = "detached" /\ retryProto'
        \/ /\ protocol' = "deleted" /\ ~retryProto' /\ (~miscounted => inUse = {})
           /\ ~connecting
    BY <1>a, <1>e, <2>1, FreeProtocol
  <2>4. Protos' = 0 /\ NoneBehindClose(tasks')
    BY <1>5, <2>1, <2>2
  <2> QED BY <1>d, <2>1, <2>2, <2>3, <2>4 DEF ProtoInv
<1>21. CASE RetryReleaseConnection
  <2>1. /\ tasks' = tasks /\ UNCHANGED connVars /\ UNCHANGED refVars /\ protocol' = protocol
        /\ ioPc' = ioPc /\ retryProto' = retryProto /\ connecting' = connecting
    BY <1>21 DEF RetryReleaseConnection
  <2>2. NoneBehindClose(tasks') /\ Protos' <= Protos
    BY <1>5, <1>d, <2>1
  <2> QED BY <1>1, <2>1, <2>2
<1>22. CASE UnRef
  <2>1. /\ tasks' = tasks /\ UNCHANGED connVars /\ inUse' = inUse /\ protocol' = protocol
        /\ ioPc' = ioPc /\ UNCHANGED retryVars /\ miscounted' = miscounted
    BY <1>22 DEF UnRef
  <2> QED BY <1>6, <2>1
<1>23. CASE InternalReleaseMessage
  <2>1. /\ dispPc = "unref" /\ tasks' = Tail(tasks) /\ UNCHANGED connVars
        /\ (inUse = {} => inUse' = {}) /\ protocol' = protocol /\ ioPc' = ioPc
        /\ (miscounted => miscounted') /\ UNCHANGED retryVars
    BY <1>23 DEF InternalReleaseMessage
  <2>2. tasks # <<>> /\ Head(tasks).k = "release"
    BY <2>1, HeadTailProperties DEF Types, Queues, ReleaseInFront
  <2>3. NoneBehindClose(tasks')
    BY <1>b, <2>1, <2>2, BehindCloseKept
  <2>4. Protos' = Protos
    <3>1. Count(Tail(tasks), ProtoT) = Protos - One(Head(tasks).k = "protocol")
      BY <2>2, HeadsHold
    <3>2. One(Head(tasks).k = "protocol") = 0
      BY <2>2 DEF One
    <3> QED BY <1>d, <2>1, <3>1, <3>2 DEF Protos
  <2>5. Protos' <= Protos
    BY <1>d, <2>4
  <2> QED BY <1>1, <2>1, <2>3, <2>5
\* A task on a protocol that has its connection.
<1>24. ASSUME NEW q \in Seq(TaskRecs), NoneBehindClose(q),
              Write(q) \/ DoNothing(q) \/ Disconnect(q) \/ Refuse(q)
       PROVE  NoneBehindClose(tasks') /\ Protos' = Count(q, ProtoT)
  <2>1. CASE tasks' = q \/ CloseConnection(q)
    BY <1>3, <1>24, <2>1
  <2>2. CASE \E m \in Messages : CloseConnection(<<Released(m)>> \o q)
    <3>1. PICK m \in Messages : CloseConnection(<<Released(m)>> \o q)
      BY <2>2
    <3> DEFINE w == <<Released(m)>> \o q
    <3>2. w \in Seq(TaskRecs) /\ NoneBehindClose(w) /\ Count(w, ProtoT) = Count(q, ProtoT)
      BY <1>7, <1>24
    <3>3. CloseConnection(w)
      BY <3>1
    <3> HIDE DEF w
    <3> QED BY <1>3, <3>2, <3>3
  <2> QED BY <1>24, <2>1, <2>2 DEF Write, DoNothing, Disconnect, Refuse
<1>25. ASSUME Takes("protocol")
       PROVE  /\ Tail(tasks) \in Seq(TaskRecs) /\ NoneBehindClose(Tail(tasks))
              /\ Count(Tail(tasks), ProtoT) = Protos - 1 /\ Protos # 0
  <2>1. tasks # <<>> /\ Head(tasks).k = "protocol"
    BY <1>25 DEF Takes
  <2>2. Tail(tasks) \in Seq(TaskRecs) /\ NoneBehindClose(Tail(tasks))
    BY <1>b, <2>1, HeadTailProperties, BehindCloseKept
  <2>3. Count(Tail(tasks), ProtoT) = Protos - One(Head(tasks).k = "protocol")
    BY <2>1, HeadsHold
  <2>4. One(Head(tasks).k = "protocol") = 1 /\ Count(Tail(tasks), ProtoT) \in Nat
    BY <2>1, <2>2, HitsFinite DEF One
  <2> QED BY <1>d, <2>2, <2>3, <2>4
\* A task that finds the player in the game.
<1>26. ASSUME NEW q \in Seq(TaskRecs), NoneBehindClose(q), UNCHANGED taskOther,
              Write(q) \/ DoNothing(q) \/ Disconnect(q) \/ Refuse(q),
              protocol = "playing", protocol' = "playing", UNCHANGED retryVars
       PROVE  ProtoInv'
  <2>1. NoneBehindClose(tasks') /\ ioPc' = ioPc
    BY <1>24, <1>26
  <2>2. ioPc' # "idle" => BadPackets # {}
    BY <1>26, <1>a, <2>1 DEF ProtoInv
  <2> QED BY <1>26, <1>p, <2>1, <2>2
<1>27. CASE GameTask
  <2>1. /\ UNCHANGED taskOther /\ protocol' = protocol /\ UNCHANGED retryVars
        /\ \/ DoNothing(tasks)
           \/ protocol = "playing" /\ (Write(tasks) \/ Disconnect(tasks))
    BY <1>27 DEF GameTask
  <2>2. CASE DoNothing(tasks)
    BY <1>6, <2>1, <2>2 DEF DoNothing
  <2>3. CASE protocol = "playing" /\ (Write(tasks) \/ Disconnect(tasks))
    BY <1>26, <1>b, <2>1, <2>3
  <2> QED BY <2>1, <2>2, <2>3
<1>28. CASE Logout
  <2>1. /\ UNCHANGED taskOther /\ Takes("protocol") /\ UNCHANGED retryVars
        /\ protocol = "playing" /\ protocol' = protocol
        /\ Write(Tail(tasks)) \/ DoNothing(Tail(tasks)) \/ Disconnect(Tail(tasks))
    BY <1>28 DEF Logout
  <2> QED BY <1>25, <1>26, <2>1
\* The io thread is idle while a login or a connect is on the way.
<1>35. ASSUME protocol = "attached", Protos # 0 \/ connecting PROVE ioPc = "idle"
  BY <1>35, <1>a DEF ProtoInv
<1>36. CASE Login
  <2> DEFINE q == Tail(tasks)
  <2>1. /\ UNCHANGED taskOther /\ Takes("protocol") /\ retryProto' = retryProto
        /\ protocol = "attached" /\ protocol' \in {"attached", "playing"}
        /\ Write(q) \/ DoNothing(q) \/ Refuse(q)
        /\ \/ connecting' = connecting
           \/ connecting' /\ protocol' = "attached"
    BY <1>36 DEF Login, EntersGame
  <2>2. /\ q \in Seq(TaskRecs) /\ NoneBehindClose(q) /\ Count(q, ProtoT) = Protos - 1
        /\ Protos # 0
    BY <1>25, <2>1
  <2> HIDE DEF q
  <2>3. NoneBehindClose(tasks') /\ Protos' = Protos - 1
    BY <1>24, <2>1, <2>2
  <2>4. Protos = 1 /\ ~connecting
    BY <1>a, <1>d, <2>1, <2>2 DEF ProtoInv, One
  <2>5. ioPc' = "idle" /\ ~retryProto'
    BY <1>35, <1>a, <2>1, <2>2 DEF ProtoInv
  <2>6. Protos' + One(connecting') <= 1
    BY <2>3, <2>4 DEF One
  <2> QED BY <1>2, <2>1, <2>3, <2>4, <2>5, <2>6
<1>29. CASE Connect
  <2>1. /\ UNCHANGED taskOther /\ connecting /\ ~connecting' /\ retryProto' = retryProto
    BY <1>29 DEF Connect
  <2>2. CASE protocol = "attached" /\ EntersGame(tasks)
    <3>1. protocol' \in {"attached", "playing"} /\ (Write(tasks) \/ Refuse(tasks))
      BY <2>2 DEF EntersGame
    <3>2. NoneBehindClose(tasks') /\ Protos' = Protos
      BY <1>24, <1>b, <3>1 DEF Protos
    <3>3. ioPc' = "idle" /\ ~retryProto'
      BY <1>35, <1>a, <2>1, <2>2 DEF ProtoInv
    <3>4. Protos' + One(connecting') <= 1
      BY <1>a, <1>d, <2>1, <2>2, <3>2 DEF ProtoInv, One
    <3> QED BY <1>2, <2>1, <3>1, <3>2, <3>3, <3>4
  <2>3. CASE DoNothing(tasks) /\ protocol' = protocol
    <3>1. tasks' = tasks /\ connState' = connState /\ UNCHANGED noSend
      BY <2>3 DEF DoNothing
    <3>2. NoneBehindClose(tasks') /\ Protos' <= Protos
      BY <1>5, <1>d, <3>1
    <3> QED BY <1>1, <2>1, <2>3, <3>1, <3>2
  <2> QED BY <1>29, <2>2, <2>3 DEF Connect
\* The sweep.
<1>30. CASE SweepBegins \/ SweepKeeps \/ SweepEnds \/ SweepRequeues \/ SweepSends
  <2>1. tasks' = tasks /\ UNCHANGED sweepOther
    BY <1>30 DEF SweepBegins, SweepKeeps, SweepEnds, SweepRequeues, SweepSends, TakeUp
  <2> QED BY <1>6, <2>1
<1>31. CASE SweepDrops
  <2>1. /\ dispPc = "sweep" /\ sweepAt = 0 /\ tasks' = <<Released(Head(toAdd))>> \o tasks
        /\ UNCHANGED sweepOther
    BY <1>31 DEF SweepDrops, TakeUp
  <2>2. Head(toAdd) \in Messages
    BY <2>1, HeadTailProperties DEF Types, Pool
  <2> QED BY <1>8, <2>1, <2>2
<1>32. CASE SweepFrees
  <2>1. /\ sweepAt \in 1..Len(autoSend) /\ tasks' = <<Released(autoSend[sweepAt])>> \o tasks
        /\ UNCHANGED sweepOther
    BY <1>32 DEF SweepFrees, Sweeping
  <2>2. autoSend[sweepAt] \in Messages
    BY <2>1, ElementOfSeq DEF Types, Pool
  <2> QED BY <1>8, <2>1, <2>2
<1> QED
  BY <1>9, <1>10, <1>11, <1>12, <1>13, <1>14, <1>16, <1>17, <1>18, <1>19, <1>20, <1>21, <1>22,
     <1>23, <1>27, <1>28, <1>29, <1>30, <1>31, <1>32, <1>33, <1>34, <1>36
     DEF Next, Client, Io, Queued, Sweep

-----------------------------------------------------------------------------
(* The counts.                                                              *)

LEMMA CountStep == Types /\ ConnInv /\ MsgInv /\ Next => CountInv'
<1> SUFFICES ASSUME Types, ConnInv, MsgInv, Next PROVE CountInv'
  OBVIOUS
<1> USE SameVars, SameClock, SameIo, SameTask, SameSweep
<1>a. HeldInv /\ RefInv /\ ProtoInv /\ CountInv
  BY DEF MsgInv
<1>b. connecting \in BOOLEAN /\ raced \in BOOLEAN /\ miscounted \in BOOLEAN
  BY DEF Types, Scalars
<1> DEFINE Plays == BadPackets # {} /\ protocol \notin {"none", "attached"} /\ ~connecting
           Counts == raced' \/ miscounted' => raced \/ miscounted
           Overlaps == ioPc # "idle" /\ dispPc = "unref"
\* Only the io thread meets a release that is under way, and then its player plays.
<1>1. Overlaps => Plays
  <2>1. SUFFICES ASSUME Overlaps PROVE Plays
    OBVIOUS
  <2>2. inUse # {}
    BY <1>a, <2>1, NothingIsReleased
  <2> QED BY <1>a, <2>1, <2>2 DEF ProtoInv
\* Nobody who plays goes back to a login.
<1>2. ASSUME protocol' = protocol, connecting' = connecting PROVE Plays => Plays'
  BY <1>2
<1>3. ASSUME Counts \/ Overlaps, Plays => Plays' PROVE CountInv'
  BY <1>1, <1>3, <1>a DEF CountInv
<1>4. UNCHANGED refVars => Counts
  OBVIOUS
<1>5. ASSUME NEW m, Allocate(m) PROVE Counts \/ dispPc = "unref"
  BY <1>5 DEF Allocate
<1>6. CASE Client \/ ReadTimerFires \/ WriteTimerFires \/ \E m \in Messages : Ages(m)
  <2>1. UNCHANGED clockOther
    BY <1>6 DEF Client, ReadEnds, WriteEnds, ReadTimerFires, WriteTimerFires, Ages
  <2> QED BY <1>2, <1>3, <1>4, <2>1
<1>7. CASE ReadFails \/ ParseHeader \/ NoSuchProtocol \/ ParseOverrun
  <2>1. UNCHANGED readOther /\ protocol' = protocol
    BY <1>7 DEF ReadFails, ParseHeader, NoSuchProtocol, ParseOverrun
  <2> QED BY <1>2, <1>3, <1>4, <2>1
<1>8. CASE ParsePacket \/ ParseRefusedPacket
  <2>1. UNCHANGED readOther /\ Attach
    BY <1>8 DEF ParsePacket, ParseRefusedPacket
  <2>2. Plays => Plays'
    BY <2>1 DEF Attach
  <2> QED BY <1>3, <1>4, <2>1, <2>2
<1>9. CASE DisconnectClient
  <2>1. /\ ioPc = "parsing" /\ protocol' = protocol /\ UNCHANGED retryVars
        /\ \E m \in Messages : Allocate(m)
    BY <1>9 DEF DisconnectClient
  <2> QED BY <1>2, <1>3, <1>5, <2>1
<1>10. CASE KickPlayer
  <2>1. /\ ioPc = "kicking" /\ protocol' = protocol /\ UNCHANGED retryVars
        /\ \E m \in Messages : Allocate(m)
    BY <1>10 DEF KickPlayer
  <2> QED BY <1>2, <1>3, <1>5, <2>1
<1>11. CASE OnWrite \/ OnTimeout
  <2>1. UNCHANGED ioOther /\ protocol' = protocol
    BY <1>11 DEF OnWrite, OnTimeout
  <2> QED BY <1>2, <1>3, <1>4, <2>1
<1>12. CASE DropMessage \/ OnStop
  <2>1. UNCHANGED refVars /\ protocol' = protocol /\ UNCHANGED retryVars
    BY <1>12 DEF DropMessage, OnStop
  <2> QED BY <1>2, <1>3, <1>4, <2>1
<1>13. CASE CloseConnectionTask \/ RetryReleaseProtocol
  <2>1. UNCHANGED refVars /\ connecting' = connecting
    BY <1>13 DEF CloseConnectionTask, RetryReleaseProtocol
  <2>2. protocol' = protocol \/ ReleaseProtocol
    BY <1>13 DEF CloseConnectionTask, RetryReleaseProtocol
  <2>3. Plays => Plays'
    BY <2>1, <2>2 DEF ReleaseProtocol
  <2> QED BY <1>3, <1>4, <2>1, <2>3
<1>14. CASE RetryReleaseConnection
  <2>1. UNCHANGED refVars /\ protocol' = protocol /\ connecting' = connecting
    BY <1>14 DEF RetryReleaseConnection
  <2> QED BY <1>2, <1>3, <1>4, <2>1
<1>15. CASE UnRef
  <2>1. /\ ~raced' /\ miscounted' = miscounted /\ protocol' = protocol
        /\ UNCHANGED retryVars
    BY <1>15 DEF UnRef
  <2> QED BY <1>2, <1>3, <2>1
<1>16. CASE InternalReleaseMessage
  <2>1. ~raced' /\ protocol' = protocol /\ UNCHANGED retryVars
    BY <1>16 DEF InternalReleaseMessage
  <2>2. miscounted' => raced \/ miscounted
    BY <1>16 DEF InternalReleaseMessage, Lost
  <2> QED BY <1>2, <1>3, <2>1, <2>2
\* The dispatcher takes a message when it is not returning one.
<1>17. ASSUME NEW q, dispPc = "idle", Write(q) \/ DoNothing(q) \/ Disconnect(q) \/ Refuse(q)
       PROVE  Counts
  <2>1. UNCHANGED refVars \/ \E m \in Messages : Allocate(m)
    BY <1>17 DEF Write, DoNothing, Disconnect, Refuse, GetOutputBuffer
  <2> QED BY <1>4, <1>5, <1>17, <2>1
<1>18. CASE GameTask \/ Logout
  <2>1. protocol' = protocol /\ UNCHANGED retryVars /\ dispPc = "idle"
    BY <1>18 DEF GameTask, Logout, Runnable
  <2>2. \E q : Write(q) \/ DoNothing(q) \/ Disconnect(q)
    BY <1>18 DEF GameTask, Logout
  <2> QED BY <1>2, <1>3, <1>17, <2>1, <2>2
<1>19. CASE Login \/ Connect
  <2>1. ~Plays /\ dispPc = "idle"
    BY <1>19 DEF Login, Connect, Runnable
  <2>2. \E q : Write(q) \/ DoNothing(q) \/ Refuse(q)
    BY <1>19 DEF Login, Connect, EntersGame
  <2>3. Counts
    BY <1>17, <2>1, <2>2
  <2> QED BY <1>3, <2>1, <2>3
<1>20. CASE Sweep
  <2>1. UNCHANGED sweepOther
    BY <1>20 DEF Sweep, SweepBegins, SweepRequeues, SweepDrops, TakeUp, SweepKeeps, SweepFrees,
              SweepSends, SweepEnds
  <2> QED BY <1>2, <1>3, <1>4, <2>1
<1> QED
  BY <1>6, <1>7, <1>8, <1>9, <1>10, <1>11, <1>12, <1>13, <1>14, <1>15, <1>16, <1>18, <1>19, <1>20
     DEF Next, Io, Queued

-----------------------------------------------------------------------------
(* The theorems.                                                            *)

LEMMA MsgInitially == Init => MsgInv
<1> SUFFICES ASSUME Init PROVE MsgInv
  OBVIOUS
<1>1. /\ inUse = {} /\ refCount = 0 /\ protoRefs = 0 /\ outBuf = NoMsg
      /\ raced = FALSE /\ miscounted = FALSE
      /\ writing = NoMsg /\ ioQueue = <<>> /\ tasks = <<>> /\ autoSend = <<>> /\ toAdd = <<>>
      /\ connecting = FALSE /\ retryProto = FALSE /\ protocol = "none" /\ ioPc = "idle"
  BY DEF Init
<1>2. \A S : Count(<<>>, S) = 0
  BY CountEmpty
<1>3. HeldInv
  <2>1. \A m : Listed(m) = 0 /\ InHandlers(m) = 0 /\ InTasks(m) = 0
    BY <1>1, <1>2 DEF Listed, InHandlers, InTasks
  <2>2. \A m \in Messages : One(writing = m) = 0 /\ One(m \in inUse) = 0
    BY <1>1, ConnectionAssumption DEF One
  <2> QED BY <2>1, <2>2 DEF HeldInv, Held
<1>4. RefInv
  BY <1>1, FS_EmptySet DEF RefInv
<1>5. ProtoInv
  BY <1>1, <1>2 DEF ProtoInv, NoneBehindClose, Protos
<1>6. CountInv
  BY <1>1 DEF CountInv
<1> QED BY <1>3, <1>4, <1>5, <1>6 DEF MsgInv

LEMMA MsgStutters == MsgInv /\ UNCHANGED vars => MsgInv'
<1> SUFFICES ASSUME MsgInv, UNCHANGED vars PROVE MsgInv'
  OBVIOUS
<1>1. /\ UNCHANGED connVars /\ UNCHANGED refVars /\ UNCHANGED opVars /\ UNCHANGED ioPc
      /\ UNCHANGED tasks /\ UNCHANGED retryVars /\ UNCHANGED poolVars /\ UNCHANGED protocol
  BY DEF vars
<1>2. \A m : Listed(m)' = Listed(m) /\ InHandlers(m)' = InHandlers(m) /\ InTasks(m)' = InTasks(m)
  BY <1>1, SameVars DEF Listed, InHandlers, InTasks
<1>3. HeldInv'
  BY <1>1, <1>2, SameVars DEF MsgInv, HeldInv, Held
<1>4. RefInv'
  BY <1>1, SameVars DEF MsgInv, RefInv, Listed
<1>5. ProtoInv'
  BY <1>1, SameVars DEF MsgInv, ProtoInv, Protos
<1>6. CountInv'
  BY <1>1, SameVars DEF MsgInv, CountInv
<1> QED BY <1>3, <1>4, <1>5, <1>6 DEF MsgInv

\* The inductive invariant of the references, whatever packets the client may send.
THEOREM ReferenceInvariant == Spec => [](Types /\ ConnInv /\ MsgInv)
<1>1. Types /\ ConnInv /\ MsgInv /\ [Next]_vars => (Types /\ ConnInv /\ MsgInv)'
  <2>1. Types /\ ConnInv /\ MsgInv /\ Next => MsgInv'
    BY MsgStep, ProtoStep, CountStep DEF MsgInv
  <2> QED BY <2>1, TypesStep, ConnStep, ConnStutters, MsgStutters
<1>2. Init => Types /\ ConnInv /\ MsgInv
  BY Initially, MsgInitially
<1> QED BY <1>1, <1>2, PTL DEF Spec

\* No update of a count of references is ever lost unless the client sends bad packets: for
\* all others it makes no difference that the two threads count without a lock.
THEOREM CountsAreExact ==
    ASSUME BadPackets = {}
    PROVE  Spec => []~miscounted
<1>1. ASSUME Types, ConnInv, MsgInv PROVE ~miscounted
  BY <1>1 DEF MsgInv, CountInv
<1> QED BY <1>1, ReferenceInvariant, PTL

\* Every variable of the connection stays in its range; no count of references, which are
\* unsigned in the code, goes below zero as long as no update of it was lost.
THEOREM ConnectionTypeSafe == Spec => []TypeOK
<1>1. ASSUME Types, ConnInv, MsgInv PROVE TypeOK
  <2>1. pendingRead \in 0..1 /\ pendingWrite \in Nat
    BY <1>1 DEF ConnInv, ReadInv, WriteInv
  <2>2. ~miscounted => refCount >= 0 /\ protoRefs >= 0
    BY <1>1, FS_CardinalityType DEF MsgInv, RefInv
  <2>3. /\ \A i \in DOMAIN ioQueue : ioQueue[i] \in Handlers
        /\ \A i \in DOMAIN tasks : tasks[i] \in TaskRecs
    BY <1>1, ElementOfSeq, LenProperties DEF Types, Queues
  <2>4. \A i \in DOMAIN ioQueue :
          ioQueue[i].h \in {"read", "write", "drop", "readTimeout", "writeTimeout", "stop"}
    BY <2>3 DEF Handlers
  <2>5. \A i \in DOMAIN tasks : tasks[i].k \in {"close", "release", "protocol"}
    BY <2>3 DEF TaskRecs
  <2>6. ToSet(autoSend) \cup ToSet(toAdd) \subseteq Messages
    BY <1>1, ElementOfSeq, LenProperties DEF Types, Pool, ToSet
  <2> QED BY <1>1, <2>1, <2>2, <2>4, <2>5, <2>6 DEF TypeOK, Types, Scalars, Pool
<1> QED BY <1>1, ReferenceInvariant, PTL

\* Each message that is out of the pool is in one list, socket, handler or task, and
\* m_refCount of the connection and of the protocol is the number of those messages, unless
\* an update of it was lost.
THEOREM ReferencesSafe == Spec => []RefsMatchMessages
<1>1. ASSUME Types, ConnInv, MsgInv PROVE RefsMatchMessages
  <2>1. /\ \A i \in DOMAIN ioQueue : ioQueue[i] \in Handlers
        /\ \A i \in DOMAIN tasks : tasks[i] \in TaskRecs
    BY <1>1, ElementOfSeq, LenProperties DEF Types, Queues
  <2>2. ASSUME NEW m \in Messages PROVE Places(m) = Held(m)
    <3>1. /\ {i \in DOMAIN autoSend : autoSend[i] = m} = Hits(autoSend, {m})
          /\ {i \in DOMAIN toAdd : toAdd[i] = m} = Hits(toAdd, {m})
      BY DEF Hits
    <3>2. {i \in HandlersOf({"write", "drop"}) : ioQueue[i].what = m} = Hits(ioQueue, MsgH(m))
      BY <2>1 DEF HandlersOf, Hits, MsgH
    <3>3. {i \in TasksOf("release") : tasks[i].m = m} = Hits(tasks, RelT(m))
      BY <2>1 DEF TasksOf, Hits, RelT
    <3>4. One(writing = m) = IF writing = m THEN 1 ELSE 0
      BY DEF One
    <3> QED BY <3>1, <3>2, <3>3, <3>4 DEF Places, Held, Listed, InHandlers, InTasks, Count
  <2> QED BY <1>1, <2>2 DEF MsgInv, RefInv, HeldInv, RefsMatchMessages, One
<1> QED BY <1>1, ReferenceInvariant, PTL

\* The protocol object is deleted after the last task and event that points to it, and after
\* the last message unless an update of its count was lost; a task that is bound to it never
\* finds it detached.
THEOREM ProtocolSafe == Spec => []ProtocolOutlivesItsUsers
<1>1. ASSUME Types, ConnInv, MsgInv PROVE ProtocolOutlivesItsUsers
  <2>1. HeldInv /\ RefInv /\ ProtoInv
    BY <1>1 DEF MsgInv
  <2>2. Protos = 0 => TasksOf("protocol") = {}
    <3>1. tasks \in Seq(TaskRecs) /\ \A i \in DOMAIN tasks : tasks[i] \in TaskRecs
      BY <1>1, ElementOfSeq, LenProperties DEF Types, Queues
    <3>2. TasksOf("protocol") = Hits(tasks, ProtoT)
      BY <3>1 DEF TasksOf, Hits, ProtoT
    <3> QED BY <3>1, <3>2, HitsFinite DEF Protos
  \* The current buffer is in a list, so it is out of the pool.
  <2>3. ASSUME inUse = {} PROVE outBuf = NoMsg
    <3>1. SUFFICES ASSUME outBuf # NoMsg PROVE FALSE
      OBVIOUS
    <3> DEFINE m == outBuf
    <3>2. m \in Messages /\ Listed(m) >= 1
      BY <1>1, <2>1, <3>1 DEF RefInv, Types, Pool
    <3>3. /\ Listed(m) \in Nat /\ InHandlers(m) \in Nat /\ InTasks(m) \in Nat
      BY <1>1, HeldAreNat
    <3>4. Listed(m) + One(writing = m) + InHandlers(m) + InTasks(m) = 0
      BY <2>1, <2>3, <3>2 DEF HeldInv, Held, One
    <3> HIDE DEF m
    <3> QED BY <3>2, <3>3, <3>4 DEF One
  <2>4. /\ protocol \in {"detached", "deleted"} => TasksOf("protocol") = {}
        /\ protocol = "deleted" => ~retryProto /\ ~connecting /\ (~miscounted => inUse = {})
    BY <2>1, <2>2 DEF ProtoInv
  <2> QED BY <2>3, <2>4 DEF ProtocolOutlivesItsUsers
<1> QED BY <1>1, ReferenceInvariant, PTL
=============================================================================
