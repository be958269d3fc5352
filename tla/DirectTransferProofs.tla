------------------------ MODULE DirectTransferProofs ------------------------
(***************************************************************************)
(* Proofs about DirectTransfer, for every chunk count, window, batching    *)
(* interval and kind of fault.                                             *)
(***************************************************************************)
EXTENDS DirectTransfer, FiniteSetTheorems, TLAPS

-----------------------------------------------------------------------------
(* Facts about the operators of the model.                                  *)

\* Every message the receiver builds is one of the protocol's.
LEMMA MessageTypes ==
    /\ Ack \in ControlMessage /\ Complete \in ControlMessage
    /\ \A h \in SUBSET Chunks : ResumeRequest(h) \in ControlMessage
    /\ \A n \in 0 .. ChunkCount : Progress(n) \in ControlMessage
    /\ \A c \in Chunks : ChunkNack(c) \in ControlMessage
BY DEF ControlMessage, Ack, Complete, ResumeRequest, Progress, ChunkNack

\* The payload of a message has the type its tag announces.
LEMMA MessagePayloads ==
    \A m \in ControlMessage :
        /\ m.type = "resume" => m.have \in SUBSET Chunks
        /\ m.type = "progress" => m.done \in 0 .. ChunkCount
        /\ m.type = "nack" => m.chunk \in Chunks
BY DEF ControlMessage

\* Sending a message keeps the control stream well formed.
LEMMA SendCtrlEffect ==
    ASSUME up \in Seq(ControlMessage), NEW m \in ControlMessage, NEW next, SendCtrl(m, next)
    PROVE  /\ up' \in Seq(ControlMessage) /\ conn' = conn
           /\ rpc' \in {next, "err"}
<1>1. Append(up, m) \in Seq(ControlMessage)
  OBVIOUS
<1>2. QED
  BY <1>1, Zenon DEF SendCtrl

LEMMA NoneIsNoChunk == None \notin Chunks
BY DEF None, Chunks

\* A set of chunks has between 0 and ChunkCount members, all of them only if
\* it is the whole file.
LEMMA ChunkSets ==
    \A S \in SUBSET Chunks :
        /\ IsFiniteSet(S) /\ Cardinality(S) \in 0 .. ChunkCount
        /\ S # Chunks => Cardinality(S) < ChunkCount
        /\ \A c \in Chunks \ S : Cardinality(S \cup {c}) = Cardinality(S) + 1
<1>1. IsFiniteSet(Chunks) /\ Cardinality(Chunks) = ChunkCount
  <2>1. 0 \in Int /\ ChunkCount - 1 \in Int
    BY ConstantsAssumption
  <2>2. QED
    BY <2>1, FS_Interval, ConstantsAssumption DEF Chunks
<1> TAKE S \in SUBSET Chunks
<1>2. IsFiniteSet(S) /\ Cardinality(S) <= ChunkCount
  BY <1>1, FS_Subset
<1>3. Cardinality(S) \in Nat
  BY <1>2, FS_CardinalityType
<1>4. S # Chunks => Cardinality(S) < ChunkCount
  <2>1. S # Chunks => Cardinality(S) # Cardinality(Chunks)
    BY <1>1, FS_Subset
  <2>2. QED
    BY <1>1, <1>2, <1>3, <2>1, ConstantsAssumption
<1>5. \A c \in Chunks \ S : Cardinality(S \cup {c}) = Cardinality(S) + 1
  BY <1>2, FS_AddElement
<1>6. QED
  BY <1>2, <1>3, <1>4, <1>5, ConstantsAssumption

-----------------------------------------------------------------------------
(* Type correctness.  TypeOK is not inductive: the two counters grow by one *)
(* per chunk and are bounded only because they are reset in time, and       *)
(* confirmed is bounded because each accepted chunk was still pending.      *)

Live == ReceiverStates \ {"err", "crashed"}

CountersInTime ==
    /\ rpc \in Live \ {"ack"} => sinceAck < AckInterval
    /\ rpc \in Live \ {"saving"} => sinceSave < SaveInterval

HeldIsPending == rpc = "write" => cur \in Chunks \ done

ConfirmedIsDone == rpc \in Receiving \ {"accept"} => confirmed = Cardinality(done)

TaskHasChunk == wst # "idle" => w \in Chunks

TypeInv == TypeOK /\ CountersInTime /\ HeldIsPending /\ ConfirmedIsDone /\ TaskHasChunk

LEMMA InitTypeInv == Init => TypeInv
<1> SUFFICES ASSUME Init PROVE TypeInv
  OBVIOUS
<1> USE ConstantsAssumption DEF Init
<1>1. attempt \in Ids /\ sid \in Ids /\ saved \in [Ids -> SUBSET Chunks]
  BY DEF DrawId, Ids
<1>2. up \in Seq(ControlMessage) /\ data \in Seq(Chunks) /\ nackQ \in Seq(Chunks) /\ Len(data) = 0
  OBVIOUS
<1>3. TypeOK
  <2>1. /\ bar \in 0 .. ChunkCount /\ confirmed \in 0 .. ChunkCount /\ faults \in 0 .. MaxFaults
        /\ sinceAck \in 0 .. AckInterval /\ sinceSave \in 0 .. SaveInterval
        /\ Len(data) <= Window
    BY <1>2
  <2>2. QED
    BY <1>1, <1>2, <2>1, Zenon DEF TypeOK, SenderStates, ReceiverStates
<1>4. CountersInTime /\ HeldIsPending /\ ConfirmedIsDone /\ TaskHasChunk
  BY DEF CountersInTime, HeldIsPending, ConfirmedIsDone, TaskHasChunk, Receiving
<1>5. QED
  BY <1>3, <1>4 DEF TypeInv

\* The actions of the sender.
LEMMA SenderKeepsTypes ==
    ASSUME TypeInv, CtrlLoop \/ SendLoop \/ Sender \/ SenderReadError
    PROVE  TypeInv'
<1> USE ConstantsAssumption
    DEF TypeInv, TypeOK, CountersInTime, HeldIsPending, ConfirmedIsDone,
        TaskHasChunk, run, link, snd, rcv, writer, store, SenderStates
<1>1. CASE CtrlProgress
  BY <1>1, MessagePayloads DEF CtrlProgress, CtrlRecv
<1>2. CASE CtrlNack
  BY <1>2, MessagePayloads DEF CtrlNack, CtrlRecv
<1>3. CASE CtrlComplete
  BY <1>3 DEF CtrlComplete, CtrlRecv
<1>4. CASE SendNext
  BY <1>4 DEF SendNext, WriteFrame
<1>5. CASE Retransmit
  BY <1>5 DEF Retransmit, WriteFrame
<1>6. CASE Drained
  BY <1>6 DEF Drained
<1>7. CASE SendManifest
  BY <1>7 DEF SendManifest
<1>8. CASE RecvReply
  <2> DEFINE skip == IF Head(up).type = "resume" THEN Head(up).have ELSE {}
  <2>1. Head(up) \in ControlMessage /\ Tail(up) \in Seq(ControlMessage)
    BY <1>8 DEF RecvReply
  <2>2. skip \in SUBSET Chunks
    BY <2>1, MessagePayloads
  <2>3. Cardinality(skip) \in 0 .. ChunkCount
    BY <2>2, ChunkSets
  <2>4. CASE Head(up).type \in {"ack", "resume"}
    <3>1. /\ spc' = "run" /\ up' = Tail(up) /\ toSend' = Chunks \ skip
          /\ pass' \in {"pass", "serve"} /\ bar' = Cardinality(skip)
          /\ UNCHANGED <<conn, offered, data, streamSeen, nackQ, ctrlDone>>
          /\ UNCHANGED <<run, rcv, writer, store>>
      BY <1>8, <2>4, Zenon DEF RecvReply
    <3>2. QED
      BY <2>1, <2>2, <2>3, <3>1
  <2>5. CASE Head(up).type \notin {"ack", "resume"}
    BY <1>8, <2>5 DEF RecvReply, SenderFails
  <2>6. QED
    BY <2>4, <2>5
<1>9. CASE SendFinish
  BY <1>9 DEF SendFinish
<1>10. CASE SenderConnError
  BY <1>10 DEF SenderConnError, SenderFails
<1>11. CASE SenderReadError
  BY <1>11 DEF SenderReadError, SenderFails, Fault
<1>12. QED
  BY <1>1, <1>2, <1>3, <1>4, <1>5, <1>6, <1>7, <1>8, <1>9, <1>10, <1>11
  DEF CtrlLoop, SendLoop, Sender

\* The actions of the receiver.
LEMMA ReceiverKeepsTypes ==
    ASSUME TypeInv, Receiver \/ ReadDamaged \/ ReadMalformed \/ DiskError \/ Crash
    PROVE  TypeInv'
<1> USE ConstantsAssumption
    DEF TypeInv, TypeOK, CountersInTime, HeldIsPending, ConfirmedIsDone,
        TaskHasChunk, run, link, snd, rcv, writer, store, Live, Receiving, ReceiverStates
<1>1. CASE Negotiate
  <2>1. \E m \in ControlMessage : SendCtrl(m, "accept")
    BY <1>1, MessageTypes DEF Negotiate
  <2>2. up' \in Seq(ControlMessage) /\ conn' = conn /\ rpc' \in {"accept", "err"}
    BY <2>1, SendCtrlEffect
  <2>3. done' \in SUBSET Chunks /\ disk' \in SUBSET Chunks
    BY <1>1 DEF Negotiate
  <2>4. QED
    BY <1>1, <2>2, <2>3 DEF Negotiate
<1>2. CASE AcceptData
  BY <1>2, ChunkSets DEF AcceptData, AfterLoop
<1>3. CASE ReadFrame
  BY <1>3 DEF ReadFrame
<1>4. CASE StartWrite
  <2>1. CASE wst = "failed"
    BY <1>4, <2>1 DEF StartWrite, ReceiverFails
  <2>2. CASE wst # "failed"
    <3>1. cur \in Chunks \ done /\ confirmed = Cardinality(done)
      BY <1>4 DEF StartWrite
    <3>2. confirmed + 1 = Cardinality(done \cup {cur}) /\ confirmed + 1 \in 0 .. ChunkCount
      BY <3>1, ChunkSets
    <3>3. /\ w' = cur /\ wst' = "spawned" /\ cur' = None /\ done' = done \cup {cur}
          /\ confirmed' = confirmed + 1 /\ sinceAck' = sinceAck + 1 /\ rpc' = "ack"
          /\ UNCHANGED <<link, sinceSave, run, snd, pool, cursor, disk, astray, store>>
      BY <1>4, <2>2, Zenon DEF StartWrite
    <3>4. sinceAck < AckInterval /\ sinceSave < SaveInterval
      BY <1>4 DEF StartWrite
    <3>5. TypeOK'
      BY <3>1, <3>2, <3>3, <3>4
    <3>6. CountersInTime' /\ HeldIsPending' /\ ConfirmedIsDone' /\ TaskHasChunk'
      BY <3>1, <3>2, <3>3, <3>4
    <3>7. QED
      BY <3>5, <3>6
  <2>3. QED
    BY <2>1, <2>2
<1>5. CASE AckAndSave
  <2>1. Append(up, Progress(confirmed)) \in Seq(ControlMessage)
    BY MessageTypes
  <2>2. CASE conn = "down" /\ (sinceAck >= AckInterval \/ done = Chunks)
    BY <1>5, <2>2 DEF AckAndSave, ReceiverFails
  <2>3. CASE ~(conn = "down" /\ (sinceAck >= AckInterval \/ done = Chunks))
    <3>1. /\ up' \in {up, Append(up, Progress(confirmed))}
          /\ sinceAck >= AckInterval => sinceAck' = 0
          /\ sinceAck' \in {0, sinceAck}
          /\ sinceSave' = sinceSave + 1
          /\ stateFiles' \in {stateFiles, stateFiles \ {sid}}
          /\ UNCHANGED <<conn, offered, data, streamSeen, done, cur, confirmed, run, snd,
                         writer, saved>>
      BY <1>5, <2>3, Zenon DEF AckAndSave
    <3>2. /\ sinceSave + 1 >= SaveInterval => rpc' = "saving"
          /\ ~(sinceSave + 1 >= SaveInterval) => rpc' \in {"read", "final"}
      BY <1>5, <2>3, Zenon DEF AckAndSave, AfterLoop
    <3>3. rpc = "ack"
      BY <1>5 DEF AckAndSave
    <3>4. sinceAck' \in 0 .. AckInterval /\ sinceAck' < AckInterval
      BY <3>1
    <3>5. /\ sinceSave' \in 0 .. SaveInterval
          /\ rpc' # "saving" => sinceSave' < SaveInterval
      BY <3>1, <3>2, <3>3
    <3>6. up' \in Seq(ControlMessage) /\ stateFiles' \subseteq Ids
      BY <2>1, <3>1
    <3>7. rpc' \in {"saving", "read", "final"}
      BY <3>2
    <3>8. TypeOK'
      BY <3>1, <3>4, <3>5, <3>6, <3>7
    <3>9. QED
      BY <3>1, <3>3, <3>4, <3>5, <3>7, <3>8
  <2>4. QED
    BY <2>2, <2>3
<1>6. CASE SaveDone
  BY <1>6 DEF SaveDone, WriteState, AfterLoop
<1>7. CASE FinalWait
  BY <1>7 DEF FinalWait, ReceiverFails
<1>8. CASE FinalSaveDone
  BY <1>8 DEF FinalSaveDone, WriteState
<1>9. CASE SendComplete
  <2>1. up' \in Seq(ControlMessage) /\ conn' = conn /\ rpc' \in {"cleanup", "err"}
    BY <1>9, MessageTypes, SendCtrlEffect DEF SendComplete
  <2>2. QED
    BY <1>9, <2>1 DEF SendComplete
<1>10. CASE Cleanup
  BY <1>10 DEF Cleanup
<1>11. CASE ReceiverConnError
  BY <1>11 DEF ReceiverConnError, ReceiverFails
<1>12. CASE ReadDamaged
  <2>1. up' \in Seq(ControlMessage) /\ conn' = conn /\ rpc' \in {"read", "err"}
    BY <1>12, MessageTypes, SendCtrlEffect DEF ReadDamaged
  <2>2. QED
    BY <1>12, <2>1 DEF ReadDamaged, Fault
<1>13. CASE ReadMalformed
  BY <1>13 DEF ReadMalformed, ReceiverFails, Fault
<1>14. CASE DiskError
  BY <1>14 DEF DiskError, ReceiverFails, Fault
<1>15. CASE Crash
  BY <1>15 DEF Crash, Fault
<1>16. QED
  BY <1>1, <1>2, <1>3, <1>4, <1>5, <1>6, <1>7, <1>8, <1>9, <1>10, <1>11,
     <1>12, <1>13, <1>14, <1>15
  DEF Receiver

\* The write task, the pool, the network and the user.
LEMMA OthersKeepTypes ==
    ASSUME TypeInv,
           \/ WriteTask \/ Pool \/ WriteError \/ (\E c \in Chunks : TailError(c))
           \/ LoseConnection \/ Retry \/ UNCHANGED vars
    PROVE  TypeInv'
<1> USE ConstantsAssumption
    DEF TypeInv, TypeOK, CountersInTime, HeldIsPending, ConfirmedIsDone,
        TaskHasChunk, run, link, snd, rcv, writer, store
<1>1. CASE Seek
  BY <1>1 DEF Seek
<1>2. CASE HandOver
  BY <1>2 DEF HandOver
<1>3. CASE WriteError
  BY <1>3 DEF WriteError, Fault
<1>4. ASSUME NEW c \in Chunks, Land(c) PROVE TypeInv'
  BY <1>4 DEF Land
<1>5. ASSUME NEW c \in Chunks, TailError(c) PROVE TypeInv'
  BY <1>5 DEF TailError, Fault
<1>6. CASE LoseConnection
  BY <1>6 DEF LoseConnection, Fault
<1>7. CASE Retry
  <2>1. attempt' \in Ids /\ sid' \in Ids
    BY <1>7 DEF Retry, DrawId, Ids
  <2>2. /\ up' \in Seq(ControlMessage) /\ data' \in Seq(Chunks) /\ nackQ' \in Seq(Chunks)
        /\ Len(data') = 0
    BY <1>7 DEF Retry
  <2>3. /\ conn' = "up" /\ offered' = FALSE /\ streamSeen' = FALSE
        /\ spc' = "offer" /\ pass' = "pass" /\ toSend' = {} /\ ctrlDone' = FALSE /\ bar' = 0
        /\ rpc' = "hello" /\ done' = {} /\ cur' = None /\ confirmed' = 0
        /\ sinceAck' = 0 /\ sinceSave' = 0
        /\ w' = None /\ wst' = "idle" /\ pool' = {} /\ cursor' = None
        /\ UNCHANGED <<faults, disk, astray, store>>
    BY <1>7 DEF Retry
  <2>4. TypeOK'
    <3>1. /\ bar' \in 0 .. ChunkCount /\ confirmed' \in 0 .. ChunkCount
          /\ sinceAck' \in 0 .. AckInterval /\ sinceSave' \in 0 .. SaveInterval
          /\ Len(data') <= Window
      BY <2>2, <2>3
    <3>2. QED
      BY <2>1, <2>2, <2>3, <3>1, Zenon DEF SenderStates, ReceiverStates
  <2>5. (CountersInTime /\ HeldIsPending /\ ConfirmedIsDone /\ TaskHasChunk)'
    BY <2>3 DEF Receiving
  <2>6. QED
    BY <2>4, <2>5
<1>8. CASE UNCHANGED vars
  BY <1>8 DEF vars
<1>9. QED
  BY <1>1, <1>2, <1>3, <1>4, <1>5, <1>6, <1>7, <1>8 DEF WriteTask, Pool

\* Every disjunct of Next keeps the types.
LEMMA NextKeepsTypes == TypeInv /\ [Next]_vars => TypeInv'
<1> SUFFICES ASSUME TypeInv, [Next]_vars PROVE TypeInv'
  OBVIOUS
<1>1. CASE CtrlLoop \/ SendLoop \/ Sender \/ SenderReadError
  BY <1>1, SenderKeepsTypes
<1>2. CASE Receiver \/ ReadDamaged \/ ReadMalformed \/ DiskError \/ Crash
  BY <1>2, ReceiverKeepsTypes
<1>3. CASE \/ WriteTask \/ Pool \/ WriteError \/ (\E c \in Chunks : TailError(c))
           \/ LoseConnection \/ Retry \/ UNCHANGED vars
  BY <1>3, OthersKeepTypes
<1>4. QED
  BY <1>1, <1>2, <1>3 DEF Next, Environment, Terminated

LEMMA TypeInvariance == Spec => []TypeInv
BY InitTypeInv, NextKeepsTypes, PTL DEF Spec

\* Type correctness: queues hold chunks and messages, the data stream never
\* exceeds its window, counters and bars never exceed the file
\* (sender.rs:106-169, receiver.rs:128-282).
THEOREM TypeCorrect == Spec => []TypeOK
BY TypeInvariance, PTL DEF TypeInv

-----------------------------------------------------------------------------
(* Queues as sets: what leaves at the head and what is appended.            *)

LEMMA AppendRange ==
    ASSUME NEW S, NEW q \in Seq(S), NEW e \in S
    PROVE  /\ Range(Append(q, e)) = Range(q) \cup {e}
           /\ IsInjective(q) /\ e \notin Range(q) => IsInjective(Append(q, e))
<1>1. /\ Len(Append(q, e)) = Len(q) + 1 /\ Len(q) \in Nat
      /\ DOMAIN q = 1 .. Len(q) /\ DOMAIN Append(q, e) = 1 .. Len(q) + 1
      /\ \A i \in 1 .. Len(q) : Append(q, e)[i] = q[i]
      /\ Append(q, e)[Len(q) + 1] = e
  OBVIOUS
<1>2. QED
  BY <1>1 DEF Range, IsInjective

LEMMA TailRange ==
    ASSUME NEW S, NEW q \in Seq(S), q # <<>>
    PROVE  /\ Range(q) = Range(Tail(q)) \cup {Head(q)}
           /\ IsInjective(q) => IsInjective(Tail(q)) /\ Head(q) \notin Range(Tail(q))
<1>1. /\ Len(q) \in Nat \ {0} /\ DOMAIN q = 1 .. Len(q) /\ DOMAIN Tail(q) = 1 .. Len(q) - 1
      /\ \A i \in 1 .. Len(q) - 1 : Tail(q)[i] = q[i + 1]
      /\ Head(q) = q[1]
  OBVIOUS
<1>2. \A i \in 2 .. Len(q) : q[i] = Tail(q)[i - 1] /\ i - 1 \in 1 .. Len(q) - 1
  BY <1>1
<1>3. Range(q) = Range(Tail(q)) \cup {Head(q)}
  <2>1. ASSUME NEW x \in Range(q) PROVE x \in Range(Tail(q)) \cup {Head(q)}
    <3>1. PICK i \in 1 .. Len(q) : x = q[i]
      BY <1>1, <2>1 DEF Range
    <3>2. i = 1 \/ i \in 2 .. Len(q)
      BY <1>1, <3>1
    <3>3. QED
      BY <1>1, <1>2, <3>1, <3>2 DEF Range
  <2>2. ASSUME NEW x \in Range(Tail(q)) \cup {Head(q)} PROVE x \in Range(q)
    BY <1>1, <2>2 DEF Range
  <2>3. QED
    BY <2>1, <2>2
<1>4. ASSUME IsInjective(q) PROVE IsInjective(Tail(q)) /\ Head(q) \notin Range(Tail(q))
  BY <1>1, <1>4 DEF Range, IsInjective
<1>5. QED
  BY <1>3, <1>4

\* The NACKs on a control stream, as a set.
LEMMA AppendNack ==
    ASSUME NEW q \in Seq(ControlMessage), NEW m \in ControlMessage
    PROVE  /\ m.type = "nack" => NackSet(Append(q, m)) = NackSet(q) \cup {m.chunk}
           /\ m.type # "nack" => NackSet(Append(q, m)) = NackSet(q)
           /\ NackOnce(q) /\ (m.type = "nack" => m.chunk \notin NackSet(q))
                => NackOnce(Append(q, m))
<1> DEFINE r == Append(q, m)
<1>1. /\ Len(r) = Len(q) + 1 /\ Len(q) \in Nat
      /\ DOMAIN q = 1 .. Len(q) /\ DOMAIN r = 1 .. Len(q) + 1
      /\ \A i \in 1 .. Len(q) : r[i] = q[i]
      /\ r[Len(q) + 1] = m
  OBVIOUS
<1> HIDE DEF r
<1>2. NacksIn(r) = NacksIn(q) \cup (IF m.type = "nack" THEN {Len(q) + 1} ELSE {})
  BY <1>1 DEF NacksIn
<1>3. \A i \in NacksIn(q) : r[i] = q[i] /\ i # Len(q) + 1
  BY <1>1 DEF NacksIn
<1>4. NackSet(r) = NackSet(q) \cup (IF m.type = "nack" THEN {m.chunk} ELSE {})
  BY <1>1, <1>2, <1>3 DEF NackSet
<1>5. NackOnce(q) /\ (m.type = "nack" => m.chunk \notin NackSet(q)) => NackOnce(r)
  BY <1>1, <1>2, <1>3 DEF NackSet, NackOnce
<1>6. QED
  BY <1>4, <1>5 DEF r

LEMMA TailNack ==
    ASSUME NEW q \in Seq(ControlMessage), q # <<>>
    PROVE  /\ Head(q).type = "nack" => NackSet(q) = NackSet(Tail(q)) \cup {Head(q).chunk}
           /\ Head(q).type # "nack" => NackSet(q) = NackSet(Tail(q))
           /\ NackOnce(q) => /\ NackOnce(Tail(q))
                             /\ Head(q).type = "nack" => Head(q).chunk \notin NackSet(Tail(q))
<1> DEFINE r == Tail(q)
<1>1. /\ Len(q) \in Nat \ {0} /\ DOMAIN q = 1 .. Len(q) /\ DOMAIN r = 1 .. Len(q) - 1
      /\ \A i \in 1 .. Len(q) - 1 : r[i] = q[i + 1]
      /\ Head(q) = q[1]
  OBVIOUS
<1> HIDE DEF r
<1>2. \A i \in NacksIn(r) : i + 1 \in NacksIn(q) /\ i \in Nat \ {0} /\ r[i] = q[i + 1]
  BY <1>1 DEF NacksIn
<1>3. \A i \in NacksIn(q) : i # 1 => i - 1 \in NacksIn(r) /\ q[i] = r[i - 1]
  BY <1>1 DEF NacksIn
<1>4. Head(q).type = "nack" <=> 1 \in NacksIn(q)
  BY <1>1 DEF NacksIn
<1>5. NackSet(r) \subseteq NackSet(q)
  BY <1>2 DEF NackSet
<1>6. Head(q).type = "nack" => NackSet(q) = NackSet(r) \cup {Head(q).chunk}
  <2> SUFFICES ASSUME Head(q).type = "nack"
               PROVE  NackSet(q) = NackSet(r) \cup {Head(q).chunk}
    OBVIOUS
  <2>1. ASSUME NEW i \in NacksIn(q) PROVE q[i].chunk \in NackSet(r) \cup {Head(q).chunk}
    BY <1>1, <1>3, <2>1 DEF NackSet
  <2>2. Head(q).chunk \in NackSet(q)
    BY <1>1, <1>4 DEF NackSet
  <2>3. QED
    BY <1>5, <2>1, <2>2 DEF NackSet
<1>7. Head(q).type # "nack" => NackSet(q) = NackSet(r)
  BY <1>3, <1>4, <1>5 DEF NackSet
<1>8. NackOnce(q) => NackOnce(r)
  <2> SUFFICES ASSUME NackOnce(q), NEW i \in NacksIn(r), NEW j \in NacksIn(r),
                      r[i].chunk = r[j].chunk
               PROVE  i = j
    BY DEF NackOnce
  <2>1. i + 1 = j + 1 /\ i \in Nat /\ j \in Nat
    BY <1>2 DEF NackOnce
  <2>2. QED
    BY <2>1
<1>9. ASSUME NackOnce(q), Head(q).type = "nack" PROVE Head(q).chunk \notin NackSet(r)
  <2> SUFFICES ASSUME NEW i \in NacksIn(r), r[i].chunk = Head(q).chunk PROVE FALSE
    BY DEF NackSet
  <2>1. i + 1 = 1 /\ i \in Nat \ {0}
    BY <1>1, <1>2, <1>4, <1>9 DEF NackOnce
  <2>2. QED
    BY <2>1
<1>10. QED
  BY <1>6, <1>7, <1>8, <1>9 DEF r

-----------------------------------------------------------------------------
(* No chunk is lost or doubled.  ChunkInOnePlace needs to know where the    *)
(* transfer stands: before the reply is read the sender has nothing of its  *)
(* own on the way, and the reply it will read matches chunks_done.          *)

Untouched == data = <<>> /\ nackQ = <<>> /\ ~streamSeen /\ ~ctrlDone

StartInv ==
    /\ spc = "offer" => ~offered /\ up = <<>>
    /\ spc \in {"offer", "reply"} => Untouched /\ rpc \in {"hello", "accept", "err", "crashed"}
    /\ rpc = "hello" => up = <<>> /\ Untouched /\ spc \in {"offer", "reply", "err"}
    /\ spc = "reply" /\ up # <<>> =>
         /\ Len(up) = 1
         /\ \/ up[1] = Ack /\ done = {}
            \/ up[1] = ResumeRequest(done)
    /\ cur # None => rpc = "write"

PlaceInv == TypeInv /\ StartInv /\ ChunkInOnePlace

LEMMA EmptyQueues ==
    /\ Range(<<>>) = {} /\ NackSet(<<>>) = {} /\ IsInjective(<<>>) /\ NackOnce(<<>>)
    /\ \A m : m.type # "nack" => NackSet(<<m>>) = {} /\ NackOnce(<<m>>)
BY DEF Range, NackSet, NacksIn, IsInjective, NackOnce

LEMMA InitPlaceInv == Init => PlaceInv
<1> SUFFICES ASSUME Init PROVE PlaceInv
  OBVIOUS
<1>1. TypeInv
  BY InitTypeInv
<1>2. StartInv
  BY DEF Init, StartInv, Untouched
<1>3. ChunkInOnePlace
  BY DEF Init, ChunkInOnePlace, NoneLost, OnePlace, NoCopy, Transferring, Receiving
<1>4. QED
  BY <1>1, <1>2, <1>3 DEF PlaceInv

LEMMA SenderKeepsPlaces ==
    ASSUME PlaceInv, TypeInv', CtrlLoop \/ SendLoop \/ Sender \/ SenderReadError
    PROVE  StartInv' /\ ChunkInOnePlace'
<1>t. /\ up \in Seq(ControlMessage) /\ data \in Seq(Chunks) /\ nackQ \in Seq(Chunks)
      /\ toSend \subseteq Chunks /\ done \subseteq Chunks /\ cur \in Chunks \cup {None}
  BY DEF PlaceInv, TypeInv, TypeOK
<1> USE DEF PlaceInv, StartInv, Untouched, ChunkInOnePlace, NoneLost, OnePlace, NoCopy,
        Transferring, Receiving, Pending, Unsent, InFlight, Nacked, Queued, Held,
        run, link, snd, rcv, writer, store
<1>1. CASE CtrlProgress
  <2>1. NackSet(up') = NackSet(up) /\ (NackOnce(up) => NackOnce(up'))
    BY <1>1, <1>t, TailNack DEF CtrlProgress, CtrlRecv
  <2>2. QED
    BY <1>1, <2>1 DEF CtrlProgress, CtrlRecv
<1>2. CASE CtrlNack
  <2> DEFINE c == Head(up).chunk
  <2>1. c \in Chunks /\ Head(up) \in ControlMessage
    BY <1>2, <1>t, MessagePayloads DEF CtrlNack, CtrlRecv
  <2>2. /\ NackSet(up) = NackSet(up') \cup {c}
        /\ NackOnce(up) => NackOnce(up') /\ c \notin NackSet(up')
    BY <1>2, <1>t, TailNack DEF CtrlNack, CtrlRecv
  <2>3. /\ Range(nackQ') = Range(nackQ) \cup {c}
        /\ IsInjective(nackQ) /\ c \notin Range(nackQ) => IsInjective(nackQ')
    BY <1>2, <1>t, <2>1, AppendRange DEF CtrlNack
  <2> HIDE DEF c
  <2>4. QED
    BY <1>2, <2>2, <2>3 DEF CtrlNack, CtrlRecv
<1>3. CASE CtrlComplete
  <2>1. NackSet(up') = NackSet(up) /\ (NackOnce(up) => NackOnce(up'))
    BY <1>3, <1>t, TailNack DEF CtrlComplete, CtrlRecv
  <2>2. QED
    BY <1>3, <2>1 DEF CtrlComplete, CtrlRecv
<1>4. CASE SendNext
  <2>1. PICK c \in toSend : WriteFrame(c) /\ toSend' = toSend \ {c}
    BY <1>4 DEF SendNext
  <2>2. /\ Range(data') = Range(data) \cup {c}
        /\ IsInjective(data) /\ c \notin Range(data) => IsInjective(data')
    BY <1>t, <2>1, AppendRange DEF WriteFrame
  <2>3. QED
    BY <1>4, <2>1, <2>2 DEF SendNext, WriteFrame
<1>5. CASE Retransmit
  <2> DEFINE c == Head(nackQ)
  <2>1. /\ c \in Chunks /\ Range(nackQ) = Range(nackQ') \cup {c}
        /\ IsInjective(nackQ) => IsInjective(nackQ') /\ c \notin Range(nackQ')
    BY <1>5, <1>t, TailRange DEF Retransmit
  <2>2. /\ Range(data') = Range(data) \cup {c}
        /\ IsInjective(data) /\ c \notin Range(data) => IsInjective(data')
    BY <1>5, <1>t, <2>1, AppendRange DEF Retransmit, WriteFrame
  <2> HIDE DEF c
  <2>3. QED
    BY <1>5, <2>1, <2>2 DEF Retransmit, WriteFrame
<1>6. CASE Drained
  BY <1>6 DEF Drained
<1>7. CASE SendManifest
  BY <1>7 DEF SendManifest
<1>8. CASE RecvReply
  <2>1. CASE Head(up).type \in {"ack", "resume"}
    <3>1. /\ Head(up) = up[1] /\ up = <<Head(up)>> /\ up' = <<>>
          /\ (IF Head(up).type = "resume" THEN Head(up).have ELSE {}) = done
      BY <1>8, <1>t, <2>1 DEF RecvReply, Ack, ResumeRequest
    <3>2. /\ spc = "reply" /\ spc' = "run" /\ toSend' = Chunks \ done
          /\ UNCHANGED <<conn, offered, data, streamSeen, nackQ, ctrlDone, run, rcv, writer, store>>
      BY <1>8, <2>1, <3>1, Zenon DEF RecvReply
    <3>3. NackSet(up) = {} /\ NackSet(up') = {} /\ NackOnce(up')
      BY <2>1, <3>1, EmptyQueues
    <3>4. QED
      BY <3>1, <3>2, <3>3
  <2>2. CASE Head(up).type \notin {"ack", "resume"}
    BY <1>8, <2>2 DEF RecvReply, SenderFails
  <2>3. QED
    BY <2>1, <2>2
<1>9. CASE SendFinish
  BY <1>9 DEF SendFinish
<1>10. CASE SenderConnError
  BY <1>10 DEF SenderConnError, SenderFails
<1>11. CASE SenderReadError
  BY <1>11 DEF SenderReadError, SenderFails, Fault
<1>12. QED
  BY <1>1, <1>2, <1>3, <1>4, <1>5, <1>6, <1>7, <1>8, <1>9, <1>10, <1>11
  DEF CtrlLoop, SendLoop, Sender

LEMMA ReceiverKeepsPlaces ==
    ASSUME PlaceInv, TypeInv', Receiver \/ ReadDamaged \/ ReadMalformed \/ DiskError \/ Crash
    PROVE  StartInv' /\ ChunkInOnePlace'
<1>t. /\ up \in Seq(ControlMessage) /\ data \in Seq(Chunks) /\ nackQ \in Seq(Chunks)
      /\ toSend \subseteq Chunks /\ done \subseteq Chunks /\ cur \in Chunks \cup {None}
      /\ confirmed \in 0 .. ChunkCount
  BY DEF PlaceInv, TypeInv, TypeOK
<1> USE DEF PlaceInv, StartInv, Untouched, ChunkInOnePlace, NoneLost, OnePlace, NoCopy,
        Transferring, Receiving, Pending, Unsent, InFlight, Nacked, Queued, Held,
        run, link, snd, rcv, writer, store
<1>1. CASE Negotiate
  <2>1. up = <<>> /\ Untouched /\ spc \in {"reply", "err"} /\ cur = None
    BY <1>1 DEF Negotiate
  <2>2. CASE conn = "up"
    <3>1. PICK m \in {Ack, ResumeRequest(saved[sid])} :
            /\ rpc' = "accept" /\ up' = <<m>>
            /\ \/ m = Ack /\ done' = {}
               \/ m = ResumeRequest(done')
      BY <1>1, <2>1, <2>2 DEF Negotiate, SendCtrl
    <3>2. NackSet(up') = {} /\ NackOnce(up') /\ Len(up') = 1 /\ up'[1] = m
      BY <3>1, EmptyQueues DEF Ack, ResumeRequest
    <3>3. UNCHANGED <<offered, data, streamSeen, snd, cur>>
      BY <1>1 DEF Negotiate
    <3>4. Range(data) = {} /\ Range(nackQ) = {} /\ IsInjective(data) /\ IsInjective(nackQ)
      BY <2>1, EmptyQueues
    <3>5. QED
      BY <2>1, <3>1, <3>2, <3>3, <3>4
  <2>3. CASE conn # "up"
    <3>1. rpc' = "err" /\ up' = up
      BY <1>1, <2>3 DEF Negotiate, SendCtrl
    <3>2. QED
      BY <1>1, <2>1, <3>1 DEF Negotiate
  <2>4. QED
    BY <2>2, <2>3
<1>2. CASE AcceptData
  BY <1>2 DEF AcceptData, AfterLoop
<1>3. CASE ReadFrame
  <2> DEFINE c == Head(data)
  <2>1. /\ c \in Chunks /\ Range(data) = Range(data') \cup {c}
        /\ IsInjective(data) => IsInjective(data') /\ c \notin Range(data')
    BY <1>3, <1>t, TailRange DEF ReadFrame
  <2>2. cur = None /\ None \notin Chunks
    BY <1>3, NoneIsNoChunk DEF ReadFrame
  <2>3. CASE spc # "err"
    <3>1. c \in Chunks \ done
      BY <1>3, <2>1, <2>3 DEF ReadFrame
    <3>2. cur' = c /\ rpc' = "write"
      BY <1>3, <3>1 DEF ReadFrame
    <3> HIDE DEF c
    <3>3. QED
      BY <1>3, <2>1, <2>2, <2>3, <3>1, <3>2 DEF ReadFrame
  <2>4. CASE spc = "err"
    BY <1>3, <2>2, <2>4 DEF ReadFrame
  <2>5. QED
    BY <2>3, <2>4
<1>4. CASE StartWrite
  <2>1. CASE wst = "failed"
    BY <1>4, <2>1 DEF StartWrite, ReceiverFails
  <2>2. CASE wst # "failed"
    <3>1. cur \in Chunks \ done /\ None \notin Chunks
      BY <1>4, NoneIsNoChunk DEF StartWrite, TypeInv, HeldIsPending
    <3>2. QED
      BY <1>4, <1>t, <2>2, <3>1 DEF StartWrite
  <2>3. QED
    BY <2>1, <2>2
<1>5. CASE AckAndSave
  <2>1. CASE conn = "down" /\ (sinceAck >= AckInterval \/ done = Chunks)
    BY <1>5, <2>1 DEF AckAndSave, ReceiverFails
  <2>2. CASE ~(conn = "down" /\ (sinceAck >= AckInterval \/ done = Chunks))
    <3>1. /\ up' \in {up, Append(up, Progress(confirmed))}
          /\ rpc' \in {"saving", "read", "final"}
          /\ UNCHANGED <<conn, offered, data, streamSeen, done, cur, snd>>
      BY <1>5, <2>2, Zenon DEF AckAndSave, AfterLoop
    <3>2. NackSet(up') = NackSet(up) /\ (NackOnce(up) => NackOnce(up'))
      <4>1. Progress(confirmed) \in ControlMessage /\ Progress(confirmed).type # "nack"
        BY <1>t, MessageTypes DEF Progress
      <4>2. QED
        BY <1>t, <3>1, <4>1, AppendNack
    <3>3. rpc = "ack"
      BY <1>5 DEF AckAndSave
    <3>4. QED
      BY <3>1, <3>2, <3>3
  <2>3. QED
    BY <2>1, <2>2
<1>6. CASE SaveDone
  BY <1>6 DEF SaveDone, AfterLoop
<1>7. CASE FinalWait
  BY <1>7 DEF FinalWait, ReceiverFails
<1>8. CASE FinalSaveDone
  BY <1>8 DEF FinalSaveDone
<1>9. CASE SendComplete
  <2>1. up' \in {up, Append(up, Complete)} /\ rpc' \in {"cleanup", "err"}
    BY <1>9 DEF SendComplete, SendCtrl
  <2>2. NackSet(up') = NackSet(up) /\ (NackOnce(up) => NackOnce(up'))
    <3>1. Complete \in ControlMessage /\ Complete.type # "nack"
      BY MessageTypes DEF Complete
    <3>2. QED
      BY <1>t, <2>1, <3>1, AppendNack
  <2>3. QED
    BY <1>9, <2>1, <2>2 DEF SendComplete
<1>10. CASE Cleanup
  BY <1>10 DEF Cleanup
<1>11. CASE ReceiverConnError
  BY <1>11 DEF ReceiverConnError, ReceiverFails
<1>12. CASE ReadDamaged
  <2> DEFINE c == Head(data)
  <2>1. /\ c \in Chunks /\ Range(data) = Range(data') \cup {c}
        /\ IsInjective(data) => IsInjective(data') /\ c \notin Range(data')
    BY <1>12, <1>t, TailRange DEF ReadDamaged
  <2>2. CASE conn = "up"
    <3>1. rpc' = "read" /\ up' = Append(up, ChunkNack(c))
      BY <1>12, <2>2 DEF ReadDamaged, SendCtrl
    <3>2. /\ NackSet(up') = NackSet(up) \cup {c}
          /\ NackOnce(up) /\ c \notin NackSet(up) => NackOnce(up')
      <4>1. /\ ChunkNack(c) \in ControlMessage
            /\ ChunkNack(c).type = "nack" /\ ChunkNack(c).chunk = c
        BY <2>1, MessageTypes DEF ChunkNack
      <4>2. QED
        BY <1>t, <3>1, <4>1, AppendNack
    <3>3. /\ rpc = "read" /\ UNCHANGED <<offered, streamSeen, snd, done, cur>>
      BY <1>12 DEF ReadDamaged
    <3> HIDE DEF c
    <3>4. QED
      BY <2>1, <3>1, <3>2, <3>3
  <2>3. CASE conn # "up"
    BY <1>12, <2>3 DEF ReadDamaged, SendCtrl
  <2>4. QED
    BY <2>2, <2>3
<1>13. CASE ReadMalformed
  BY <1>13 DEF ReadMalformed, ReceiverFails
<1>14. CASE DiskError
  BY <1>14 DEF DiskError, ReceiverFails
<1>15. CASE Crash
  BY <1>15 DEF Crash
<1>16. QED
  BY <1>1, <1>2, <1>3, <1>4, <1>5, <1>6, <1>7, <1>8, <1>9, <1>10, <1>11,
     <1>12, <1>13, <1>14, <1>15
  DEF Receiver

LEMMA OthersKeepPlaces ==
    ASSUME PlaceInv, TypeInv',
           \/ WriteTask \/ Pool \/ WriteError \/ (\E c \in Chunks : TailError(c))
           \/ LoseConnection \/ Retry \/ UNCHANGED vars
    PROVE  StartInv' /\ ChunkInOnePlace'
<1> USE DEF PlaceInv, StartInv, Untouched, ChunkInOnePlace, NoneLost, OnePlace, NoCopy,
        Transferring, Receiving, Pending, Unsent, InFlight, Nacked, Queued, Held,
        run, link, snd, rcv, writer, store
<1>1. CASE Retry
  BY <1>1 DEF Retry
<1>2. CASE UNCHANGED <<link, snd, rcv>>
  BY <1>2
<1>3. CASE LoseConnection
  BY <1>3 DEF LoseConnection
<1>4. QED
  BY <1>1, <1>2, <1>3
  DEF WriteTask, Seek, HandOver, Pool, Land, WriteError, TailError, vars

LEMMA NextKeepsPlaces == PlaceInv /\ [Next]_vars => PlaceInv'
<1> SUFFICES ASSUME PlaceInv, [Next]_vars PROVE PlaceInv'
  OBVIOUS
<1>1. TypeInv'
  BY NextKeepsTypes DEF PlaceInv
<1>2. CASE CtrlLoop \/ SendLoop \/ Sender \/ SenderReadError
  BY <1>1, <1>2, SenderKeepsPlaces DEF PlaceInv
<1>3. CASE Receiver \/ ReadDamaged \/ ReadMalformed \/ DiskError \/ Crash
  BY <1>1, <1>3, ReceiverKeepsPlaces DEF PlaceInv
<1>4. CASE \/ WriteTask \/ Pool \/ WriteError \/ (\E c \in Chunks : TailError(c))
           \/ LoseConnection \/ Retry \/ UNCHANGED vars
  BY <1>1, <1>4, OthersKeepPlaces DEF PlaceInv
<1>5. QED
  BY <1>2, <1>3, <1>4 DEF Next, Environment, Terminated

LEMMA PlaceInvariance == Spec => []PlaceInv
BY InitPlaceInv, NextKeepsPlaces, PTL DEF Spec

\* Between the two loops of the sender and the receiver every missing chunk
\* is in exactly one place: damaged frames and retransmissions lose nothing
\* and double nothing (sender.rs:98-169, receiver.rs:145-254).
THEOREM ChunksConserved == Spec => []ChunkInOnePlace
BY PlaceInvariance, PTL DEF PlaceInv

-----------------------------------------------------------------------------
(* What the sender learns.  Complete on the control stream, like the closed *)
(* nack channel after it, is evidence that the receiver has every chunk; a  *)
(* Progress report is a lower bound of what it has.                         *)

HasComplete(q) == \E i \in DOMAIN q : q[i].type = "complete"
ReportsAtMost(q, n) == \A i \in DOMAIN q : q[i].type = "progress" => q[i].done <= n

Outstanding == {"spawned", "writing", "failed"}

ReportInv ==
    /\ rpc \in Finishing => done = Chunks
    /\ rpc \in Finishing \ {"final"} => wst \notin Outstanding
    /\ ctrlDone \/ HasComplete(up) =>
         /\ done = Chunks /\ wst \notin Outstanding
         /\ rpc \in {"cleanup", "done", "err", "crashed"}
    /\ spc = "done" => ctrlDone
    /\ ReportsAtMost(up, Cardinality(done))
    /\ BarWithinAccepted

LEMMA AppendReport ==
    ASSUME NEW q \in Seq(ControlMessage), NEW m \in ControlMessage
    PROVE  /\ HasComplete(Append(q, m)) <=> HasComplete(q) \/ m.type = "complete"
           /\ \A n \in Int : ReportsAtMost(Append(q, m), n)
                 <=> ReportsAtMost(q, n) /\ (m.type = "progress" => m.done <= n)
<1>1. /\ Len(Append(q, m)) = Len(q) + 1 /\ Len(q) \in Nat
      /\ DOMAIN q = 1 .. Len(q) /\ DOMAIN Append(q, m) = 1 .. Len(q) + 1
      /\ \A i \in 1 .. Len(q) : Append(q, m)[i] = q[i]
      /\ Append(q, m)[Len(q) + 1] = m
  OBVIOUS
<1>2. QED
  BY <1>1 DEF HasComplete, ReportsAtMost

LEMMA TailReport ==
    ASSUME NEW q \in Seq(ControlMessage), q # <<>>
    PROVE  /\ HasComplete(Tail(q)) => HasComplete(q)
           /\ Head(q).type = "complete" => HasComplete(q)
           /\ \A n \in Int : ReportsAtMost(q, n) =>
                /\ ReportsAtMost(Tail(q), n)
                /\ Head(q).type = "progress" => Head(q).done <= n
<1>1. /\ Len(q) \in Nat \ {0} /\ DOMAIN q = 1 .. Len(q) /\ DOMAIN Tail(q) = 1 .. Len(q) - 1
      /\ \A i \in 1 .. Len(q) - 1 : Tail(q)[i] = q[i + 1] /\ i + 1 \in 1 .. Len(q)
      /\ Head(q) = q[1]
  OBVIOUS
<1>2. QED
  BY <1>1 DEF HasComplete, ReportsAtMost

LEMMA EmptyReport == ~HasComplete(<<>>) /\ \A n : ReportsAtMost(<<>>, n)
BY DEF HasComplete, ReportsAtMost

LEMMA InitReportInv == Init => ReportInv
BY EmptyReport DEF Init, ReportInv, Finishing, BarWithinAccepted, Outstanding

LEMMA SenderKeepsReports ==
    ASSUME PlaceInv, ReportInv, TypeInv', CtrlLoop \/ SendLoop \/ Sender \/ SenderReadError
    PROVE  ReportInv'
<1>t. /\ up \in Seq(ControlMessage) /\ done \subseteq Chunks
      /\ Cardinality(done) \in Int /\ (done = Chunks => Cardinality(done) = ChunkCount)
  <2>1. up \in Seq(ControlMessage) /\ done \subseteq Chunks
    BY DEF PlaceInv, TypeInv, TypeOK
  <2>2. Cardinality(Chunks) = ChunkCount
    BY FS_Interval, ConstantsAssumption DEF Chunks
  <2>3. QED
    BY <2>1, <2>2, ChunkSets
<1> USE DEF ReportInv, BarWithinAccepted, Outstanding, run, link, snd, rcv, writer, store
<1>1. CASE CtrlProgress
  BY <1>1, <1>t, TailReport DEF CtrlProgress, CtrlRecv
<1>2. CASE CtrlNack
  BY <1>2, <1>t, TailReport DEF CtrlNack, CtrlRecv
<1>3. CASE CtrlComplete
  <2>1. HasComplete(up) /\ done' = done /\ rpc' = rpc /\ up' = Tail(up) /\ bar' = ChunkCount
    BY <1>3, <1>t, TailReport DEF CtrlComplete, CtrlRecv
  <2>2. ReportsAtMost(up', Cardinality(done))
    BY <1>3, <1>t, <2>1, TailReport DEF CtrlComplete, CtrlRecv
  <2>3. Cardinality(done) = ChunkCount
    BY <1>t, <2>1
  <2>4. QED
    BY <1>3, <1>t, <2>1, <2>2, <2>3, ConstantsAssumption DEF CtrlComplete, CtrlRecv
<1>4. CASE SendNext
  BY <1>4 DEF SendNext, WriteFrame
<1>5. CASE Retransmit
  BY <1>5 DEF Retransmit, WriteFrame
<1>6. CASE Drained
  BY <1>6 DEF Drained
<1>7. CASE SendManifest
  BY <1>7 DEF SendManifest
<1>8. CASE RecvReply
  <2>1. CASE Head(up).type \in {"ack", "resume"}
    <3>1. (IF Head(up).type = "resume" THEN Head(up).have ELSE {}) = done
      BY <1>8, <1>t, <2>1 DEF RecvReply, Ack, ResumeRequest, PlaceInv, StartInv
    <3>2. /\ spc' = "run" /\ bar' = Cardinality(done) /\ up' = Tail(up) /\ up # <<>>
          /\ UNCHANGED <<conn, offered, data, streamSeen, nackQ, ctrlDone, run, rcv, writer, store>>
      BY <1>8, <2>1, <3>1, Zenon DEF RecvReply
    <3>3. QED
      BY <1>t, <3>2, TailReport
  <2>2. CASE Head(up).type \notin {"ack", "resume"}
    BY <1>8, <2>2 DEF RecvReply, SenderFails
  <2>3. QED
    BY <2>1, <2>2
<1>9. CASE SendFinish
  BY <1>9 DEF SendFinish
<1>10. CASE SenderConnError
  BY <1>10 DEF SenderConnError, SenderFails
<1>11. CASE SenderReadError
  BY <1>11 DEF SenderReadError, SenderFails, Fault
<1>12. QED
  BY <1>1, <1>2, <1>3, <1>4, <1>5, <1>6, <1>7, <1>8, <1>9, <1>10, <1>11
  DEF CtrlLoop, SendLoop, Sender

LEMMA ReceiverKeepsReports ==
    ASSUME PlaceInv, ReportInv, TypeInv',
           Receiver \/ ReadDamaged \/ ReadMalformed \/ DiskError \/ Crash
    PROVE  ReportInv'
<1>t. /\ up \in Seq(ControlMessage) /\ done \subseteq Chunks
      /\ Cardinality(done) \in Int /\ confirmed \in 0 .. ChunkCount
      /\ bar \in 0 .. ChunkCount
  BY ChunkSets DEF PlaceInv, TypeInv, TypeOK
<1> USE DEF ReportInv, BarWithinAccepted, Outstanding, run, link, snd, rcv, writer, store, Finishing
<1>1. CASE Negotiate
  <2>1. rpc = "hello" /\ up = <<>> /\ ~ctrlDone /\ spc \in {"offer", "reply", "err"}
    BY <1>1 DEF Negotiate, PlaceInv, StartInv, Untouched
  <2>2. PICK m \in {Ack, ResumeRequest(saved[sid])} : up' \in {up, Append(up, m)} /\ rpc' \in {"accept", "err"}
    BY <1>1 DEF Negotiate, SendCtrl
  <2>3. m.type # "complete" /\ m.type # "progress" /\ m \in ControlMessage
    <3>1. saved[sid] \in SUBSET Chunks
      BY DEF PlaceInv, TypeInv, TypeOK
    <3>2. QED
      BY <3>1, MessageTypes DEF Ack, ResumeRequest
  <2>4. Cardinality(done') \in Int
    BY ChunkSets DEF TypeInv, TypeOK
  <2>5. ~HasComplete(up') /\ ReportsAtMost(up', Cardinality(done'))
    <3>1. up' = <<>> \/ up' = Append(<<>>, m)
      BY <2>1, <2>2
    <3>2. <<>> \in Seq(ControlMessage)
      OBVIOUS
    <3>3. ~HasComplete(Append(<<>>, m)) /\ ReportsAtMost(Append(<<>>, m), Cardinality(done'))
      BY <2>3, <2>4, <3>2, EmptyReport, AppendReport
    <3>4. QED
      BY <3>1, <3>3, EmptyReport
  <2>6. QED
    BY <1>1, <2>1, <2>2, <2>5 DEF Negotiate
<1>2. CASE AcceptData
  BY <1>2 DEF AcceptData, AfterLoop
<1>3. CASE ReadFrame
  BY <1>3 DEF ReadFrame
<1>4. CASE StartWrite
  <2>1. CASE wst = "failed"
    BY <1>4, <2>1 DEF StartWrite, ReceiverFails
  <2>2. CASE wst # "failed"
    <3>1. cur \in Chunks \ done /\ rpc = "write"
      BY <1>4 DEF StartWrite, PlaceInv, TypeInv, HeldIsPending
    <3>2. Cardinality(done \cup {cur}) = Cardinality(done) + 1
      BY <1>t, <3>1, ChunkSets
    <3>3. ~ctrlDone /\ ~HasComplete(up)
      BY <3>1
    <3>4. /\ done' = done \cup {cur} /\ rpc' = "ack" /\ UNCHANGED <<link, snd>>
      BY <1>4, <2>2, Zenon DEF StartWrite
    <3>5. ReportsAtMost(up', Cardinality(done'))
      <4>1. \A i \in DOMAIN up : up[i].type = "progress" => up[i].done \in Int
        BY <1>t, MessagePayloads
      <4>2. QED
        BY <1>t, <3>2, <3>4, <4>1 DEF ReportsAtMost
    <3>6. QED
      BY <1>t, <3>2, <3>3, <3>4, <3>5
  <2>3. QED
    BY <2>1, <2>2
<1>5. CASE AckAndSave
  <2>1. CASE conn = "down" /\ (sinceAck >= AckInterval \/ done = Chunks)
    BY <1>5, <2>1 DEF AckAndSave, ReceiverFails
  <2>2. CASE ~(conn = "down" /\ (sinceAck >= AckInterval \/ done = Chunks))
    <3>1. /\ up' \in {up, Append(up, Progress(confirmed))}
          /\ rpc' = "saving" \/ rpc' = AfterLoop(done)
          /\ UNCHANGED <<conn, offered, data, streamSeen, done, cur, snd>>
      BY <1>5, <2>2, Zenon DEF AckAndSave
    <3>2. rpc = "ack" /\ confirmed = Cardinality(done)
      BY <1>5 DEF AckAndSave, PlaceInv, TypeInv, ConfirmedIsDone, Receiving
    <3>3. ~HasComplete(up') /\ ReportsAtMost(up', Cardinality(done))
      <4>1. /\ Progress(confirmed) \in ControlMessage
            /\ Progress(confirmed).type = "progress" /\ Progress(confirmed).done = confirmed
        BY <1>t, MessageTypes DEF Progress
      <4>2. confirmed <= Cardinality(done) /\ ~HasComplete(up)
        BY <1>t, <3>2
      <4>3. ~HasComplete(Append(up, Progress(confirmed)))
        BY <1>t, <4>1, <4>2, AppendReport
      <4>4. ReportsAtMost(Append(up, Progress(confirmed)), Cardinality(done))
        BY <1>t, <4>1, <4>2, AppendReport
      <4>5. QED
        BY <3>1, <4>2, <4>3, <4>4
    <3>4. QED
      BY <3>1, <3>2, <3>3 DEF AfterLoop
  <2>3. QED
    BY <2>1, <2>2
<1>6. CASE SaveDone
  BY <1>6 DEF SaveDone, AfterLoop
<1>7. CASE FinalWait
  BY <1>7 DEF FinalWait, ReceiverFails
<1>8. CASE FinalSaveDone
  BY <1>8 DEF FinalSaveDone
<1>9. CASE SendComplete
  <2>1. rpc = "complete" /\ done = Chunks /\ done' = done
    BY <1>9 DEF SendComplete
  <2>a. (up' = up /\ rpc' = "err") \/ (up' = Append(up, Complete) /\ rpc' = "cleanup")
    BY <1>9 DEF SendComplete, SendCtrl
  <2>2. ReportsAtMost(up', Cardinality(done))
    <3>1. Complete \in ControlMessage /\ Complete.type # "progress"
      BY MessageTypes DEF Complete
    <3>2. QED
      BY <1>t, <2>a, <3>1, AppendReport
  <2>3. QED
    BY <1>9, <2>1, <2>a, <2>2 DEF SendComplete
<1>10. CASE Cleanup
  BY <1>10 DEF Cleanup
<1>11. CASE ReceiverConnError
  BY <1>11 DEF ReceiverConnError, ReceiverFails
<1>12. CASE ReadDamaged
  <2>1. /\ rpc = "read" /\ Head(data) \in Chunks /\ done' = done
        /\ up' \in {up, Append(up, ChunkNack(Head(data)))} /\ rpc' \in {"read", "err"}
    BY <1>12 DEF ReadDamaged, SendCtrl
  <2>a. ~HasComplete(up) /\ ReportsAtMost(up, Cardinality(done))
    BY <2>1
  <2>2. ~HasComplete(up') /\ ReportsAtMost(up', Cardinality(done))
    <3>1. \A c \in Chunks : /\ ChunkNack(c) \in ControlMessage
                            /\ ChunkNack(c).type \notin {"progress", "complete"}
      BY MessageTypes DEF ChunkNack
    <3>2. CASE up' = up
      BY <2>a, <3>2
    <3>3. CASE up' = Append(up, ChunkNack(Head(data)))
      <4> DEFINE m == ChunkNack(Head(data))
      <4>1. m \in ControlMessage /\ m.type # "progress" /\ m.type # "complete"
        BY <2>1, <3>1
      <4>2. up' = Append(up, m)
        BY <3>3
      <4> HIDE DEF m
      <4>3. ~HasComplete(up')
        BY <1>t, <2>a, <4>1, <4>2, AppendReport
      <4>4. ReportsAtMost(up', Cardinality(done))
        BY <1>t, <2>a, <4>1, <4>2, AppendReport
      <4>5. QED
        BY <4>3, <4>4
    <3>4. QED
      BY <2>1, <3>2, <3>3
  <2>3. QED
    BY <1>12, <2>1, <2>2 DEF ReadDamaged
<1>13. CASE ReadMalformed
  BY <1>13 DEF ReadMalformed, ReceiverFails
<1>14. CASE DiskError
  BY <1>14 DEF DiskError, ReceiverFails
<1>15. CASE Crash
  BY <1>15 DEF Crash
<1>16. QED
  BY <1>1, <1>2, <1>3, <1>4, <1>5, <1>6, <1>7, <1>8, <1>9, <1>10, <1>11,
     <1>12, <1>13, <1>14, <1>15
  DEF Receiver

LEMMA OthersKeepReports ==
    ASSUME PlaceInv, ReportInv, TypeInv',
           \/ WriteTask \/ Pool \/ WriteError \/ (\E c \in Chunks : TailError(c))
           \/ LoseConnection \/ Retry \/ UNCHANGED vars
    PROVE  ReportInv'
<1> USE DEF ReportInv, BarWithinAccepted, Outstanding, run, link, snd, rcv, writer, store
<1>1. CASE Retry
  BY <1>1, EmptyReport DEF Retry, Finishing
<1>2. CASE UNCHANGED vars
  BY <1>2 DEF vars
<1>3. CASE LoseConnection
  BY <1>3 DEF LoseConnection, Fault
<1>4. CASE WriteTask \/ WriteError
  BY <1>4 DEF WriteTask, Seek, HandOver, WriteError, Fault
<1>5. CASE Pool \/ \E c \in Chunks : TailError(c)
  BY <1>5 DEF Pool, Land, TailError, Fault
<1>6. QED
  BY <1>1, <1>2, <1>3, <1>4, <1>5

LEMMA ReportInvariance == Spec => [](PlaceInv /\ ReportInv)
<1>1. Init => PlaceInv /\ ReportInv
  BY InitPlaceInv, InitReportInv
<1>2. PlaceInv /\ ReportInv /\ [Next]_vars => (PlaceInv /\ ReportInv)'
  <2> SUFFICES ASSUME PlaceInv, ReportInv, [Next]_vars PROVE (PlaceInv /\ ReportInv)'
    OBVIOUS
  <2>1. PlaceInv' /\ TypeInv'
    BY NextKeepsPlaces DEF PlaceInv
  <2>2. CASE CtrlLoop \/ SendLoop \/ Sender \/ SenderReadError
    BY <2>1, <2>2, SenderKeepsReports
  <2>3. CASE Receiver \/ ReadDamaged \/ ReadMalformed \/ DiskError \/ Crash
    BY <2>1, <2>3, ReceiverKeepsReports
  <2>4. CASE \/ WriteTask \/ Pool \/ WriteError \/ (\E c \in Chunks : TailError(c))
             \/ LoseConnection \/ Retry \/ UNCHANGED vars
    BY <2>1, <2>4, OthersKeepReports
  <2>5. QED
    BY <2>2, <2>3, <2>4 DEF Next, Environment, Terminated
<1>3. QED
  BY <1>1, <1>2, PTL DEF Spec

\* send_file returns Ok only when the receiver has accepted the whole file and
\* has nothing left that can fail but its process (sender.rs:114-118, 171;
\* receiver.rs:284-302).
THEOREM SenderOkMeansDelivered == Spec => []DeliveredWhenSent
<1>1. ReportInv => DeliveredWhenSent
  BY DEF ReportInv, DeliveredWhenSent, Outstanding
<1>2. QED
  BY <1>1, ReportInvariance, PTL

\* The sender's bar never runs ahead of what the receiver has accepted
\* (sender.rs:63-66, 109, 115).
THEOREM BarIsConfirmed == Spec => []BarWithinAccepted
<1>1. ReportInv => BarWithinAccepted
  BY DEF ReportInv
<1>2. QED
  BY <1>1, ReportInvariance, PTL

-----------------------------------------------------------------------------
(* What is on disk.  Nothing is assumed of the blocking pool: what it runs  *)
(* out of order or fails to write unreported is in astray.  An attempt      *)
(* whose session_id is new finds no state to resume; one that repeats an id *)
(* may trust a state that claims a chunk a dead receiver never wrote.       *)

StoreInv ==
    /\ sid \in 1 .. attempt /\ stateFiles \subseteq 1 .. attempt
    /\ NewId /\ rpc = "hello" => sid \notin stateFiles
    /\ OneWriteBehind

LEMMA InitStoreInv == Init => StoreInv
BY DEF Init, DrawId, StoreInv, OneWriteBehind, Receiving, Finishing

LEMMA NextKeepsStore ==
    ASSUME TypeInv, ReportInv, StoreInv, [Next]_vars
    PROVE  StoreInv'
<1>t. /\ done \subseteq Chunks /\ attempt \in Nat \ {0} /\ sid \in Ids /\ stateFiles \subseteq Ids
      /\ cur \in Chunks \cup {None}
  BY ConstantsAssumption DEF TypeInv, TypeOK, Ids
<1> USE DEF StoreInv, NewId, OneWriteBehind, Outstanding, Receiving, Finishing,
        run, link, snd, rcv, writer, store
<1>1. CASE CtrlLoop \/ SendLoop \/ Sender \/ SenderReadError
  <2>1. UNCHANGED <<rcv, writer, store, attempt, sid>>
    BY <1>1
    DEF CtrlLoop, CtrlProgress, CtrlNack, CtrlComplete, CtrlRecv, SendLoop, SendNext, WriteFrame,
        Retransmit, Drained, Sender, SendManifest, RecvReply, SendFinish, SenderConnError,
        SenderReadError, Fault
  <2>2. QED
    BY <2>1
<1>2. CASE Negotiate
  <2>1. (NewId => done' = {}) /\ rpc' \in {"accept", "err"}
    BY <1>2 DEF Negotiate, Resumable, SendCtrl
  <2>2. QED
    BY <1>2, <2>1 DEF Negotiate
<1>3. CASE AcceptData
  BY <1>3 DEF AcceptData, AfterLoop
<1>4. CASE ReadFrame
  BY <1>4 DEF ReadFrame
<1>5. CASE StartWrite
  <2>1. CASE wst = "failed"
    BY <1>5, <2>1 DEF StartWrite, ReceiverFails
  <2>2. CASE wst # "failed"
    <3>1. /\ w' = cur /\ wst' = "spawned" /\ done' = done \cup {cur} /\ rpc' = "ack"
          /\ UNCHANGED <<run, pool, cursor, disk, astray, store>>
      BY <1>5, <2>2, Zenon DEF StartWrite
    <3>2. NewId => done \subseteq disk \cup pool \cup astray
      BY <1>5, <2>2 DEF StartWrite
    <3>3. QED
      BY <3>1, <3>2
  <2>3. QED
    BY <2>1, <2>2
<1>6. CASE AckAndSave
  <2>1. /\ rpc = "ack" /\ rpc' \in {"err", "saving", "read", "final"}
        /\ UNCHANGED <<run, done, writer>> /\ stateFiles' \subseteq stateFiles
    <3>1. CASE conn = "down" /\ (sinceAck >= AckInterval \/ done = Chunks)
      BY <1>6, <3>1 DEF AckAndSave, ReceiverFails
    <3>2. CASE ~(conn = "down" /\ (sinceAck >= AckInterval \/ done = Chunks))
      BY <1>6, <3>2, Zenon DEF AckAndSave, AfterLoop
    <3>3. QED
      BY <3>1, <3>2
  <2>2. QED
    BY <2>1
<1>7. CASE SaveDone
  <2>1. /\ rpc = "saving" /\ rpc' \in {"read", "final"} /\ stateFiles' = stateFiles \cup {sid}
        /\ UNCHANGED <<run, done, writer>>
    BY <1>7, Zenon DEF SaveDone, WriteState, AfterLoop
  <2>2. stateFiles' \subseteq 1 .. attempt'
    BY <1>t, <2>1
  <2>3. QED
    BY <2>1, <2>2
<1>8. CASE FinalWait
  BY <1>8 DEF FinalWait, ReceiverFails
<1>9. CASE FinalSaveDone
  BY <1>9, <1>t DEF FinalSaveDone, WriteState
<1>10. CASE SendComplete
  BY <1>10 DEF SendComplete, SendCtrl
<1>11. CASE Cleanup
  BY <1>11 DEF Cleanup
<1>12. CASE ReceiverConnError \/ ReadMalformed \/ DiskError
  BY <1>12 DEF ReceiverConnError, ReadMalformed, DiskError, ReceiverFails, Fault
<1>13. CASE ReadDamaged
  BY <1>13 DEF ReadDamaged, SendCtrl, Fault
<1>14. CASE Crash
  BY <1>14 DEF Crash, Fault
<1>15. CASE Seek
  BY <1>15 DEF Seek
<1>16. CASE HandOver
  BY <1>16 DEF HandOver
<1>17. CASE WriteError
  <2>1. rpc \notin Finishing \ {"final"}
    BY <1>17 DEF WriteError, ReportInv
  <2>2. QED
    BY <1>17, <2>1 DEF WriteError, Fault
<1>18. ASSUME NEW c \in Chunks, Land(c) PROVE StoreInv'
  <2>1. /\ pool' = pool \ {c} /\ UNCHANGED <<run, rcv, w, wst, store>>
        /\ \A d \in disk \cup astray \cup {c} : d \in disk' \cup astray'
    <3>1. CASE cursor = c
      BY <1>18, <3>1 DEF Land
    <3>2. CASE cursor # c
      BY <1>18, <3>2 DEF Land
    <3>3. QED
      BY <3>1, <3>2
  <2>2. QED
    BY <2>1
<1>19. ASSUME NEW c \in Chunks, TailError(c) PROVE StoreInv'
  BY <1>19 DEF TailError, Fault
<1>20. CASE LoseConnection
  BY <1>20 DEF LoseConnection, Fault
<1>21. CASE Retry
  <2>1. /\ attempt' = attempt + 1 /\ sid' \in 1 .. attempt + 1 /\ stateFiles' = stateFiles
        /\ rpc' = "hello" /\ done' = {} /\ pool' = {} /\ wst' = "idle"
    BY <1>21, <1>t DEF Retry, DrawId
  <2>2. stateFiles \subseteq 1 .. attempt /\ attempt + 1 \notin 1 .. attempt
    BY <1>t
  <2>3. stateFiles' \subseteq 1 .. attempt' /\ sid' \in 1 .. attempt'
    BY <1>t, <2>1, <2>2
  <2>4. NewId' => sid' \notin stateFiles'
    BY <2>1, <2>2
  <2>5. OneWriteBehind'
    BY <2>1
  <2>6. QED
    BY <2>3, <2>4, <2>5
<1>22. CASE UNCHANGED vars
  BY <1>22 DEF vars
<1>23. QED
  BY <1>1, <1>2, <1>3, <1>4, <1>5, <1>6, <1>7, <1>8, <1>9, <1>10, <1>11, <1>12,
     <1>13, <1>14, <1>15, <1>16, <1>17, <1>18, <1>19, <1>20, <1>21, <1>22
  DEF Next, Receiver, WriteTask, Pool, Environment, Terminated

LEMMA StoreInvariance == Spec => [](ReportInv /\ StoreInv)
<1>1. Init => StoreInv
  BY InitStoreInv
<1>2. TypeInv /\ ReportInv /\ StoreInv /\ [Next]_vars => StoreInv'
  BY NextKeepsStore
<1>3. QED
  BY <1>1, <1>2, TypeInvariance, ReportInvariance, PTL DEF Spec

\* receive_file returns Ok only when every chunk of the file is written, in the
\* hands of the pool, or gone astray there: a failed write is always seen before
\* the Ok, in whatever order the pool works (receiver.rs:234-254, 284-302).
THEOREM ReceiverOkMeansStored == Spec => []StoredWhenDone
<1>1. ReportInv /\ StoreInv => StoredWhenDone
  BY DEF ReportInv, StoreInv, NewId, OneWriteBehind, Outstanding, StoredWhenDone, Receiving, Finishing
<1>2. QED
  BY <1>1, StoreInvariance, PTL

\* What a state save may record wrongly is a chunk gone astray in the pool, and
\* at most one more, whose write is still outstanding or failed
\* (receiver.rs:234-254, 274-281).
THEOREM BookkeepingOneBehind == Spec => []OneWriteBehind
<1>1. StoreInv => OneWriteBehind
  BY DEF StoreInv
<1>2. QED
  BY <1>1, StoreInvariance, PTL

(***************************************************************************)
(* Where the pool does run file operations in order, the next task's seek  *)
(* waits for the last piece of the task before, so that a piece lands      *)
(* where the offset was moved for it.                                      *)
(***************************************************************************)
PoolInv ==
    /\ pool \subseteq {cursor}
    /\ wst = "writing" => cursor = w /\ pool = {}
    /\ astray = {}

LEMMA NextKeepsPool ==
    ASSUME PoolInOrder, "tail" \notin Faults, PoolInv, [Next]_vars
    PROVE  PoolInv'
<1> USE DEF PoolInv, run, link, snd, rcv, writer, store
<1>1. CASE CtrlLoop \/ SendLoop \/ Sender \/ SenderReadError
  <2>1. UNCHANGED writer
    BY <1>1
    DEF CtrlLoop, CtrlProgress, CtrlNack, CtrlComplete, CtrlRecv, SendLoop, SendNext, WriteFrame,
        Retransmit, Drained, Sender, SendManifest, RecvReply, SendFinish, SenderConnError,
        SenderReadError, Fault
  <2>2. QED
    BY <2>1
<1>2. CASE Negotiate
  BY <1>2 DEF Negotiate
<1>3. CASE AcceptData \/ ReadFrame \/ AckAndSave \/ SaveDone
  BY <1>3 DEF AcceptData, ReadFrame, AckAndSave, SaveDone
<1>4. CASE FinalWait \/ FinalSaveDone \/ SendComplete \/ Cleanup \/ ReceiverConnError
  BY <1>4 DEF FinalWait, FinalSaveDone, SendComplete, Cleanup, ReceiverConnError
<1>5. CASE StartWrite
  BY <1>5 DEF StartWrite
<1>6. CASE ReadDamaged \/ ReadMalformed \/ DiskError \/ WriteError \/ LoseConnection
  BY <1>6 DEF ReadDamaged, ReadMalformed, DiskError, WriteError, LoseConnection
<1>7. CASE Crash \/ Retry
  BY <1>7 DEF Crash, Retry
<1>8. CASE Seek \/ HandOver
  BY <1>8 DEF Seek, HandOver
<1>9. ASSUME NEW c \in Chunks, Land(c) PROVE PoolInv'
  <2>1. cursor = c
    BY <1>9 DEF Land
  <2>2. pool' = pool \ {c} /\ astray' = astray \ {c} /\ UNCHANGED <<cursor, w, wst>>
    BY <1>9, <2>1 DEF Land
  <2>3. QED
    BY <2>2
<1>10. ASSUME NEW c \in Chunks, TailError(c) PROVE FALSE
  BY <1>10 DEF TailError, Fault
<1>11. CASE UNCHANGED vars
  BY <1>11 DEF vars
<1>12. QED
  BY <1>1, <1>2, <1>3, <1>4, <1>5, <1>6, <1>7, <1>8, <1>9, <1>10, <1>11
  DEF Next, Receiver, WriteTask, Pool, Environment, Terminated

\* The two ways a chunk can go astray are the only ones: a pool that runs file
\* operations in order and reports its errors loses nothing, so that
\* receive_file's Ok means a complete file (receiver.rs:239-251).
THEOREM OnlyThePoolLoses == Spec => []AstrayIsPool
<1>1. CASE PoolInOrder /\ "tail" \notin Faults
  <2>1. Init => PoolInv
    BY DEF Init, PoolInv
  <2>2. PoolInv /\ [Next]_vars => PoolInv'
    BY <1>1, NextKeepsPool
  <2>3. PoolInv => AstrayIsPool
    BY DEF PoolInv, AstrayIsPool
  <2>4. QED
    BY <2>1, <2>2, <2>3, PTL DEF Spec
<1>2. CASE ~(PoolInOrder /\ "tail" \notin Faults)
  <2>1. AstrayIsPool
    BY <1>2 DEF AstrayIsPool
  <2>2. QED
    BY <2>1, PTL
<1>3. QED
  BY <1>1, <1>2

=============================================================================
