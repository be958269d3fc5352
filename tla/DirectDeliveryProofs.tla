------------------------- MODULE DirectDeliveryProofs -------------------------
(***************************************************************************)
(* The direct transfer implements FileDelivery, for every chunk count,     *)
(* window, batching interval and kind of fault.                            *)
(*                                                                         *)
(* The invariants of DirectTransferProofs say what either Ok stands for.   *)
(* What is missing is that the bar never falls back: the Progress messages *)
(* in flight are sorted, and none of them is behind the bar.               *)
(***************************************************************************)
EXTENDS DirectTransferProofs

\* Progress messages on q never fall back, and start no lower than n.
ReportsGrow(q, n) ==
    \A i \in DOMAIN q : q[i].type = "progress" =>
        /\ n <= q[i].done
        /\ \A j \in DOMAIN q : i < j /\ q[j].type = "progress" => q[i].done <= q[j].done

OrderInv ==
    /\ rpc = "hello" => done = {}
    /\ spc \in {"offer", "reply"} => bar = 0
    /\ spc = "run" /\ ctrlDone => bar = ChunkCount
    /\ spc = "run" /\ ~ctrlDone => ReportsGrow(up, bar)

-----------------------------------------------------------------------------
(* Reports in order.                                                        *)

LEMMA EmptyGrows == \A n : ReportsGrow(<<>>, n)
BY DEF ReportsGrow

\* A report that counts as much as any before it keeps the order.
LEMMA AppendGrows ==
    ASSUME NEW q \in Seq(ControlMessage), NEW m \in ControlMessage, NEW n \in Nat,
           ReportsGrow(q, n),
           m.type = "progress" => n <= m.done /\ ReportsAtMost(q, m.done)
    PROVE  ReportsGrow(Append(q, m), n)
<1>1. /\ Len(Append(q, m)) = Len(q) + 1 /\ Len(q) \in Nat
      /\ DOMAIN q = 1 .. Len(q) /\ DOMAIN Append(q, m) = 1 .. Len(q) + 1
      /\ \A i \in 1 .. Len(q) : Append(q, m)[i] = q[i]
      /\ Append(q, m)[Len(q) + 1] = m
  OBVIOUS
<1>2. QED
  BY <1>1 DEF ReportsGrow, ReportsAtMost

\* What follows a report counts at least as much.
LEMMA TailGrows ==
    ASSUME NEW q \in Seq(ControlMessage), q # <<>>, NEW n \in Nat, ReportsGrow(q, n)
    PROVE  /\ ReportsGrow(Tail(q), n)
           /\ Head(q).type = "progress" => n <= Head(q).done /\ ReportsGrow(Tail(q), Head(q).done)
<1>1. /\ Len(q) \in Nat \ {0} /\ DOMAIN q = 1 .. Len(q) /\ DOMAIN Tail(q) = 1 .. Len(q) - 1
      /\ \A i \in 1 .. Len(q) - 1 : Tail(q)[i] = q[i + 1] /\ i + 1 \in 1 .. Len(q)
      /\ Head(q) = q[1]
  OBVIOUS
<1>2. QED
  BY <1>1 DEF ReportsGrow

LEMMA InitOrderInv == Init => OrderInv
BY EmptyGrows DEF Init, OrderInv

LEMMA SenderKeepsOrder ==
    ASSUME PlaceInv, ReportInv, OrderInv, CtrlLoop \/ SendLoop \/ Sender \/ SenderReadError
    PROVE  OrderInv'
<1>t. up \in Seq(ControlMessage) /\ bar \in Nat
  BY ConstantsAssumption DEF PlaceInv, TypeInv, TypeOK
<1> USE DEF OrderInv, run, link, snd, rcv
<1>1. CASE CtrlProgress
  BY <1>1, <1>t, TailGrows DEF CtrlProgress, CtrlRecv
<1>2. CASE CtrlNack
  BY <1>2, <1>t, TailGrows DEF CtrlNack, CtrlRecv
<1>3. CASE CtrlComplete
  BY <1>3 DEF CtrlComplete, CtrlRecv
<1>4. CASE SendLoop
  BY <1>4 DEF SendLoop, SendNext, Retransmit, WriteFrame, Drained
<1>5. CASE SendManifest
  BY <1>5 DEF SendManifest
<1>6. CASE RecvReply
  <2>1. CASE Head(up).type \in {"ack", "resume"}
    <3>1. up' = <<>> /\ spc' = "run" /\ UNCHANGED <<ctrlDone, rpc, done>> /\ ~ctrlDone
      BY <1>6, <1>t, <2>1 DEF RecvReply, PlaceInv, StartInv, Untouched
    <3>2. QED
      BY <3>1, EmptyGrows
  <2>2. CASE Head(up).type \notin {"ack", "resume"}
    BY <1>6, <2>2 DEF RecvReply, SenderFails
  <2>3. QED
    BY <2>1, <2>2
<1>7. CASE SendFinish \/ SenderConnError \/ SenderReadError
  BY <1>7 DEF SendFinish, SenderConnError, SenderReadError, SenderFails
<1>8. QED
  BY <1>1, <1>2, <1>3, <1>4, <1>5, <1>6, <1>7 DEF CtrlLoop, Sender

\* The receiver reports in order, as what it has confirmed only grows.
LEMMA ReceiverKeepsOrder ==
    ASSUME PlaceInv, ReportInv, OrderInv,
           Receiver \/ ReadDamaged \/ ReadMalformed \/ DiskError \/ Crash
    PROVE  OrderInv'
<1>t. /\ up \in Seq(ControlMessage) /\ bar \in Nat /\ confirmed \in 0 .. ChunkCount
      /\ rpc \in {"final", "complete", "ack"} => confirmed = Cardinality(done)
  BY ConstantsAssumption
  DEF PlaceInv, TypeInv, TypeOK, ConfirmedIsDone, Receiving
<1> USE DEF OrderInv, run, link, snd, rcv
<1>1. CASE Negotiate
  <2>1. spc \in {"offer", "reply", "err"} /\ spc' = spc /\ bar' = bar /\ rpc' # "hello"
    BY <1>1 DEF Negotiate, SendCtrl, PlaceInv, StartInv
  <2>2. QED
    BY <2>1
<1>2. CASE AckAndSave
  <2>1. CASE conn = "down" /\ (sinceAck >= AckInterval \/ done = Chunks)
    BY <1>2, <2>1 DEF AckAndSave, ReceiverFails
  <2>2. CASE ~(conn = "down" /\ (sinceAck >= AckInterval \/ done = Chunks))
    <3>1. /\ up' \in {up, Append(up, Progress(confirmed))} /\ rpc = "ack" /\ rpc' # "hello"
          /\ UNCHANGED <<done, snd>>
      BY <1>2, <2>2, Zenon DEF AckAndSave, AfterLoop
    <3>2. /\ Progress(confirmed) \in ControlMessage /\ Progress(confirmed).done = confirmed
          /\ confirmed = Cardinality(done)
      BY <1>t, <3>1, MessageTypes DEF Progress
    <3>3. spc = "run" /\ ~ctrlDone => ReportsGrow(up', bar)
      BY <1>t, <3>1, <3>2, AppendGrows DEF ReportInv, BarWithinAccepted
    <3>4. QED
      BY <3>1, <3>3
  <2>3. QED
    BY <2>1, <2>2
<1>3. CASE SendComplete
  <2>1. /\ up' \in {up, Append(up, Complete)} /\ UNCHANGED <<done, snd>> /\ rpc' # "hello"
    BY <1>3 DEF SendComplete, SendCtrl
  <2>2. Complete \in ControlMessage /\ Complete.type # "progress"
    BY MessageTypes DEF Complete
  <2>3. QED
    BY <1>t, <2>1, <2>2, AppendGrows
<1>4. CASE ReadDamaged
  <2>1. /\ up' \in {up, Append(up, ChunkNack(Head(data)))} /\ UNCHANGED <<done, snd>>
        /\ rpc' # "hello" /\ Head(data) \in Chunks
    BY <1>4 DEF ReadDamaged, SendCtrl
  <2> DEFINE m == ChunkNack(Head(data))
  <2>2. m \in ControlMessage /\ m.type # "progress"
    BY <2>1, MessageTypes DEF ChunkNack
  <2> HIDE DEF m
  <2>3. QED
    BY <1>t, <2>1, <2>2, AppendGrows DEF m
<1>5. CASE \/ AcceptData \/ ReadFrame \/ StartWrite \/ SaveDone \/ FinalWait \/ FinalSaveDone
           \/ Cleanup \/ ReceiverConnError \/ ReadMalformed \/ DiskError \/ Crash
  <2>1. UNCHANGED <<up, snd>> /\ rpc' # "hello"
    <3>1. CASE AcceptData
      BY <3>1 DEF AcceptData, AfterLoop
    <3>2. CASE ReadFrame
      BY <3>2 DEF ReadFrame
    <3>3. CASE StartWrite
      BY <3>3 DEF StartWrite, ReceiverFails
    <3>4. CASE SaveDone \/ FinalWait \/ FinalSaveDone \/ Cleanup
      BY <3>4 DEF SaveDone, FinalWait, FinalSaveDone, Cleanup, AfterLoop, ReceiverFails
    <3>5. CASE ReceiverConnError \/ ReadMalformed \/ DiskError \/ Crash
      BY <3>5 DEF ReceiverConnError, ReadMalformed, DiskError, Crash, ReceiverFails
    <3>6. QED
      BY <1>5, <3>1, <3>2, <3>3, <3>4, <3>5
  <2>2. QED
    BY <2>1
<1>6. QED
  BY <1>1, <1>2, <1>3, <1>4, <1>5 DEF Receiver

LEMMA NextKeepsOrder ==
    ASSUME PlaceInv, ReportInv, OrderInv, [Next]_vars
    PROVE  OrderInv'
<1>1. CASE CtrlLoop \/ SendLoop \/ Sender \/ SenderReadError
  BY <1>1, SenderKeepsOrder
<1>2. CASE Receiver \/ ReadDamaged \/ ReadMalformed \/ DiskError \/ Crash
  BY <1>2, ReceiverKeepsOrder
<1>3. CASE Retry
  BY <1>3 DEF Retry, OrderInv
<1>4. CASE \/ WriteTask \/ Pool \/ WriteError \/ (\E c \in Chunks : TailError(c))
           \/ LoseConnection \/ UNCHANGED vars
  <2>1. UNCHANGED <<up, snd, rcv>>
    BY <1>4
    DEF WriteTask, Seek, HandOver, Pool, Land, WriteError, TailError, LoseConnection, link, vars
  <2>2. QED
    BY <2>1 DEF OrderInv, snd, rcv
<1>5. QED
  BY <1>1, <1>2, <1>3, <1>4 DEF Next, Environment, Terminated

-----------------------------------------------------------------------------
(* Each step of the transfer is one of FileDelivery, or none.               *)

DeliveryInv == PlaceInv /\ ReportInv /\ OrderInv

\* FileDelivery counts as this module does.
LEMMA SameCount == \A S : Delivery!Cardinality(S) = Cardinality(S)
BY DEF Delivery!Cardinality, Cardinality

LEMMA WholeFile == Cardinality(Chunks) = ChunkCount
BY FS_Interval, ConstantsAssumption DEF Chunks

\* The sender learns something, or its call ends.
LEMMA SenderDelivers ==
    ASSUME DeliveryInv, DeliveryInv', CtrlLoop \/ SendLoop \/ Sender \/ SenderReadError
    PROVE  [Delivery!Next]_(Delivery!vars)
<1>t. /\ up \in Seq(ControlMessage) /\ bar \in Nat /\ bar' \in Nat
      /\ done \subseteq Chunks /\ Cardinality(done) \in Nat
  BY ConstantsAssumption, ChunkSets DEF DeliveryInv, PlaceInv, TypeInv, TypeOK
<1>r. rpc' = rpc /\ done' = done
  BY DEF CtrlLoop, CtrlProgress, CtrlNack, CtrlComplete, CtrlRecv, SendLoop, SendNext, WriteFrame,
         Retransmit, Drained, Sender, SendManifest, RecvReply, SendFinish, SenderConnError,
         SenderReadError, rcv
<1> USE DEF Delivery!vars, ReceiverEnded
<1>1. CASE spc' = spc /\ bar' = bar
  BY <1>1, <1>r
<1>2. CASE spc \in {"offer", "reply", "run"} /\ spc' \in {"reply", "run"} /\ bar <= bar'
           /\ bar' <= Cardinality(done)
  <2>1. CASE bar' = bar
    BY <1>2, <1>r, <2>1
  <2>2. CASE bar' # bar
    <3>1. bar' \in bar + 1 .. Cardinality(done)
      BY <1>t, <1>2, <2>2
    <3>2. Delivery!Report
      BY <1>2, <1>r, <3>1, SameCount DEF Delivery!Report
    <3>3. QED
      BY <3>2 DEF Delivery!Next
  <2>3. QED
    BY <2>1, <2>2
<1>3. CASE spc \in {"offer", "reply", "run"} /\ spc' = "err" /\ bar' = bar
  BY <1>3, <1>r DEF Delivery!Next, Delivery!Fail
<1>4. CASE SendFinish
  <2>1. spc = "run" /\ spc' = "done" /\ bar' = bar /\ done = Chunks /\ bar = Cardinality(Chunks)
    BY <1>4, WholeFile DEF SendFinish, DeliveryInv, ReportInv, OrderInv
  <2>2. QED
    BY <1>r, <2>1, SameCount DEF Delivery!Next, Delivery!SenderOk
<1>5. CASE CtrlProgress \/ CtrlComplete
  <2>1. bar <= bar'
    <3>1. CASE CtrlProgress
      BY <1>t, <3>1, TailGrows DEF CtrlProgress, CtrlRecv, DeliveryInv, OrderInv
    <3>2. CASE CtrlComplete
      BY <3>2 DEF CtrlComplete, DeliveryInv, PlaceInv, TypeInv, TypeOK
    <3>3. QED
      BY <1>5, <3>1, <3>2
  <2>2. spc = "run" /\ spc' = "run" /\ bar' <= Cardinality(done)
    BY <1>5, <1>r DEF CtrlProgress, CtrlComplete, CtrlRecv, DeliveryInv, ReportInv, BarWithinAccepted
  <2>3. QED
    BY <1>2, <2>1, <2>2
<1>6. CASE CtrlNack \/ SendLoop
  BY <1>1, <1>6 DEF CtrlNack, CtrlRecv, SendLoop, SendNext, WriteFrame, Retransmit, Drained
<1>7. CASE SendManifest
  BY <1>7, <1>r DEF SendManifest
<1>8. CASE RecvReply
  <2>1. CASE Head(up).type \in {"ack", "resume"}
    <3>1. spc = "reply" /\ spc' = "run" /\ bar = 0
      BY <1>8, <2>1 DEF RecvReply, DeliveryInv, OrderInv
    <3>2. bar' <= Cardinality(done)
      BY <1>r, <3>1 DEF DeliveryInv, ReportInv, BarWithinAccepted
    <3>3. QED
      BY <1>t, <1>2, <3>1, <3>2
  <2>2. CASE Head(up).type \notin {"ack", "resume"}
    BY <1>3, <1>8, <2>2 DEF RecvReply, SenderFails
  <2>3. QED
    BY <2>1, <2>2
<1>9. CASE SenderConnError \/ SenderReadError
  BY <1>3, <1>9 DEF SenderConnError, SenderReadError, SenderFails
<1>10. QED
  BY <1>4, <1>5, <1>6, <1>7, <1>8, <1>9 DEF CtrlLoop, Sender

\* The receiver accepts a chunk, takes up an earlier transfer, or its call ends.
LEMMA ReceiverDelivers ==
    ASSUME DeliveryInv, DeliveryInv',
           Receiver \/ ReadDamaged \/ ReadMalformed \/ DiskError \/ Crash
    PROVE  [Delivery!Next]_(Delivery!vars)
<1> DEFINE InCall == ReceiverStates \ {"done", "err", "crashed"}
<1>s. spc' = spc /\ bar' = bar
  BY DEF Receiver, Negotiate, AcceptData, ReadFrame, StartWrite, AckAndSave, SaveDone, FinalWait,
         FinalSaveDone, SendComplete, Cleanup, ReceiverConnError, ReadDamaged, ReadMalformed,
         DiskError, Crash, ReceiverFails, snd
<1>r. rpc \in ReceiverStates /\ done \subseteq Chunks /\ done' \subseteq Chunks
  BY DEF DeliveryInv, PlaceInv, TypeInv, TypeOK
<1>l. \A x \in InCall : x \notin {"done", "err", "crashed"}
  OBVIOUS
<1> HIDE DEF InCall
<1> USE DEF Delivery!vars, ReceiverEnded
<1>1. CASE rpc \in InCall /\ rpc' \in InCall /\ done' = done
  BY <1>1, <1>s, <1>l
<1>2. CASE rpc \in InCall /\ rpc' \in {"err", "crashed"} /\ done' = done
  BY <1>2, <1>s, <1>l DEF Delivery!Next, Delivery!Fail
<1>3. CASE rpc \in {"done", "err", "crashed"}
  <2>1. rpc = "err" /\ rpc' = "crashed" /\ done' = done
    BY <1>3
    DEF Receiver, Negotiate, AcceptData, ReadFrame, StartWrite, AckAndSave, SaveDone, FinalWait,
        FinalSaveDone, SendComplete, Cleanup, ReceiverConnError, ReadDamaged, ReadMalformed,
        DiskError, Crash, rcv
  <2>2. QED
    BY <1>s, <2>1
<1>4. CASE Negotiate
  <2>1. /\ rpc = "hello" /\ rpc' \in {"accept", "err"} /\ done = {}
    BY <1>4 DEF Negotiate, SendCtrl, DeliveryInv, OrderInv
  <2>2. Delivery!Resume
    BY <1>s, <1>r, <2>1 DEF Delivery!Resume
  <2>3. QED
    BY <2>2 DEF Delivery!Next
<1>5. CASE StartWrite
  <2>1. CASE wst = "failed"
    <3>1. rpc = "write" /\ rpc' = "err" /\ done' = done
      BY <1>5, <2>1 DEF StartWrite, ReceiverFails
    <3>2. QED
      BY <1>2, <3>1 DEF InCall, ReceiverStates
  <2>2. CASE wst # "failed"
    <3>1. rpc = "write" /\ rpc' = "ack" /\ done' = done \cup {cur} /\ cur \in Chunks \ done
      BY <1>5, <2>2 DEF StartWrite, DeliveryInv, PlaceInv, TypeInv, HeldIsPending
    <3>2. Delivery!Accept
      BY <1>s, <3>1 DEF Delivery!Accept
    <3>3. QED
      BY <3>2 DEF Delivery!Next
  <2>3. QED
    BY <2>1, <2>2
<1>6. CASE Cleanup
  <2>1. rpc = "cleanup" /\ rpc' = "done" /\ done' = done /\ done = Chunks
    BY <1>6 DEF Cleanup, DeliveryInv, ReportInv, Finishing
  <2>2. QED
    BY <1>s, <2>1 DEF Delivery!Next, Delivery!ReceiverOk
<1>7. CASE \/ AcceptData \/ ReadFrame \/ AckAndSave \/ SaveDone \/ FinalWait \/ FinalSaveDone
           \/ SendComplete \/ ReceiverConnError \/ ReadDamaged \/ ReadMalformed \/ DiskError
  <2>1. rpc \in InCall /\ rpc' \in InCall \cup {"err"} /\ done' = done
    <3> USE DEF InCall, ReceiverStates
    <3>1. CASE AcceptData \/ ReadFrame \/ SaveDone \/ FinalSaveDone
      BY <3>1 DEF AcceptData, ReadFrame, SaveDone, FinalSaveDone, AfterLoop
    <3>2. CASE AckAndSave
      BY <3>2 DEF AckAndSave, AfterLoop, ReceiverFails
    <3>3. CASE SendComplete \/ ReadDamaged
      BY <3>3 DEF SendComplete, ReadDamaged, SendCtrl
    <3>4. CASE FinalWait
      BY <3>4 DEF FinalWait, ReceiverFails
    <3>5. CASE ReceiverConnError \/ ReadMalformed \/ DiskError
      BY <3>5 DEF ReceiverConnError, ReadMalformed, DiskError, ReceiverFails
    <3>6. QED
      BY <1>7, <3>1, <3>2, <3>3, <3>4, <3>5
  <2>2. QED
    BY <1>1, <1>2, <2>1
<1>8. CASE Crash
  <2>1. rpc' = "crashed" /\ done' = done
    BY <1>8 DEF Crash
  <2>2. QED
    BY <1>2, <1>3, <1>r, <2>1 DEF InCall
<1>9. QED
  BY <1>4, <1>5, <1>6, <1>7, <1>8 DEF Receiver

\* A new attempt starts over; the write task and the network show nothing.
LEMMA OthersDeliver ==
    ASSUME DeliveryInv,
           \/ WriteTask \/ Pool \/ WriteError \/ (\E c \in Chunks : TailError(c))
           \/ LoseConnection \/ Retry \/ UNCHANGED vars
    PROVE  [Delivery!Next]_(Delivery!vars)
<1>1. CASE Retry
  <2>1. /\ spc \in {"done", "err"} /\ rpc \in {"done", "err", "crashed"}
        /\ ~(spc = "done" /\ rpc = "done")
        /\ spc' = "offer" /\ rpc' = "hello" /\ done' = {} /\ bar' = 0
    BY <1>1 DEF Retry, Ended, SenderEnded, ReceiverEnded
  <2>2. QED
    BY <2>1 DEF Delivery!Next, Delivery!StartOver, ReceiverEnded
<1>2. CASE \/ WriteTask \/ Pool \/ WriteError \/ (\E c \in Chunks : TailError(c))
           \/ LoseConnection \/ UNCHANGED vars
  <2>1. UNCHANGED <<snd, rcv>>
    BY <1>2
    DEF WriteTask, Seek, HandOver, Pool, Land, WriteError, TailError, LoseConnection, vars
  <2>2. QED
    BY <2>1 DEF Delivery!vars, ReceiverEnded, snd, rcv
<1>3. QED
  BY <1>1, <1>2

LEMMA NextDelivers == DeliveryInv /\ DeliveryInv' /\ [Next]_vars => [Delivery!Next]_(Delivery!vars)
<1> SUFFICES ASSUME DeliveryInv, DeliveryInv', [Next]_vars
             PROVE  [Delivery!Next]_(Delivery!vars)
  OBVIOUS
<1>1. CASE CtrlLoop \/ SendLoop \/ Sender \/ SenderReadError
  BY <1>1, SenderDelivers
<1>2. CASE Receiver \/ ReadDamaged \/ ReadMalformed \/ DiskError \/ Crash
  BY <1>2, ReceiverDelivers
<1>3. CASE \/ WriteTask \/ Pool \/ WriteError \/ (\E c \in Chunks : TailError(c))
           \/ LoseConnection \/ Retry \/ UNCHANGED vars
  BY <1>3, OthersDeliver
<1>4. QED
  BY <1>1, <1>2, <1>3 DEF Next, Environment, Terminated

LEMMA DeliveryInvariance == Spec => []DeliveryInv
<1>1. Init => OrderInv
  BY InitOrderInv
<1>2. PlaceInv /\ ReportInv /\ OrderInv /\ [Next]_vars => OrderInv'
  BY NextKeepsOrder
<1>3. QED
  BY <1>1, <1>2, ReportInvariance, PTL DEF Spec, DeliveryInv

\* send_file_direct against receive_file_direct keeps FileDelivery's promise,
\* whatever is damaged, lost, killed or retried: chunks are accepted one by one
\* or resumed at once, the bar follows and never falls back, and an Ok on either
\* side takes the whole file (sender.rs:98-174, receiver.rs:24-302).
THEOREM DirectImplementsDelivery == Spec => DeliversFile
<1>1. Init => Delivery!Init
  BY DEF Init, Delivery!Init, ReceiverEnded
<1>2. DeliveryInv /\ DeliveryInv' /\ [Next]_vars => [Delivery!Next]_(Delivery!vars)
  BY NextDelivers
<1>3. QED
  BY <1>1, <1>2, DeliveryInvariance, PTL DEF Spec, DeliversFile, Delivery!Spec

=============================================================================
