---------------------------- MODULE RelayTransfer ----------------------------
(***************************************************************************)
(* One file sent over a relay session: send_file_relay                     *)
(* (transfer/relay_sender.rs) against receive_file_relay                   *)
(* (transfer/relay_receiver.rs), on the session of                         *)
(* session/relay_session.rs.                                               *)
(*                                                                         *)
(* One TCP stream carries everything.  The sender's two loops share its    *)
(* write half behind a mutex, and the ctrl loop retransmits by itself: as  *)
(* long as it waits for the mutex or for room on the stream, it reads no   *)
(* message.  The receiver is a single loop that reports every chunk, and   *)
(* as long as it waits for room it reads no chunk.  Each can so come to    *)
(* wait for the other: see Jammed.                                         *)
(***************************************************************************)
EXTENDS Integers, Sequences, FiniteSets, Functions

CONSTANTS
    ChunkCount,    \* manifest.chunk_count: 0 for an empty file
    Forward,       \* chunks the stream to the receiver holds
    Back,          \* messages the stream to the sender holds
    SaveInterval,  \* accepted chunks per save of the resume state
    MaxFaults,     \* bound: faults over a behaviour
    Faults         \* the kinds of fault the environment may inject

FaultKinds == {"damage",  \* a chunk fails to decrypt or has the wrong size
               "io",      \* a read, a write or a save returns an error
               "reset",   \* the TCP connections are reset
               "quit"}    \* one side's process ends

ASSUME RelayTransferAssumption ==
    /\ ChunkCount \in Nat
    /\ Forward \in Nat \ {0} /\ Back \in Nat \ {0} /\ SaveInterval \in Nat \ {0}
    /\ MaxFaults \in Nat /\ Faults \subseteq FaultKinds

Chunks == 0 .. ChunkCount - 1
None == -1
Loops == {"send", "ctrl"}
Sides == {"sender", "receiver"}

ControlMessage ==
         [type : {"ack", "complete"}]
    \cup [type : {"resume"}, have : SUBSET Chunks]
    \cup [type : {"progress"}, done : 0 .. ChunkCount]
    \cup [type : {"nack"}, chunk : Chunks]

Ack == [type |-> "ack"]
Complete == [type |-> "complete"]
ResumeRequest(have) == [type |-> "resume", have |-> have]
Progress(n) == [type |-> "progress", done |-> n]
ChunkNack(c) == [type |-> "nack", chunk |-> c]

VARIABLES
    faults,    \* faults injected so far
    left,      \* sides that have dropped the session
    cut,       \* the relay has closed both connections, or they were reset
    offered,   \* the manifest has been sent
    fwd,       \* chunks on the stream to the receiver
    back,      \* messages on the stream to the sender
    spc,       \* sender: "offer", "reply", "run", "done", "err"
    toSend,    \* chunks the send loop has still to start on
    writers,   \* loops that hold (first) or wait for the write half
    held,      \* the chunk each of them has encrypted
    ctrlDone,  \* ctrl loop returned Ok
    bar,       \* sender's progress counter
    rpc,       \* receiver: see ReceiverStates
    cur,       \* damaged chunk to be NACKed, or None
    done,      \* state.chunks_done; pending is its complement
    confirmed, \* chunks counted as confirmed
    tail,      \* chunk whose last piece is not yet in the file, or None
    disk,      \* chunks that are in the file
    saved      \* chunks_done of the last save

net == <<left, cut, fwd, back>>
snd == <<spc, toSend, writers, held, ctrlDone, bar>>
rcv == <<rpc, cur, done, confirmed>>
file == <<tail, disk>>
vars == <<faults, net, offered, snd, rcv, file, saved>>

SenderStates == {"offer", "reply", "run", "done", "err"}
ReceiverStates == {"hello", "read", "nack", "report", "save", "final", "complete",
                   "cleanup", "done", "err"}

TypeOK ==
    /\ faults \in 0 .. MaxFaults
    /\ left \subseteq Sides /\ cut \in BOOLEAN /\ offered \in BOOLEAN
    /\ fwd \in Seq(Chunks) /\ Len(fwd) <= Forward
    /\ back \in Seq(ControlMessage) /\ Len(back) <= Back
    /\ spc \in SenderStates /\ rpc \in ReceiverStates
    /\ toSend \subseteq Chunks
    /\ writers \in Seq(Loops) /\ Len(writers) <= 2
    /\ held \in [Loops -> Chunks \cup {None}]
    /\ \A l \in Loops : held[l] # None <=> l \in Range(writers)
    /\ ctrlDone \in BOOLEAN /\ bar \in 0 .. ChunkCount
    /\ cur \in Chunks \cup {None} /\ (cur # None <=> rpc = "nack")
    /\ done \subseteq Chunks /\ confirmed \in 0 .. ChunkCount
    /\ tail \in Chunks \cup {None} /\ disk \subseteq Chunks
    /\ saved \subseteq Chunks

\* An earlier transfer may have left a state with the same session_id, which
\* find_resumable takes up; without one nothing is saved.
Init ==
    /\ faults = 0 /\ left = {} /\ cut = FALSE /\ offered = FALSE
    /\ fwd = <<>> /\ back = <<>>
    /\ spc = "offer" /\ toSend = {} /\ writers = <<>>
    /\ held = [l \in Loops |-> None] /\ ctrlDone = FALSE /\ bar = 0
    /\ rpc = "hello" /\ cur = None /\ done = {} /\ confirmed = 0
    /\ tail = None
    /\ disk \in SUBSET Chunks /\ saved = disk

Fault(kind) == kind \in Faults /\ faults < MaxFaults /\ faults' = faults + 1

-----------------------------------------------------------------------------
(* Sender.                                                                  *)

SenderLeaves(state) ==
    /\ spc' = state /\ left' = left \cup {"sender"}
    /\ toSend' = {} /\ writers' = <<>> /\ held' = [l \in Loops |-> None]
    /\ UNCHANGED <<ctrlDone, bar>>

SendManifest ==
    /\ spc = "offer" /\ ~cut
    /\ spc' = "reply" /\ offered' = TRUE
    /\ UNCHANGED <<faults, net, toSend, writers, held, ctrlDone, bar, rcv, file, saved>>

RecvReply ==
    /\ spc = "reply" /\ back # <<>>
    /\ LET skip == IF Head(back).type = "resume" THEN Head(back).have ELSE {} IN
         toSend' = Chunks \ skip /\ bar' = Cardinality(skip)
    /\ back' = Tail(back) /\ spc' = "run"
    /\ UNCHANGED <<faults, left, cut, offered, fwd, writers, held, ctrlDone, rcv, file, saved>>

\* A loop has read and encrypted chunk c and asks for the write half.
Enqueue(l, c) == writers' = Append(writers, l) /\ held' = [held EXCEPT ![l] = c]

SendNext ==
    /\ spc = "run" /\ held["send"] = None
    /\ \E c \in toSend :
         /\ \A d \in toSend : c <= d
         /\ Enqueue("send", c) /\ toSend' = toSend \ {c}
    /\ UNCHANGED <<faults, net, offered, spc, ctrlDone, bar, rcv, file, saved>>

\* Mutant: write_all does not wait for room.
WriteChunk_NoBackPressure ==
    /\ spc = "run" /\ ~cut /\ writers # <<>>
    /\ fwd' = Append(fwd, held[Head(writers)])
    /\ writers' = Tail(writers) /\ held' = [held EXCEPT ![Head(writers)] = None]
    /\ UNCHANGED <<faults, left, cut, offered, back, spc, toSend, ctrlDone, bar, rcv, file, saved>>

\* send_chunk_raw of the loop that holds the write half.  The mutex is fair.
WriteChunk ==
    /\ spc = "run" /\ ~cut /\ writers # <<>> /\ Len(fwd) < Forward
    /\ fwd' = Append(fwd, held[Head(writers)])
    /\ writers' = Tail(writers) /\ held' = [held EXCEPT ![Head(writers)] = None]
    /\ UNCHANGED <<faults, left, cut, offered, back, spc, toSend, ctrlDone, bar, rcv, file, saved>>

\* The ctrl loop has no chunk to retransmit and reads the next message.
CtrlRecv(type) ==
    /\ spc = "run" /\ ~ctrlDone /\ held["ctrl"] = None
    /\ back # <<>> /\ Head(back).type = type
    /\ back' = Tail(back)
    /\ UNCHANGED <<faults, left, cut, offered, fwd, spc, toSend, rcv, file, saved>>

CtrlProgress ==
    /\ CtrlRecv("progress")
    /\ bar' = Head(back).done
    /\ UNCHANGED <<writers, held, ctrlDone>>

\* Mutant: the NACK is read and nothing is sent again.
CtrlNack_Ignored ==
    /\ CtrlRecv("nack")
    /\ UNCHANGED <<writers, held, ctrlDone, bar>>

CtrlNack ==
    /\ CtrlRecv("nack")
    /\ Enqueue("ctrl", Head(back).chunk)
    /\ UNCHANGED <<ctrlDone, bar>>

CtrlComplete ==
    /\ CtrlRecv("complete")
    /\ bar' = ChunkCount /\ ctrlDone' = TRUE
    /\ UNCHANGED <<writers, held>>

\* Both loops have returned Ok, and the caller drops the session.
SendFinish ==
    /\ spc = "run" /\ ctrlDone /\ toSend = {} /\ held["send"] = None
    /\ SenderLeaves("done")
    /\ UNCHANGED <<faults, cut, offered, fwd, back, rcv, file, saved>>

\* Mutant: the ctrl loop goes on after a failed read.
SenderConnError_WritesOnly ==
    /\ cut /\ spc \in {"offer", "reply", "run"}
    /\ spc = "offer" \/ writers # <<>>
    /\ SenderLeaves("err")
    /\ UNCHANGED <<faults, cut, offered, fwd, back, rcv, file, saved>>

\* A dead connection fails the write, and the read once what has arrived is
\* read.
SenderConnError ==
    /\ cut /\ spc \in {"offer", "reply", "run"}
    /\ \/ spc = "offer"
       \/ writers # <<>>
       \/ back = <<>> /\ ~ctrlDone /\ held["ctrl"] = None
    /\ SenderLeaves("err")
    /\ UNCHANGED <<faults, cut, offered, fwd, back, rcv, file, saved>>

SenderReadError ==
    /\ Fault("io") /\ spc = "run"
    /\ \/ toSend # {} /\ held["send"] = None
       \/ ~ctrlDone /\ held["ctrl"] = None /\ back # <<>> /\ Head(back).type = "nack"
    /\ SenderLeaves("err")
    /\ UNCHANGED <<cut, offered, fwd, back, rcv, file, saved>>

-----------------------------------------------------------------------------
(* Receiver.                                                                *)

ReceiverLeaves(state) ==
    /\ rpc' = state /\ left' = left \cup {"receiver"}
    /\ cur' = None
    /\ UNCHANGED <<done, confirmed>>

\* send_ctrl: waits for room; a dead connection is ReceiverConnError.
SendCtrl(m, next) ==
    /\ ~cut /\ Len(back) < Back
    /\ back' = Append(back, m) /\ rpc' = next

\* while !pending.is_empty()
AfterLoop(d) == IF d = Chunks THEN "final" ELSE "read"

\* A fresh start creates the file; a state of an earlier transfer is resumed.
Negotiate ==
    /\ rpc = "hello" /\ offered
    /\ IF saved # {}
       THEN /\ done' = saved /\ SendCtrl(ResumeRequest(saved), AfterLoop(saved))
            /\ UNCHANGED disk
       ELSE /\ done' = {} /\ SendCtrl(Ack, AfterLoop({})) /\ disk' = {}
    /\ confirmed' = Cardinality(done')
    /\ UNCHANGED <<faults, left, cut, offered, fwd, snd, cur, tail, saved>>

\* Mutant: the file handle is written without awaiting the piece before.
ReadChunk_NoAwait ==
    /\ rpc = "read" /\ fwd # <<>>
    /\ fwd' = Tail(fwd) /\ done' = done \cup {Head(fwd)}
    /\ confirmed' = confirmed + 1
    /\ tail' = Head(fwd) /\ rpc' = "report"
    /\ UNCHANGED <<faults, left, cut, offered, back, snd, cur, disk, saved>>

\* Seeking waits for the piece before; write_all leaves the last piece of this
\* chunk to the blocking pool.
ReadChunk ==
    /\ rpc = "read" /\ fwd # <<>> /\ tail = None
    /\ fwd' = Tail(fwd) /\ done' = done \cup {Head(fwd)}
    /\ confirmed' = confirmed + 1
    /\ tail' = Head(fwd) /\ rpc' = "report"
    /\ UNCHANGED <<faults, left, cut, offered, back, snd, cur, disk, saved>>

ReadDamaged ==
    /\ Fault("damage") /\ rpc = "read" /\ fwd # <<>>
    /\ fwd' = Tail(fwd) /\ cur' = Head(fwd) /\ rpc' = "nack"
    /\ UNCHANGED <<left, cut, offered, back, snd, done, confirmed, file, saved>>

SendNack ==
    /\ rpc = "nack"
    /\ SendCtrl(ChunkNack(cur), "read") /\ cur' = None
    /\ UNCHANGED <<faults, left, cut, offered, fwd, snd, done, confirmed, file, saved>>

\* Mutant: the chunk is reported before it is written, one ahead.
Report_Ahead ==
    /\ rpc = "report"
    /\ SendCtrl(Progress(IF confirmed < ChunkCount THEN confirmed + 1 ELSE confirmed),
                IF Cardinality(done) % SaveInterval = 0 THEN "save" ELSE AfterLoop(done))
    /\ UNCHANGED <<faults, left, cut, offered, fwd, snd, cur, done, confirmed, file, saved>>

Report ==
    /\ rpc = "report"
    /\ SendCtrl(Progress(confirmed),
                IF Cardinality(done) % SaveInterval = 0 THEN "save" ELSE AfterLoop(done))
    /\ UNCHANGED <<faults, left, cut, offered, fwd, snd, cur, done, confirmed, file, saved>>

SaveState ==
    /\ rpc \in {"save", "final"}
    /\ saved' = done
    /\ rpc' = IF rpc = "save" THEN AfterLoop(done) ELSE "complete"
    /\ UNCHANGED <<faults, net, offered, snd, cur, done, confirmed, file>>

SendComplete ==
    /\ rpc = "complete"
    /\ SendCtrl(Complete, "cleanup")
    /\ UNCHANGED <<faults, left, cut, offered, fwd, snd, cur, done, confirmed, file, saved>>

\* state.delete; receive_file returns Ok and the caller drops the session.
Cleanup ==
    /\ rpc = "cleanup"
    /\ ReceiverLeaves("done") /\ saved' = {}
    /\ UNCHANGED <<faults, cut, offered, fwd, back, snd, file>>

\* The error of a write, of the piece before it, of a save or of creating,
\* opening or deleting a file.
DiskError ==
    /\ Fault("io")
    /\ \/ rpc \in {"save", "final", "cleanup"}
       \/ rpc = "read" /\ fwd # <<>>
       \/ rpc = "hello" /\ offered
    /\ ReceiverLeaves("err")
    /\ UNCHANGED <<cut, offered, fwd, back, snd, file, saved>>

ReceiverConnError ==
    /\ cut
    /\ \/ rpc = "read" /\ fwd = <<>>
       \/ rpc \in {"hello", "nack", "report", "complete"}
    /\ ReceiverLeaves("err")
    /\ UNCHANGED <<faults, cut, offered, fwd, back, snd, file, saved>>

\* The last piece of a chunk reaches the file.
Land ==
    /\ tail # None
    /\ disk' = disk \cup {tail} /\ tail' = None
    /\ UNCHANGED <<faults, net, offered, snd, rcv, saved>>

-----------------------------------------------------------------------------
(* The relay between them, and the environment.                             *)

\* The relay passes nothing on when one side has closed its connection.  It
\* ends the session when it fails to write to that side, which takes data the
\* other side still sends.
RelayBreaks ==
    /\ ~cut
    /\ \/ "receiver" \in left /\ fwd # <<>>
       \/ "sender" \in left /\ back # <<>>
    /\ cut' = TRUE
    /\ UNCHANGED <<faults, left, fwd, back, offered, snd, rcv, file, saved>>

Reset ==
    /\ Fault("reset") /\ ~cut
    /\ cut' = TRUE
    /\ \E i \in 0 .. Len(fwd), j \in 0 .. Len(back) :
         fwd' = SubSeq(fwd, 1, i) /\ back' = SubSeq(back, 1, j)
    /\ UNCHANGED <<left, offered, snd, rcv, file, saved>>

Quit ==
    /\ Fault("quit")
    /\ \/ spc \notin {"done", "err"} /\ SenderLeaves("err") /\ UNCHANGED <<rcv, tail>>
       \/ rpc \notin {"done", "err"} /\ ReceiverLeaves("err") /\ tail' = None /\ UNCHANGED snd
    /\ UNCHANGED <<cut, offered, fwd, back, disk, saved>>

CtrlLoop == CtrlProgress \/ CtrlNack \/ CtrlComplete
SendLoop == SendNext \/ WriteChunk
Sender == SendManifest \/ RecvReply \/ CtrlLoop \/ SendLoop \/ SendFinish \/ SenderConnError
Receiver == \/ Negotiate \/ ReadChunk \/ SendNack \/ Report \/ SaveState \/ SendComplete
            \/ Cleanup \/ ReceiverConnError
Environment == SenderReadError \/ ReadDamaged \/ DiskError \/ Reset \/ Quit

\* A side that only listens, whose peer has gone without the relay passing it
\* on.
AloneAtRelay(x) ==
    /\ ~cut
    /\ IF x = "sender"
       THEN /\ "receiver" \in left /\ fwd = <<>> /\ back = <<>> /\ ~ctrlDone
            /\ \/ spc = "reply"
               \/ spc = "run" /\ toSend = {} /\ writers = <<>>
       ELSE /\ "sender" \in left
            /\ \/ rpc = "hello" /\ ~offered
               \/ rpc = "read" /\ fwd = <<>>

Over(x) == x \in left \/ AloneAtRelay(x)

\* The ctrl loop waits for the write half or for room to send a chunk again, and
\* reads no message; the receiver waits for room to write one, and reads no
\* chunk; both directions are full.
Jammed ==
    /\ spc = "run" /\ left = {} /\ ~cut
    /\ held["ctrl"] # None /\ Len(fwd) = Forward
    /\ rpc \in {"nack", "report", "complete"} /\ Len(back) = Back

Terminated == (Jammed \/ \A x \in Sides : Over(x)) /\ tail = None /\ UNCHANGED vars

Next == Sender \/ Receiver \/ Land \/ RelayBreaks \/ Environment \/ Terminated

Spec == Init /\ [][Next]_vars

\* The relay is sure to fail in writing to a closed connection when it has a
\* chunk or two messages for it: the first write may still go unnoticed.
RelayNotices == RelayBreaks /\ (Len(fwd) > 0 \/ Len(back) > 1)

\* tokio polls each loop of the two calls, and the blocking pool works.
FairSpec ==
    /\ Spec
    /\ WF_vars(CtrlLoop) /\ WF_vars(SendLoop) /\ WF_vars(Receiver) /\ WF_vars(Land)
    /\ WF_vars(SendManifest \/ RecvReply \/ SendFinish \/ SenderConnError)
    /\ WF_vars(RelayNotices)

-----------------------------------------------------------------------------
\* The chunks on the way to the receiver or to be sent again, in each place
\* they can be.
Copies(c) ==
    Cardinality({i \in DOMAIN fwd : fwd[i] = c})
      + Cardinality({i \in DOMAIN back : back[i] = ChunkNack(c)})
      + Cardinality({l \in Loops : held[l] = c})
      + (IF c \in toSend THEN 1 ELSE 0) + (IF cur = c THEN 1 ELSE 0)

\* Inline retransmission, read-ahead on the stream and NACKs that overtake it
\* neither lose a chunk nor send one twice, which the receiver would count
\* twice (relay_sender.rs:86-114, relay_receiver.rs:103-155).
ChunkInOnePlace ==
    spc = "run" /\ ~cut /\ left = {} =>
        \A c \in Chunks : Copies(c) = IF c \in done THEN 0 ELSE 1

\* The saved state lists at most one chunk the file does not hold, the one
\* whose last piece is still with the blocking pool, as long as the receiver
\* runs (relay_receiver.rs:128-148, 167).
SavedOneBehind == "receiver" \notin left => saved \subseteq disk \cup {tail}

\* The transfer as its two users see it.
Outcome(state) == IF state = "done" THEN "ok" ELSE IF state = "err" THEN "err" ELSE "run"
Delivery == INSTANCE FileDelivery WITH
    sender <- Outcome(spc), receiver <- Outcome(rpc), accepted <- done

\* One stream each way, its mutex and inline retransmission come to the same
\* promise as the direct transfer (relay_sender.rs:74-118,
\* relay_receiver.rs:22-177).
DeliversFile == Delivery!Spec

\* Both calls return, unless they come to wait for each other for good (Jammed).
\* Nothing else in the two loops, the mutex and the two directions of the stream
\* waits without end but a side that only listens to a peer that has gone
\* (relay_sender.rs:86-116, relay_session.rs:87-104, relay main.rs:77-79).
CallsReturn == <>[]Jammed \/ \A x \in Sides : <>Over(x)

\* relay_receiver.rs:86-88: "we can send NACKs while the sender is still
\* transmitting later chunks", picked up and answered at once.
NacksAreSent == (rpc = "nack") ~> (rpc # "nack")

\* What a jam takes: every place on the two streams taken by a chunk or the
\* message about one, one more chunk in the ctrl loop and one in the receiver.
SmallFilesNeverJam == ChunkCount < Forward + Back + 2 => ~Jammed

=============================================================================
