--------------------------- MODULE DirectTransfer ---------------------------
(***************************************************************************)
(* One file sent over a direct QUIC session: send_file_direct              *)
(* (transfer/sender.rs) against receive_file_direct (transfer/receiver.rs) *)
(* with the resume state of transfer/resume.rs.                            *)
(*                                                                         *)
(* The sender is two concurrent loops joined by an in-memory channel: the  *)
(* ctrl loop reads the receiver's messages, the send loop writes chunk     *)
(* frames and retransmits what the ctrl loop queued.  The receiver is one  *)
(* loop plus one background task that writes the previous chunk to disk.   *)
(* A chunk is an index; sizes and offsets are the subject of ChunkFraming, *)
(* so progress is counted in chunks here, not in bytes.                    *)
(***************************************************************************)
EXTENDS Integers, Sequences, FiniteSets, Functions

CONSTANTS
    ChunkCount,    \* manifest.chunk_count: 0 for an empty file
    AckInterval,   \* ACK_INTERVAL: accepted chunks per Progress message
    SaveInterval,  \* STATE_SAVE_INTERVAL: accepted chunks per resume-state save
    Window,        \* frames the data stream holds before write_all blocks
    MaxAttempts,   \* bound: transfers of the same file, the first one included
    MaxFaults,     \* bound: faults of the kinds in Faults over a behaviour
    Faults,        \* the kinds of fault the environment may inject
    ReuseIds,      \* may a later manifest draw the session_id of an earlier one?
    PoolInOrder    \* does the blocking pool run file operations in order?

FaultKinds == {"damage",  \* a frame fails to decrypt or has the wrong size
               "frame",   \* a frame header is out of range
               "loss",    \* the connection dies
               "crash",   \* the receiving process dies
               "io",      \* a chunk write or a state save returns an error
               "tail"}    \* the last piece of a chunk write fails unreported

ASSUME ConstantsAssumption ==
    /\ ChunkCount \in Nat
    /\ AckInterval \in Nat \ {0}
    /\ SaveInterval \in Nat \ {0}
    /\ Window \in Nat \ {0}
    /\ MaxAttempts \in Nat \ {0}
    /\ MaxFaults \in Nat
    /\ Faults \subseteq FaultKinds
    /\ ReuseIds \in BOOLEAN
    /\ PoolInOrder \in BOOLEAN

Chunks == 0 .. ChunkCount - 1
Ids == 1 .. MaxAttempts
None == -1

(***************************************************************************)
(* What the receiver writes on the control stream.  The sender's side of   *)
(* it carries the manifest and nothing else.                               *)
(***************************************************************************)
ControlMessage ==
         [type : {"ack", "complete"}]
    \cup [type : {"resume"}, have : SUBSET Chunks]
    \cup [type : {"progress"}, done : 0 .. ChunkCount]
    \cup [type : {"nack"}, chunk : Chunks]

Ack == [type |-> "ack"]
Complete == [type |-> "complete"]
ResumeRequest(have) == [type |-> "resume", have |-> have]
Progress(n) == [type |-> "progress", done |-> n]
ChunkNack(c) == [type |-> "nack", chunk |-> c]

VARIABLES
    attempt,     \* number of the current transfer
    sid,         \* session_id of its manifest
    faults,      \* faults injected so far
    conn,        \* the QUIC connection: "up" or "down"
    offered,     \* the manifest is on the control stream (or was read from it)
    up,          \* control messages from receiver to sender, not yet read
    data,        \* chunk frames on the data stream, not yet read
    streamSeen,  \* has a byte of the data stream reached the receiver's side?
    spc,         \* sender: "offer", "reply", "run", "done", "err"
    pass,        \* send loop: "pass", "drain", "serve"
    toSend,      \* chunks the initial pass has still to write
    nackQ,       \* the unbounded nack channel
    ctrlDone,    \* ctrl loop returned Ok and dropped nack_tx
    bar,         \* sender's progress counter
    rpc,         \* receiver: see ReceiverStates
    done,        \* state.chunks_done; pending is its complement
    cur,         \* decrypted chunk waiting for the previous write, or None
    confirmed,   \* chunks reported or about to be reported as delivered
    sinceAck, sinceSave,
    w,           \* chunk handed to the background write task, or None
    wst,         \* that task: "idle", "spawned", "writing", "ok", "failed"
    pool,        \* chunks whose last piece sits in the blocking pool
    cursor,      \* chunk the shared file offset was last moved to, or None
    disk,        \* chunks whose bytes are in the output file
    astray,      \* history: chunks whose bytes were misplaced, overwritten, or
                 \* failed to be written unreported, since the file was created
    stateFiles,  \* session ids with a readable saved TransferState
    saved        \* chunks_done of each saved state

run == <<attempt, sid, faults>>
link == <<conn, offered, up, data, streamSeen>>
snd == <<spc, pass, toSend, nackQ, ctrlDone, bar>>
rcv == <<rpc, done, cur, confirmed, sinceAck, sinceSave>>
writer == <<w, wst, pool, cursor, disk, astray>>
store == <<stateFiles, saved>>
vars == <<run, link, snd, rcv, writer, store>>

SenderStates == {"offer", "reply", "run", "done", "err"}
\* In the order of the code; "crashed" is a dead process.
ReceiverStates == {"hello", "accept", "read", "write", "ack", "saving", "final",
                   "fsaving", "complete", "cleanup", "done", "err", "crashed"}
\* Between the negotiation and the end of the chunk loop and its cleanup.
Receiving == {"accept", "read", "write", "ack", "saving", "final",
              "fsaving", "complete", "cleanup", "done"}
\* After the chunk loop.
Finishing == {"final", "fsaving", "complete", "cleanup", "done"}

TypeOK ==
    /\ attempt \in Ids /\ sid \in Ids
    /\ faults \in 0 .. MaxFaults
    /\ conn \in {"up", "down"}
    /\ offered \in BOOLEAN
    /\ up \in Seq(ControlMessage)
    /\ data \in Seq(Chunks) /\ Len(data) <= Window
    /\ streamSeen \in BOOLEAN
    /\ spc \in SenderStates
    /\ pass \in {"pass", "drain", "serve"}
    /\ toSend \subseteq Chunks
    /\ nackQ \in Seq(Chunks)
    /\ ctrlDone \in BOOLEAN
    /\ bar \in 0 .. ChunkCount
    /\ rpc \in ReceiverStates
    /\ done \subseteq Chunks
    /\ cur \in Chunks \cup {None}
    /\ confirmed \in 0 .. ChunkCount
    /\ sinceAck \in 0 .. AckInterval
    /\ sinceSave \in 0 .. SaveInterval
    /\ w \in Chunks \cup {None}
    /\ wst \in {"idle", "spawned", "writing", "ok", "failed"}
    /\ pool \subseteq Chunks
    /\ cursor \in Chunks \cup {None}
    /\ disk \subseteq Chunks /\ astray \subseteq Chunks
    /\ stateFiles \subseteq Ids
    /\ saved \in [Ids -> SUBSET Chunks]

-----------------------------------------------------------------------------
(* build_manifest draws a random 20-byte session_id.  A new id per attempt  *)
(* is what happens; ReuseIds adds the draw that repeats an earlier one.     *)
DrawId(n) == IF ReuseIds THEN 1 .. n ELSE {n}

Init ==
    /\ attempt = 1 /\ sid \in DrawId(1) /\ faults = 0
    /\ conn = "up" /\ offered = FALSE /\ up = <<>> /\ data = <<>> /\ streamSeen = FALSE
    /\ spc = "offer" /\ pass = "pass" /\ toSend = {} /\ nackQ = <<>>
    /\ ctrlDone = FALSE /\ bar = 0
    /\ rpc = "hello" /\ done = {} /\ cur = None /\ confirmed = 0
    /\ sinceAck = 0 /\ sinceSave = 0
    /\ w = None /\ wst = "idle" /\ pool = {} /\ cursor = None
    /\ disk = {} /\ astray = {} /\ stateFiles = {} /\ saved = [i \in Ids |-> {}]

Fault(kind) ==
    /\ kind \in Faults
    /\ faults < MaxFaults
    /\ faults' = faults + 1
    /\ UNCHANGED <<attempt, sid>>

-----------------------------------------------------------------------------
(* The sender.  A write needs a live connection; write_all on the data      *)
(* stream also waits for room.                                              *)

\* An error of either loop cancels the other (try_join!); send_file returns
\* it, and the caller drops the session, which closes the connection.
SenderFails ==
    /\ spc' = "err" /\ conn' = "down"
    /\ UNCHANGED <<offered, up, data, streamSeen, pass, toSend, nackQ, ctrlDone, bar>>

SendManifest ==
    /\ spc = "offer" /\ conn = "up"
    /\ spc' = "reply" /\ offered' = TRUE
    /\ UNCHANGED <<run, conn, up, data, streamSeen, pass, toSend, nackQ, ctrlDone, bar,
                   rcv, writer, store>>

\* Mutant: the bar is credited, but what the receiver has is sent all the same.
RecvReply_SendsAll ==
    /\ spc = "reply" /\ up # <<>> /\ Head(up).type \in {"ack", "resume"}
    /\ spc' = "run" /\ up' = Tail(up) /\ toSend' = Chunks /\ pass' = "pass"
    /\ bar' = IF Head(up).type = "resume" THEN Cardinality(Head(up).have) ELSE 0
    /\ UNCHANGED <<conn, offered, data, streamSeen, nackQ, ctrlDone>>
    /\ UNCHANGED <<run, rcv, writer, store>>

\* ManifestAck or ResumeRequest; the bar is credited with what is skipped.
RecvReply ==
    /\ spc = "reply" /\ up # <<>>
    /\ LET m == Head(up)
           skip == IF m.type = "resume" THEN m.have ELSE {}
       IN IF m.type \in {"ack", "resume"}
          THEN /\ spc' = "run" /\ up' = Tail(up)
               /\ toSend' = Chunks \ skip
               /\ pass' = IF toSend' = {} THEN "serve" ELSE "pass"
               /\ bar' = Cardinality(skip)
               /\ UNCHANGED <<conn, offered, data, streamSeen, nackQ, ctrlDone>>
          ELSE SenderFails
    /\ UNCHANGED <<run, rcv, writer, store>>

CtrlRecv(type) ==
    /\ spc = "run" /\ ~ctrlDone
    /\ up # <<>> /\ Head(up).type = type
    /\ up' = Tail(up)
    /\ UNCHANGED <<run, conn, offered, data, streamSeen, spc, pass, toSend, rcv, writer, store>>

CtrlProgress ==
    /\ CtrlRecv("progress")
    /\ bar' = Head(up).done
    /\ UNCHANGED <<nackQ, ctrlDone>>

\* Mutant: the NACK is read and forgotten.
CtrlNack_Ignored == CtrlRecv("nack") /\ UNCHANGED <<nackQ, ctrlDone, bar>>

CtrlNack ==
    /\ CtrlRecv("nack")
    /\ nackQ' = Append(nackQ, Head(up).chunk)
    /\ UNCHANGED <<ctrlDone, bar>>

CtrlComplete ==
    /\ CtrlRecv("complete")
    /\ bar' = ChunkCount /\ ctrlDone' = TRUE
    /\ UNCHANGED nackQ

\* Mutant: the send loop does not wait for room on the stream.
WriteFrame_NoBackPressure(c) ==
    /\ conn = "up"
    /\ data' = Append(data, c) /\ streamSeen' = TRUE
    /\ UNCHANGED <<run, conn, offered, up, spc, ctrlDone, bar, rcv, writer, store>>

\* One frame on the data stream: the stream exists for the peer from its
\* first byte on, not from open_uni.
WriteFrame(c) ==
    /\ conn = "up" /\ Len(data) < Window
    /\ data' = Append(data, c) /\ streamSeen' = TRUE
    /\ UNCHANGED <<run, conn, offered, up, spc, ctrlDone, bar, rcv, writer, store>>

SendNext ==
    /\ spc = "run" /\ pass = "pass"
    /\ \E c \in toSend :
         /\ \A d \in toSend : c <= d
         /\ WriteFrame(c)
         /\ toSend' = toSend \ {c}
    /\ pass' = "drain"
    /\ UNCHANGED nackQ

\* A NACK taken by try_recv between two chunks of the initial pass, or by
\* recv once the pass is over.
Retransmit ==
    /\ spc = "run" /\ pass \in {"drain", "serve"}
    /\ nackQ # <<>>
    /\ WriteFrame(Head(nackQ))
    /\ nackQ' = Tail(nackQ)
    /\ UNCHANGED <<pass, toSend>>

\* try_recv found the channel empty.
Drained ==
    /\ spc = "run" /\ pass = "drain" /\ nackQ = <<>>
    /\ pass' = IF toSend = {} THEN "serve" ELSE "pass"
    /\ UNCHANGED <<run, link, spc, toSend, nackQ, ctrlDone, bar, rcv, writer, store>>

\* Mutant: nack_tx outlives the ctrl loop, so recv never returns None.
SendFinish_ChannelKeptOpen == FALSE

\* recv returned None: the channel is closed and empty.  try_join! has both
\* results, send_file returns Ok and the session is dropped.
SendFinish ==
    /\ spc = "run" /\ ctrlDone /\ pass = "serve" /\ nackQ = <<>>
    /\ spc' = "done" /\ conn' = "down"
    /\ UNCHANGED <<run, offered, up, data, streamSeen, pass, toSend, nackQ, ctrlDone, bar,
                   rcv, writer, store>>

\* A lost connection fails the read or the write a loop is blocked in; what
\* had arrived before may still be read first.
SenderConnError ==
    /\ conn = "down"
    /\ \/ spc \in {"offer", "reply"}
       \/ spc = "run" /\ (~ctrlDone \/ pass # "serve" \/ nackQ # <<>>)
    /\ SenderFails
    /\ UNCHANGED <<run, rcv, writer, store>>

\* Reading the file fails: for the manifest, in the initial pass, or for a
\* retransmission.
SenderReadError ==
    /\ Fault("io")
    /\ \/ spc = "offer"
       \/ spc = "run" /\ (toSend # {} \/ nackQ # <<>>)
    /\ SenderFails
    /\ UNCHANGED <<rcv, writer, store>>

-----------------------------------------------------------------------------
(* The receiver.                                                            *)

\* receive_file returns Err: the session is dropped; the write task and the
\* blocking pool go on, detached.
ReceiverFails ==
    /\ rpc' = "err" /\ conn' = "down"
    /\ cur' = None
    /\ UNCHANGED <<offered, up, streamSeen, done, confirmed, sinceAck, sinceSave>>

\* Continue with rpc = next after sending message m, or return the error.
SendCtrl(m, next) ==
    IF conn = "up"
    THEN rpc' = next /\ up' = Append(up, m) /\ conn' = conn
    ELSE rpc' = "err" /\ up' = up /\ conn' = conn

\* Mutant: the loop stops one chunk early.
AfterLoop_OffByOne(have) == IF Cardinality(have) + 1 >= ChunkCount THEN "final" ELSE "read"

AfterLoop(have) == IF have = Chunks THEN "final" ELSE "read"

\* find_resumable: a readable state saved for this session_id.  (It also asks
\* for the output file, which exists whenever a state was saved for it.)
Resumable == sid \in stateFiles

\* Manifest in, resume or truncate and start afresh, reply out.
Negotiate ==
    /\ rpc = "hello" /\ offered
    /\ IF Resumable
       THEN /\ SendCtrl(ResumeRequest(saved[sid]), "accept")
            /\ done' = saved[sid] /\ UNCHANGED <<disk, astray>>
       ELSE /\ SendCtrl(Ack, "accept")
            /\ done' = {} /\ disk' = {} /\ astray' = {}
    /\ UNCHANGED <<run, offered, data, streamSeen, snd, cur, confirmed, sinceAck, sinceSave,
                   w, wst, pool, cursor, store>>

\* Mutant: confirmed starts at 0 after a resume.
AcceptData_NoCredit ==
    /\ rpc = "accept" /\ streamSeen
    /\ rpc' = AfterLoop(done)
    /\ confirmed' = 0
    /\ UNCHANGED <<run, link, snd, done, cur, sinceAck, sinceSave, writer, store>>

\* accept_uni returns once the sender's stream has shown up.
AcceptData ==
    /\ rpc = "accept" /\ streamSeen
    /\ rpc' = AfterLoop(done)
    /\ confirmed' = Cardinality(done)
    /\ UNCHANGED <<run, link, snd, done, cur, sinceAck, sinceSave, writer, store>>

\* Head of the chunk loop: one whole frame is read.  A frame of a chunk that
\* is not pending is drained and dropped.
ReadFrame ==
    /\ rpc = "read" /\ data # <<>>
    /\ data' = Tail(data)
    /\ IF Head(data) \in Chunks \ done
       THEN cur' = Head(data) /\ rpc' = "write"
       ELSE UNCHANGED <<cur, rpc>>
    /\ UNCHANGED <<run, conn, offered, up, streamSeen, snd, done, confirmed,
                   sinceAck, sinceSave, writer, store>>

\* Decrypt failure or size mismatch of a pending chunk: ask for it again.
ReadDamaged ==
    /\ Fault("damage")
    /\ rpc = "read" /\ data # <<>> /\ Head(data) \in Chunks \ done
    /\ data' = Tail(data)
    /\ SendCtrl(ChunkNack(Head(data)), "read")
    /\ UNCHANGED <<offered, streamSeen, snd, done, cur, confirmed, sinceAck, sinceSave,
                   writer, store>>

\* payload_len or a sub-message length out of range.
ReadMalformed ==
    /\ Fault("frame")
    /\ rpc = "read" /\ data # <<>>
    /\ data' = Tail(data)
    /\ ReceiverFails
    /\ UNCHANGED <<snd, writer, store>>

\* Mutant: the next write starts without awaiting the previous one.
StartWrite_NoAwait ==
    /\ rpc = "write"
    /\ w' = cur /\ wst' = "spawned"
    /\ cur' = None /\ done' = done \cup {cur}
    /\ confirmed' = confirmed + 1 /\ sinceAck' = sinceAck + 1
    /\ rpc' = "ack"
    /\ UNCHANGED <<run, link, snd, sinceSave, pool, cursor, disk, astray, store>>

\* The previous write task has returned: its error ends the transfer,
\* otherwise this chunk's task is spawned and the chunk counts as done.
StartWrite ==
    /\ rpc = "write" /\ wst \notin {"spawned", "writing"}
    /\ IF wst = "failed"
       THEN ReceiverFails /\ UNCHANGED <<data, w, wst>>
       ELSE /\ w' = cur /\ wst' = "spawned"
            /\ cur' = None /\ done' = done \cup {cur}
            /\ confirmed' = confirmed + 1 /\ sinceAck' = sinceAck + 1
            /\ rpc' = "ack"
            /\ UNCHANGED <<link, sinceSave>>
    /\ UNCHANGED <<run, snd, pool, cursor, disk, astray, store>>

\* Batched Progress, then the throttled save.  std::fs::write truncates the
\* state file first, so it is unreadable until the save is through.
AckAndSave ==
    /\ rpc = "ack"
    /\ LET ack == sinceAck >= AckInterval \/ done = Chunks
           save == sinceSave + 1 >= SaveInterval
           next == IF save THEN "saving" ELSE AfterLoop(done)
       IN IF ack /\ conn = "down"
          THEN ReceiverFails /\ UNCHANGED <<data, stateFiles>>
          ELSE /\ rpc' = next
               /\ up' = IF ack THEN Append(up, Progress(confirmed)) ELSE up
               /\ sinceAck' = IF ack THEN 0 ELSE sinceAck
               /\ sinceSave' = sinceSave + 1
               /\ stateFiles' = IF save THEN stateFiles \ {sid} ELSE stateFiles
               /\ UNCHANGED <<conn, offered, data, streamSeen, done, cur, confirmed>>
    /\ UNCHANGED <<run, snd, writer, saved>>

WriteState ==
    /\ stateFiles' = stateFiles \cup {sid}
    /\ saved' = [saved EXCEPT ![sid] = done]

SaveDone ==
    /\ rpc = "saving"
    /\ WriteState
    /\ sinceSave' = 0
    /\ rpc' = AfterLoop(done)
    /\ UNCHANGED <<run, link, snd, done, cur, confirmed, sinceAck, writer>>

\* Mutant: Complete goes out without awaiting the last write.
FinalWait_NoAwait ==
    /\ rpc = "final"
    /\ rpc' = "fsaving"
    /\ stateFiles' = stateFiles \ {sid}
    /\ UNCHANGED <<run, link, snd, done, cur, confirmed, sinceAck, sinceSave, writer, saved>>

\* The loop is over: await the last write, then save once more.
FinalWait ==
    /\ rpc = "final" /\ wst \notin {"spawned", "writing"}
    /\ IF wst = "failed"
       THEN ReceiverFails /\ UNCHANGED <<data, stateFiles>>
       ELSE /\ rpc' = "fsaving"
            /\ stateFiles' = stateFiles \ {sid}
            /\ UNCHANGED <<link, done, cur, confirmed, sinceAck, sinceSave>>
    /\ UNCHANGED <<run, snd, writer, saved>>

FinalSaveDone ==
    /\ rpc = "fsaving"
    /\ WriteState
    /\ rpc' = "complete"
    /\ UNCHANGED <<run, link, snd, done, cur, confirmed, sinceAck, sinceSave, writer>>

\* A file operation of the receiver fails: creating and sizing the output
\* (which may truncate it first), opening or cloning it, saving the state, or
\* deleting it after Complete.
DiskError ==
    /\ Fault("io")
    /\ \/ rpc = "hello" /\ offered /\ ~Resumable /\ disk' \in {disk, {}}
       \/ rpc = "write" /\ wst \notin {"spawned", "writing"} /\ UNCHANGED disk
       \/ rpc \in {"accept", "saving", "fsaving", "cleanup"} /\ UNCHANGED disk
    /\ ReceiverFails
    /\ UNCHANGED <<data, snd, w, wst, pool, cursor, astray, store>>

SendComplete ==
    /\ rpc = "complete"
    /\ SendCtrl(Complete, "cleanup")
    /\ UNCHANGED <<run, offered, data, streamSeen, snd, done, cur, confirmed,
                   sinceAck, sinceSave, writer, store>>

\* state.delete; receive_file returns Ok and the caller drops the session.
Cleanup ==
    /\ rpc = "cleanup"
    /\ stateFiles' = stateFiles \ {sid}
    /\ rpc' = "done" /\ conn' = "down"
    /\ UNCHANGED <<run, offered, up, data, streamSeen, snd, done, cur, confirmed,
                   sinceAck, sinceSave, writer, saved>>

\* A lost connection fails the read the receiver is blocked in.
ReceiverConnError ==
    /\ conn = "down" /\ rpc \in {"hello", "accept", "read"}
    /\ ReceiverFails
    /\ UNCHANGED <<run, data, snd, writer, store>>

-----------------------------------------------------------------------------
(* The background write of one chunk and the blocking pool under it.  The   *)
(* task's handle is a try_clone of the output file: it shares the offset    *)
(* with the handle of the task before it.  write_all returns when the last  *)
(* piece has been handed to the pool, and nothing flushes it.               *)

Seek ==
    /\ wst = "spawned" /\ (PoolInOrder => pool = {})
    /\ wst' = "writing" /\ cursor' = w
    /\ UNCHANGED <<run, link, snd, rcv, w, pool, disk, astray, store>>

HandOver ==
    /\ wst = "writing"
    /\ wst' = "ok" /\ pool' = pool \cup {w}
    /\ UNCHANGED <<run, link, snd, rcv, w, cursor, disk, astray, store>>

WriteError ==
    /\ Fault("io")
    /\ wst \in {"spawned", "writing"}
    /\ wst' = "failed"
    /\ UNCHANGED <<link, snd, rcv, w, pool, cursor, disk, astray, store>>

\* What a piece that is written elsewhere can overwrite: it is no longer than a
\* chunk, so it touches at most two neighbours.
Overwritable == {hit \in SUBSET Chunks : \A c, d \in hit : c <= d + 1}

\* The last piece of chunk c is written where the shared offset points.  If
\* a later seek moved it, the piece goes astray and shifts what follows.
Land(c) ==
    /\ c \in pool
    /\ pool' = pool \ {c}
    /\ IF cursor = c
       THEN disk' = disk \cup {c} /\ astray' = astray \ {c} /\ UNCHANGED cursor
       ELSE \E hit \in Overwritable :
              /\ disk' = disk \ hit
              /\ astray' = astray \cup {c} \cup (hit \cap disk)
              /\ cursor' = None
    /\ UNCHANGED <<run, link, snd, rcv, w, wst, store>>

\* The handle that would have reported the error is gone.
TailError(c) ==
    /\ Fault("tail")
    /\ c \in pool
    /\ pool' = pool \ {c} /\ astray' = astray \cup {c}
    /\ UNCHANGED <<link, snd, rcv, w, wst, cursor, disk, store>>

-----------------------------------------------------------------------------
(* Failures from outside, and the user's next attempt.                      *)

LoseConnection ==
    /\ Fault("loss")
    /\ conn = "up"
    /\ conn' = "down"
    /\ UNCHANGED <<offered, up, data, streamSeen, snd, rcv, writer, store>>

\* The receiving process dies with its task and its pool.
Crash ==
    /\ Fault("crash")
    /\ rpc \notin {"done", "crashed"}
    /\ rpc' = "crashed" /\ conn' = "down"
    /\ w' = None /\ wst' = "idle" /\ pool' = {} /\ cursor' = None
    /\ cur' = None
    /\ UNCHANGED <<offered, up, data, streamSeen, snd, done, confirmed,
                   sinceAck, sinceSave, disk, astray, store>>

SenderEnded == spc \in {"done", "err"}
ReceiverEnded == rpc \in {"done", "err", "crashed"}
Quiet == wst \notin {"spawned", "writing"} /\ pool = {}
Ended == SenderEnded /\ ReceiverEnded /\ Quiet

\* Both users start over: new connection, new manifest.  Setting up the
\* session outlasts the writes a failed attempt left in the background.
Retry ==
    /\ Ended /\ ~(spc = "done" /\ rpc = "done")
    /\ attempt < MaxAttempts
    /\ attempt' = attempt + 1
    /\ sid' \in DrawId(attempt')
    /\ conn' = "up" /\ offered' = FALSE /\ up' = <<>> /\ data' = <<>> /\ streamSeen' = FALSE
    /\ spc' = "offer" /\ pass' = "pass" /\ toSend' = {} /\ nackQ' = <<>>
    /\ ctrlDone' = FALSE /\ bar' = 0
    /\ rpc' = "hello" /\ done' = {} /\ cur' = None /\ confirmed' = 0
    /\ sinceAck' = 0 /\ sinceSave' = 0
    /\ w' = None /\ wst' = "idle" /\ pool' = {} /\ cursor' = None
    /\ UNCHANGED <<faults, disk, astray, store>>

\* Nothing left to do: not a deadlock.
Terminated == Ended /\ UNCHANGED vars

CtrlLoop == CtrlProgress \/ CtrlNack \/ CtrlComplete
SendLoop == SendNext \/ Retransmit \/ Drained
Sender == SendManifest \/ RecvReply \/ SendFinish \/ SenderConnError
Receiver == \/ Negotiate \/ AcceptData \/ ReadFrame \/ StartWrite \/ AckAndSave \/ SaveDone
            \/ FinalWait \/ FinalSaveDone \/ SendComplete \/ Cleanup \/ ReceiverConnError
WriteTask == Seek \/ HandOver
Pool == \E c \in Chunks : Land(c)
Environment == \/ SenderReadError \/ ReadDamaged \/ ReadMalformed \/ DiskError \/ WriteError
               \/ LoseConnection \/ Crash \/ (\E c \in Chunks : TailError(c))

Next == CtrlLoop \/ SendLoop \/ Sender \/ Receiver \/ WriteTask \/ Pool \/ Environment
        \/ Retry \/ Terminated

Spec == Init /\ [][Next]_vars

\* Every task that can run is eventually polled; users and faults owe nothing.
FairSpec == /\ Spec
            /\ WF_vars(CtrlLoop) /\ WF_vars(SendLoop) /\ WF_vars(Sender)
            /\ WF_vars(Receiver) /\ WF_vars(WriteTask) /\ WF_vars(Pool)

-----------------------------------------------------------------------------
(* Where a chunk the receiver still misses can be.                          *)
Transferring == rpc \in Receiving /\ spc # "err"
Pending == Chunks \ done
Unsent == IF spc \in {"offer", "reply"} THEN Pending ELSE toSend
InFlight == Range(data)
NacksIn(q) == {i \in DOMAIN q : q[i].type = "nack"}
NackSet(q) == {q[i].chunk : i \in NacksIn(q)}
NackOnce(q) == \A i, j \in NacksIn(q) : q[i].chunk = q[j].chunk => i = j
Nacked == NackSet(up)
Queued == Range(nackQ)
Held == {cur} \ {None}

\* The receiver's loop waits for the missing chunks and for nothing else:
\* each one is to be sent, on the wire, being written, or asked for again.
NoneLost == Transferring => Pending = Unsent \cup InFlight \cup Nacked \cup Queued \cup Held

\* A chunk is in one of those places only: read-ahead, NACKs overtaken by the
\* data stream and retransmissions never put a second copy on its way.
OnePlace ==
    Transferring =>
        /\ Unsent \cap (InFlight \cup Nacked \cup Queued \cup Held) = {}
        /\ InFlight \cap (Nacked \cup Queued \cup Held) = {}
        /\ Nacked \cap (Queued \cup Held) = {}
        /\ Queued \cap Held = {}

\* ... and once there.
NoCopy == Transferring => IsInjective(data) /\ IsInjective(nackQ) /\ NackOnce(up)

\* Nothing is lost or duplicated between the two loops of the sender and the
\* receiver, whatever is damaged and retransmitted (sender.rs:98-169 against
\* receiver.rs:145-232).
ChunkInOnePlace == NoneLost /\ OnePlace /\ NoCopy

\* send_file returns Ok only after the receiver has accepted every chunk,
\* awaited its last write and saved its state (sender.rs:114-118, 171): the
\* only thing left to it is to delete that state.
DeliveredWhenSent ==
    spc = "done" =>
        done = Chunks /\ rpc \in {"cleanup", "done", "err", "crashed"} /\ wst # "failed"

\* No earlier transfer drew this one's session_id, so nothing is resumed.
NewId == sid = attempt

\* When receive_file returns Ok, every chunk is in the output file, is handed to
\* the blocking pool, or is one that the pool ran out of order or failed to write
\* unreported: nothing else can be missing, whatever failed and whenever the
\* failure of a write showed (receiver.rs:239-251, 285-302).
StoredWhenDone == NewId /\ rpc = "done" => Chunks \subseteq disk \cup pool \cup astray

\* Of the chunks counted as done, which a state save may record at any time, the
\* file and the pool miss those gone astray in the pool and, of the others, only
\* the one whose write task is outstanding or failed (receiver.rs:239-254, 274-281).
OneWriteBehind ==
    NewId /\ rpc \in Receiving =>
        \A c \in done \ (disk \cup pool \cup astray) :
            c = w /\ wst \in {"spawned", "writing", "failed"}

\* A chunk goes astray only by an unreported error, or where the blocking pool
\* does not run file operations in order.
AstrayIsPool == PoolInOrder /\ "tail" \notin Faults => astray = {}

\* The sender's bar never shows more than the receiver has accepted
\* (sender.rs:63-66, 109): Progress travels behind the chunks it counts.
BarWithinAccepted == spc \in {"run", "done"} => bar <= Cardinality(done)

\* With no fault but damaged frames and an unreported write error, every chunk
\* is accepted and receive_file comes to its Ok: retransmission, batching,
\* back-pressure and the background write never block each other
\* (sender.rs:106-169, receiver.rs:145-299).
TransferCompletes == <>(rpc = "done")

\* The transfer as its two users see it.
Delivery == INSTANCE FileDelivery WITH
    sender <- IF spc = "done" THEN "ok" ELSE IF spc = "err" THEN "err" ELSE "run",
    receiver <- IF rpc = "done" THEN "ok" ELSE IF ReceiverEnded THEN "err" ELSE "run",
    accepted <- done

\* The two loops, their streams and the write task come to FileDelivery: chunks
\* are accepted one by one, the bar follows, either Ok means all of them, and
\* another attempt starts from nothing once both calls have returned
\* (sender.rs:98-174, receiver.rs:24-302).
DeliversFile == Delivery!Spec

\* A resume that leaves nothing to send: accept_uni waits for the first byte of
\* a stream on which none is ever written (sender.rs:130-170, receiver.rs:105).
NothingToSend == pass = "serve" /\ toSend = {} /\ rpc = "accept" /\ ~streamSeen

\* Whatever fails, both calls return: no loop waits for a peer that is gone, and
\* the one wait without end is that for a stream that carries nothing
\* (sender.rs:98-174, receiver.rs:105-302).
BothSidesReturn == []<>((SenderEnded /\ ReceiverEnded) \/ NothingToSend)

=============================================================================
