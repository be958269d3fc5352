---------------------------- MODULE ChunkFraming ----------------------------
(***************************************************************************)
(* The bytes of a transfer: how a file is cut into chunks                  *)
(* (transfer/manifest.rs), a chunk into Noise sub-messages with a nonce    *)
(* each (session/mod.rs, session/coordinator.rs), and how the receiver     *)
(* puts them together again (transfer/receiver.rs).                        *)
(*                                                                         *)
(* A run of bytes is an interval, so every number is the program's own.    *)
(* Which chunk is sent when is the subject of DirectTransfer; here one     *)
(* frame at a time is on the stream.                                       *)
(***************************************************************************)
EXTENDS Integers, FiniteSets

CONSTANTS
    Sizes,         \* lengths the file may have
    NonceBase,     \* CHUNK_NONCE_BASE, 2^32; also bounds the control messages
    MaxDamage      \* bound: sub-messages that arrive damaged

ASSUME FramingAssumption ==
    /\ Sizes \subseteq Nat
    /\ NonceBase \in Nat
    /\ MaxDamage \in Nat

MaxPlain == 65519     \* MAX_PLAIN: plaintext of one Noise message
TagLen == 16          \* the authentication tag it grows by
MaxSubLen == 65535
SubSlots == 65536     \* nonces set aside for one chunk: 1 << 16

VARIABLES
    size,       \* manifest.total_size
    toSend,     \* chunks to be sent, for the first time or again
    frame,      \* frames on the data stream: none or one
    sub,        \* sub_idx of the receiver's loop; None between frames
    failed,     \* decrypt_failed
    plain,      \* plaintext of the frame so far, as pieces of the file
    advanced,   \* its length, as entered in the bar
    bar,        \* BYTES_DONE of the receiving process
    confirmed,  \* bytes of the accepted chunks
    done,       \* accepted chunks
    disk,       \* pieces written to the output file
    ctrl,       \* send_nonce of each side
    sealed,     \* what each side has encrypted, and under which nonce
    refused,    \* the receiver ended the transfer over a frame's lengths
    damaged     \* sub-messages damaged so far, and whether one is in the frame

rcv == <<sub, failed, plain, advanced, bar, confirmed, done, disk>>
vars == <<size, toSend, frame, rcv, ctrl, sealed, refused, damaged>>

None == -1
AtMost(a, b) == IF a <= b THEN a ELSE b
CeilDiv(a, b) == (a + b - 1) \div b

-----------------------------------------------------------------------------
(* Geometry.                                                               *)

chunk_size_for(n) == IF n <= 5000000 THEN 524288 ELSE 8388608
chunk_size == chunk_size_for(size)

\* Mutant: the remainder of the division gets no chunk.
chunk_count_Floor == size \div chunk_size

chunk_count == CeilDiv(size, chunk_size)
Chunks == 0 .. chunk_count - 1
Offset(c) == c * chunk_size
actual_chunk_size(c) == AtMost(size - Offset(c), chunk_size)

\* plaintext.chunks(MAX_PLAIN): the sub-messages of chunk c.
SubCount(c) == CeilDiv(actual_chunk_size(c), MaxPlain)
Subs(c) == 0 .. SubCount(c) - 1
SubFrom(c, i) == Offset(c) + i * MaxPlain
SubLen(c, i) == AtMost(actual_chunk_size(c) - i * MaxPlain, MaxPlain)

\* Mutant: one slot per 64 KB, although a sub-message holds a little less.
chunk_nonce_TightSlots(c, i) == NonceBase + c * 128 + i

chunk_nonce(c, i) == NonceBase + c * SubSlots + i

\* Mutant: the estimate of the comment, without the headroom.
max_payload_NoHeadroom == chunk_size + chunk_size \div 3000

max_payload == chunk_size + chunk_size \div 2048 + 4096

\* The u16 count, and per sub-message a u32 length, the bytes and the tag.
PayloadLen(c) == 2 + actual_chunk_size(c) + SubCount(c) * (4 + TagLen)

-----------------------------------------------------------------------------
(* Encryption.                                                             *)

SealedSub(c, i) == [side |-> "sender", nonce |-> chunk_nonce(c, i),
                    kind |-> "bytes", from |-> SubFrom(c, i), len |-> SubLen(c, i)]

\* send_ctrl: a message of this kind about chunk c (or None).
SealedCtrl(side, kind, c) == [side |-> side, nonce |-> ctrl[side],
                              kind |-> kind, from |-> c, len |-> 0]

\* The bound on ctrl is 2^32 messages in one session.
SendCtrl(side, kind, c) ==
    /\ ctrl[side] < NonceBase
    /\ ctrl' = [ctrl EXCEPT ![side] = @ + 1]
    /\ sealed' = sealed \cup {SealedCtrl(side, kind, c)}

Init ==
    /\ size \in Sizes
    /\ toSend = {} /\ frame = {}
    /\ sub = None /\ failed = FALSE /\ plain = {} /\ advanced = 0
    /\ bar = 0 /\ confirmed = 0 /\ done = {} /\ disk = {}
    /\ ctrl = [side \in {"sender", "receiver"} |-> 0] /\ sealed = {}
    /\ refused = FALSE
    /\ damaged = [count |-> 0, here |-> FALSE]

\* Mutant: the list of chunks to send includes chunk_count.
SendManifest_Inclusive ==
    /\ ctrl["sender"] = 0
    /\ SendCtrl("sender", "manifest", None)
    /\ toSend' = 0 .. chunk_count
    /\ UNCHANGED <<size, frame, rcv, refused, damaged>>

SendManifest ==
    /\ ctrl["sender"] = 0
    /\ SendCtrl("sender", "manifest", None)
    /\ toSend' = Chunks
    /\ UNCHANGED <<size, frame, rcv, refused, damaged>>

RecvManifest ==
    /\ ctrl["sender"] = 1 /\ ctrl["receiver"] = 0
    /\ SendCtrl("receiver", "ack", None)
    /\ UNCHANGED <<size, toSend, frame, rcv, refused, damaged>>

encode_chunk_frame(c) ==
    [index |-> c, payload |-> PayloadLen(c), count |-> SubCount(c) % 65536,
     subs |-> [i \in Subs(c) |-> SealedSub(c, i)]]

\* A new chunk or a NACKed one; in either case it is read from the file.
SendFrame(c) ==
    /\ ctrl["receiver"] > 0 /\ ~refused /\ frame = {} /\ c \in toSend
    /\ toSend' = toSend \ {c}
    /\ frame' = {encode_chunk_frame(c)}
    /\ sealed' = sealed \cup {SealedSub(c, i) : i \in Subs(c)}
    /\ UNCHANGED <<size, rcv, ctrl, refused, damaged>>

-----------------------------------------------------------------------------
(* The receiver's chunk loop, on the frame f.                              *)

ReadHeader(f) ==
    /\ sub = None /\ ~refused
    /\ IF f.payload > max_payload
       THEN refused' = TRUE /\ UNCHANGED sub
       ELSE sub' = 0 /\ UNCHANGED refused
    /\ failed' = FALSE /\ plain' = {} /\ advanced' = 0
    /\ damaged' = [damaged EXCEPT !.here = FALSE]
    /\ UNCHANGED <<size, toSend, frame, bar, confirmed, done, disk, ctrl, sealed>>

\* The sub-message decrypts under the nonce of its place in the frame.
ReadSub(f) ==
    /\ sub # None /\ sub < f.count /\ ~failed /\ ~refused
    /\ LET s == f.subs[sub] IN
          /\ s.nonce = chunk_nonce(f.index, sub)
          /\ s.len + TagLen <= MaxSubLen
          /\ plain' = plain \cup {[at |-> Offset(f.index) + advanced,
                                   from |-> s.from, len |-> s.len]}
          /\ advanced' = advanced + s.len /\ bar' = bar + s.len
    /\ sub' = sub + 1
    /\ UNCHANGED <<size, toSend, frame, failed, confirmed, done, disk, ctrl,
                   sealed, refused, damaged>>

\* Mutant: what the frame had added to the bar stays there.
ReadDamaged_NoRetract(f) ==
    /\ sub # None /\ sub < f.count /\ ~failed /\ ~refused
    /\ damaged.count < MaxDamage
    /\ damaged' = [count |-> damaged.count + 1, here |-> TRUE]
    /\ failed' = TRUE /\ sub' = f.count
    /\ advanced' = 0
    /\ UNCHANGED <<size, toSend, frame, plain, bar, confirmed, done, disk, ctrl,
                   sealed, refused>>

\* A sub-message does not decrypt: the rest of the frame is drained.
ReadDamaged(f) ==
    /\ sub # None /\ sub < f.count /\ ~failed /\ ~refused
    /\ damaged.count < MaxDamage
    /\ damaged' = [count |-> damaged.count + 1, here |-> TRUE]
    /\ failed' = TRUE /\ sub' = f.count
    /\ bar' = bar - advanced /\ advanced' = 0
    /\ UNCHANGED <<size, toSend, frame, plain, confirmed, done, disk, ctrl,
                   sealed, refused>>

\* A chunk that did not decrypt, or has the wrong length, is asked for again.
Nack(f) ==
    /\ sub = f.count /\ ~refused
    /\ failed \/ advanced # actual_chunk_size(f.index)
    /\ bar' = bar - advanced /\ advanced' = 0
    /\ SendCtrl("receiver", "nack", f.index)
    /\ toSend' = toSend \cup {f.index}
    /\ frame' = {} /\ sub' = None
    /\ UNCHANGED <<size, failed, plain, confirmed, done, disk, refused, damaged>>

\* Write it at its offset and report it.
AcceptChunk(f) ==
    /\ sub = f.count /\ ~failed /\ ~refused
    /\ advanced = actual_chunk_size(f.index)
    /\ disk' = disk \cup plain
    /\ done' = done \cup {f.index}
    /\ confirmed' = confirmed + actual_chunk_size(f.index)
    /\ SendCtrl("receiver", "progress", f.index)
    /\ frame' = {} /\ sub' = None /\ advanced' = 0
    /\ UNCHANGED <<size, toSend, failed, plain, bar, refused, damaged>>

Terminated == done = Chunks /\ ctrl["receiver"] > 0 /\ UNCHANGED vars

Next ==
    \/ SendManifest \/ RecvManifest
    \/ \E c \in toSend : SendFrame(c)
    \/ \E f \in frame : ReadHeader(f) \/ ReadSub(f) \/ ReadDamaged(f) \/ Nack(f)
                        \/ AcceptChunk(f)
    \/ Terminated

Spec == Init /\ [][Next]_vars

-----------------------------------------------------------------------------
(* Properties.                                                             *)

Sealed == [side : {"sender", "receiver"}, nonce : Nat,
           kind : {"manifest", "ack", "nack", "progress", "bytes"},
           from : Int, len : Nat]
Piece == [at : Nat, from : Nat, len : Nat]

TypeOK ==
    /\ size \in Sizes
    /\ toSend \subseteq Chunks
    /\ frame \subseteq {encode_chunk_frame(c) : c \in Chunks}
    /\ sub \in Nat \cup {None}
    /\ failed \in BOOLEAN /\ refused \in BOOLEAN
    /\ plain \subseteq Piece /\ disk \subseteq Piece
    /\ advanced \in Nat /\ bar \in Nat /\ confirmed \in Nat
    /\ done \subseteq Chunks
    /\ ctrl \in [{"sender", "receiver"} -> 0 .. NonceBase]
    /\ sealed \subseteq Sealed
    /\ damaged \in [count : 0 .. MaxDamage, here : BOOLEAN]

\* No side encrypts two different things under one nonce: not two control
\* messages, nor a control message and a chunk, nor sub-messages of different
\* chunks.  A retransmission repeats the same bytes, as long as nobody edits the
\* file meanwhile: it is read again (session/mod.rs:13-22, sender.rs:198).
NonceOnce ==
    \A a, b \in sealed : a.side = b.side /\ a.nonce = b.nonce => a = b

\* A received file is the file that was sent: every piece is where it was, no
\* two overlap, and together they reach from the first byte to the last
\* (transfer/receiver.rs:244-249).
FileRebuilt ==
    /\ \A p \in disk : p.at = p.from /\ p.len > 0 /\ p.at + p.len <= size
    /\ done = Chunks /\ ctrl["receiver"] > 0 =>
          /\ \A p, q \in disk : p # q => p.at + p.len <= q.at \/ q.at + q.len <= p.at
          /\ \A p \in disk : p.at = 0 \/ \E q \in disk : q.at + q.len = p.at
          /\ size > 0 => \E p \in disk : p.at + p.len = size

\* The receiver turns no frame away that arrived as it was sent: lengths,
\* counts and limits of the two sides agree for every chunk, the last and
\* short one included (transfer/receiver.rs:143, 179, 219).
UndamagedAccepted ==
    [][/\ ~refused'
       /\ (toSend' \ toSend # {} /\ frame # {}) => damaged.here]_vars

\* The receiver's bar counts the accepted bytes and those of the frame at hand,
\* none twice after a damaged one is sent again (transfer/receiver.rs:192-227).
ReceiverBarExact == bar = confirmed + advanced /\ bar <= size

=============================================================================
