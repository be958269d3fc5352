# P2PShare in TLA+

This directory is a verification development of P2PShare, the peer-to-peer file
transfer program in `src/`. It holds TLA+ modules translated from the Rust
source, TLC configurations that check them on small instances, and TLAPS proofs
of what holds for every instance.

Paths below are relative to `src/p2pshare-core/src/` unless they start with
`src/`. Each run finishes within a minute; all proofs check from nothing in
about three minutes.

- [The system](#the-system)
- [What is modelled](#what-is-modelled)
- [Runs](#runs)
- [Findings](#findings)
- [Proofs](#proofs)
- [Fairness](#fairness)
- [What is left out, and why](#what-is-left-out-and-why)
- [Plan](#plan)

## The system

Two users agree on a share code. The sender announces it, the receiver looks it
up, the two find a path to each other (LAN, hole-punched internet, or a relay),
run a Noise handshake over it and transfer one file.

| Part | Source | State | Operations | What makes it correct |
|---|---|---|---|---|
| Direct transfer | `transfer/sender.rs`, `transfer/receiver.rs`, `transfer/resume.rs` | per side: chunk sets, counters, one control stream each way, one data stream, an unbounded NACK channel between the sender's two loops, one background write, the saved `TransferState` | manifest, ack or resume, chunk frames, NACK, Progress, Complete, save, delete | no chunk lost or doubled; Ok on either side means a complete file; progress and saved state do not run ahead; every call returns |
| Relay transfer | `transfer/relay_sender.rs`, `transfer/relay_receiver.rs`, `session/relay_session.rs` | as above, but one TCP stream carries control and chunks, behind a read and a write mutex | as above; retransmission is done by the control loop itself | as above, plus: the control loop never starves the reader of Progress |
| Manifest and chunk geometry | `transfer/manifest.rs`, `session/mod.rs` | none (pure) | `chunk_size_for`, `actual_chunk_size`, `chunk_nonce` | chunks partition the file; no nonce is used twice |
| Progress and phase | `transfer/progress.rs`, `transfer/conn_status.rs` | process-wide atomics | reset, advance, set, get | what the UI reads belongs to the current transfer |
| Relay server | `src/p2pshare-relay/src/main.rs` | map from token to oneshot sender, one task per connection | accept, pair, time out, pipe | pairs are exclusive; no connection is lost; every wait ends |
| Relay client | `nat/relay.rs` | one TCP stream; process-wide proxy override | connect, send token, wait 90 s | is told it is paired only when it is |
| Connection coordinator | `session/coordinator.rs` | the racing arms of `select!` on each side, their timers | announce, look up, accept, hole punch, relay fallback, contact connect | both sides end on the same path, or both fail; one arm's failure does not sink another |
| Hole punching, STUN, QUIC | `nat/hole_punch.rs`, `nat/stun.rs`, `nat/quic.rs` | one UDP socket | punch both ways, give up after 35 s | one side's success implies the other's soon after |
| Noise handshake and encryption | `crypto/handshake.rs`, `session/` | three messages; per side a nonce counter for control messages, per chunk a range of nonces | perform_handshake, send_ctrl, encrypt_chunk | both sides hold the same transport keys; no nonce is used twice |
| Discovery | `discovery/` | DHT entries by hour, LAN announcements | announce, look up, expire | a code found is the code announced |
| Contacts and presence | `contacts/`, `discovery/presence.rs` | sqlite table, DHT entries per public key | add, list, remove, check | "online" means that contact announced |
| API and session registry | `api.rs` | global map from handle to session | begin, connect, drive, close | a handle is driven once; a closed one never |
| Identity and storage | `identity/` | `identity.json` | load, save, reset | survives a crash |
| Command line | `src/p2pshare-cli/src/main.rs` | none | send, receive, contacts | front end of the core |
| FFI bridge | `frb_generated.rs` | none | | generated code |

How they interact: the API or the command line calls the coordinator, which uses
discovery, hole punching and the relay client and returns a `Session`;
`send_file` and `receive_file` drive it, direct or over the relay. Both kinds of
transfer share the manifest, the resume state and the process-wide progress
counters. The relay server knows tokens and bytes only.

The behaviours that are hard here:

- **Interleaving inside one process.** The sender's two loops share a channel;
  the receiver writes chunk *n* in the background while it reads *n + 1*; relay
  handlers share a map whose mutex is released between a lookup and the
  registration that depends on it.
- **Ordering across streams.** NACKs, Progress and chunks travel on independent
  streams. Progress is an absolute count.
- **Failure and restart.** The connection, either process, a disk write or a
  decryption fails at any step. What was saved before is what a later attempt
  trusts.
- **Timeouts racing answers.** The relay's 60 s against the client's 90 s, hole
  punching at 35 s on each side, the coordinator's 7 s against 8 s.
- **Waiting on everyone.** A full data stream, a full control stream, a channel
  that must close, a stream that must be opened by its first byte.

`PROJECT.json` lists each hazard at its line, with the properties that watch it,
or the reason why none does.

## What is modelled

| Module | Stands on | What |
|---|---|---|
| `FileDelivery` | | what a transfer promises, whatever carries it |
| `DirectTransfer`, `RelayTransfer` | implement `FileDelivery` | the two transfers |
| `ChunkFraming` | | the bytes, nonces and frames under both |
| `RelayServer` | | the relay and its clients; `Connect` and `RelayTransfer` use its abstraction |
| `Connect` | | how a session comes about |
| `Sessions` | | the application's calls and their process-wide state |
| `Profile` | | the application's files: identity and contacts |

### `FileDelivery`

The abstract transfer: what each call has come to (`sender`, `receiver`), the
chunks `accepted`, the sender's `bar`. Chunks are accepted one by one or, once, as
an earlier transfer's (`Resume`); the bar only grows and never beyond what is
accepted (`Report`); either Ok takes the whole file (`SenderOk`, `ReceiverOk`); a
new attempt starts from nothing when both calls have returned (`StartOver`).
`DirectTransfer` and `RelayTransfer` instantiate it with a refinement mapping and
have its specification as the property `DeliversFile`. That rules out, among
others, a bar that falls back on a NACK or a resume, a sender's Ok that overtakes
the receiver, and a chunk accepted after the call has ended.

### `DirectTransfer`

`send_file_direct` against `receive_file_direct`, with the resume state and with
the file-system behaviour the receiver relies on. Whole transfers are repeated:
`Retry` is the user starting over, with a new manifest and whatever the receiver's
directory still holds.

| Variables | Code |
|---|---|
| `attempt`, `sid`, `faults` | which transfer this is, the `session_id` drawn by `build_manifest`, the fault budget |
| `conn`, `offered`, `up`, `data`, `streamSeen` | the QUIC connection, the manifest on the control stream, the receiver's control messages, the chunk frames, whether the uni stream exists for the peer |
| `spc`, `ctrlDone`, `bar` | the sender: negotiation, `ctrl_loop` ended, its progress bar |
| `pass`, `toSend`, `nackQ` | `send_loop`: between chunks (`"pass"`), draining `try_recv` (`"drain"`), waiting in `recv` (`"serve"`); chunks left; the channel |
| `rpc`, `cur`, `done`, `confirmed`, `sinceAck`, `sinceSave` | the receiver: where it is, the decrypted chunk in hand, `state.chunks_done` (the local `pending` is its complement), its counters |
| `w`, `wst` | the background write task and its result |
| `astray` | an observer: chunks the pool wrote elsewhere, wrote over, or failed to write unreported |
| `pool`, `cursor`, `disk` | pieces tokio's blocking pool has still to write, the file offset all the cloned handles share, what the file holds |
| `stateFiles`, `saved` | which saved states are readable, and what they say |

| Actions | Code |
|---|---|
| `SendManifest`, `RecvReply` | `sender.rs:29-96` |
| `CtrlProgress`, `CtrlNack`, `CtrlComplete` | `ctrl_loop`, one per arm |
| `SendNext`, `Retransmit`, `Drained`, `SendFinish` | `send_loop`: a chunk of the pass, a NACK from the channel, `try_recv` empty, `recv` returning `None` |
| `Negotiate`, `AcceptData` | manifest, `find_resumable` or a fresh file, reply; `accept_uni` |
| `ReadFrame`, `ReadDamaged`, `ReadMalformed` | the head of the chunk loop and its three outcomes |
| `StartWrite`, `AckAndSave`, `SaveDone` | await the previous write and spawn the next; Progress; the throttled save |
| `FinalWait`, `FinalSaveDone`, `SendComplete`, `Cleanup` | after the loop |
| `Seek`, `HandOver`, `Land` | the write task: `seek`, `write_all` returning, the last piece reaching the file |
| `SenderConnError`, `ReceiverConnError`, `SenderReadError`, `DiskError`, `WriteError`, `TailError`, `LoseConnection`, `Crash` | every error return, and what causes it |

Choices that need a word:

- **A chunk is an index.** Sizes and offsets do not influence the control flow,
  so progress is counted in chunks. A frame is written and read in one step; a
  frame cut short by a lost connection counts as not read.
- **A save takes two steps**, because `std::fs::write` truncates first: between
  them the state file is unreadable, which is what `TransferState::load` then
  reports as absent.
- **A dead connection may still deliver what had arrived.** The reader may take a
  message from a dead connection or fail; that covers any loss in flight,
  `Complete` included, which the receiver sends right before dropping the
  session.
- **`write_all` on a tokio file** returns when its last piece has been handed to
  the blocking pool, and nothing flushes it. `Land` is that piece reaching the
  file. If the shared offset has been moved in between, it lands elsewhere.
  `PoolInOrder` says whether the pool keeps the order of submission; the real
  pool does not promise it, and `direct_write_order` shows what follows. What
  the receiver promises of its bookkeeping is therefore stated without it:
  `astray` collects what the pool itself loses, and `AstrayIsPool` says that a
  pool in order, whose errors are seen, loses nothing.
- **`session_id`** is 160 random bits per send. `ReuseIds = TRUE` adds the draw
  that repeats an earlier one: it is the only way into the resume path, and the
  path is checked through it. A resumed transfer trusts what the earlier one
  recorded, chunks that a dead receiver never wrote included, so what is claimed
  of the file is claimed of attempts with a new id (`NewId`).
- **`Retry` waits for `Quiet`**: a new connection takes seconds to set up, the
  writes a failed attempt left behind do not.

### `RelayTransfer`

`send_file_relay` against `receive_file_relay`, over the two directions of one TCP
stream that the relay pipes.

| Variables | Code |
|---|---|
| `offered`, `fwd`, `back` | the manifest, the chunks and the receiver's messages on the stream |
| `left`, `cut` | who has dropped the session; whether the connections are closed or reset |
| `spc`, `toSend`, `ctrlDone`, `bar` | the sender, as in `DirectTransfer` |
| `writers`, `held` | the fair mutex of the write half: who holds it and who waits, each with an encrypted chunk |
| `rpc`, `cur`, `done`, `confirmed` | the receiver |
| `tail`, `disk`, `saved` | the last piece of a chunk not yet in the file, the file, the saved state |

| Actions | Code |
|---|---|
| `SendManifest`, `RecvReply` | `relay_sender.rs:34-72` |
| `SendNext`, `WriteChunk` | `send_loop`; `send_chunk_raw`, for whichever loop holds the mutex |
| `CtrlProgress`, `CtrlNack`, `CtrlComplete` | `ctrl_loop`, which retransmits by itself and so reads nothing while it waits to write |
| `Negotiate`, `ReadChunk`, `ReadDamaged`, `SendNack`, `Report`, `SaveState`, `SendComplete`, `Cleanup` | `relay_receiver.rs`, in its order |
| `SenderConnError`, `ReceiverConnError`, `SenderReadError`, `DiskError`, `Reset`, `Quit` | the error returns and their causes |
| `RelayBreaks` | the relay fails to write to a side that has gone, and closes the other |

Here the file has one handle, and tokio makes an operation on a handle wait for
the one before, so `Land` cannot be overtaken as in `DirectTransfer`. An earlier
transfer's state is an initial value (`saved`): as `session_id` is drawn per send,
only the empty one is met in practice. A crash leaves the last piece unwritten
(`Quit`).

The control loop reads no message while it waits to write a retransmission, and the
receiver reads no chunk while it waits to write a message. When both directions are
full at that moment they wait for each other for good: `Jammed`, which `relay_jam`
reaches and which is a state the model may stop in.

### `RelayServer`

`handle` of the relay and `connect_via_relay_at` of its clients. A handler is
named by the connection it was spawned for. Each access to the map is a step of
its own, as the mutex guard lives for one statement.

| Variables | Code |
|---|---|
| `token`, `cst`, `sent`, `signalled` | the clients: code, progress, token on the wire, pairing byte written to them |
| `sock`, `hst` | the relay's end of each connection, its handler |
| `waiting`, `took`, `peer` | the map; the sender a handler took out of it; what a handler's oneshot delivered |
| `copying` | directions of a pipe still running |

| Actions | Code |
|---|---|
| `Connect`, `SendToken`, `Paired`, `Refused`, `Leave` | `nat/relay.rs:59-90`; `Leave` is also a timeout, a kill, a lost network |
| `ReadToken`, `ReadFails` | `main.rs:40-43` |
| `Check`, `Give` | `main.rs:46-53`: take a sender out of the map, hand the stream over; if the other side gave up, the stream is dropped |
| `Register`, `Receive`, `GiveUp`, `Cleanup` | `main.rs:55-63, 83-88` |
| `Signal`, `SignalPeer` | `main.rs:65-71`: two writes, either may fail |
| `CopyEnds`, `CopyFails`, `PipeDone` | `main.rs:77-82` |

Timers are not counted: `GiveUp` and `Leave` may happen at any time, which
covers every relation between 60 s and 90 s.

### `Connect`

One of the sender's calls against one of the receiver's, for one share code.
`announce_and_connect_with_code` and `lookup_and_connect` are each a `select!` of a
LAN arm and an internet arm, so four arms run concurrently over three paths:
`"lan"`, `"net"` (the hole-punched QUIC connection) and `"relay"`. The LAN-only
calls are the LAN arm by itself, the relay-only calls the end of the internet arm.
Every kind of call meets every other, as two users may choose.

| Variables | Code |
|---|---|
| `lan`, `net` | where each side's arms are; `"off"` is a disabled or dropped arm |
| `res` | what each call returned: a path, which stands for the session over it, or an error |
| `allow`, `alive` | the argument `allow_relay` of each call; the sides whose user has not quit |
| `mode`, `hour` | the kind of each call (`LanStart`, `NetStart` say where it begins), and the hour in which it began |
| `onDht`, `punching`, `reg` | who has announced itself, the punches sent, the relay's map |
| `up`, `left`, `lost` | paths that were connected, who has dropped its end, which are cut |
| `msgs` | Noise messages written on each path |

| Actions | Code |
|---|---|
| `LanFound`, `LanGivesUp`, `LanConnect` | `session/coordinator.rs:253-268`, `402-424` |
| `Lookup`, `Poll`, `NotFound`, `FoundPeer` | the DHT and the choice between the same network and punching: `coordinator.rs:285-322`, `438-496`, `739-765` |
| `PunchHeard`, `FallBack` | `nat/hole_punch.rs`; its time-out, the 7 s or 8 s left to the LAN arm on the same network, and `allow_relay`: `coordinator.rs:294-302`, `351-359`, `467-476`, `532-539` |
| `QuicConnect`, `QuicTimeout` | `coordinator.rs:324-343`, `501-524` |
| `RelayArrive`, `RelayTurnsAway`, `RelayBreaks` | `nat/relay.rs:58-90` and the relay, in the abstraction below |
| `Hello`, `Reply`, `InitiatorDone`, `ResponderDone`, `ShakeFails` | `crypto/handshake.rs:55-96` |
| `Return`, `NetFails`, `LanFails` | how `select!` ends and what it drops: `result => result?` on the sender, `Ok(session) =` and `else` on the receiver |
| `Lose`, `Quit` | the environment |

Choices that need a word:

- **Timers are free.** Each may fire at any moment of the wait it guards, which
  covers every relation between the 8, 15, 30, 35, 60 and 90 seconds.
- **`FoundPeer` is a free choice on each side**, because STUN may fail on one
  side only; then one side takes the other to be on the same network and the
  other does not.
- **The hour** is part of both infohashes and drawn when the call begins; of the
  actual hour only matters whether it is the same on both sides (`Announced`). It
  is in nothing a LAN-only or a relay-only call is found by, so a code that only
  these use does not expire, whatever the manual says.
- **The relay comes after the DHT** in a call that races: it falls back when a
  punch fails, never when the lookup does. A relay-only sender is not on the DHT
  and is met by a relay-only receiver alone, against the manual.
- **The relay** is what `RelayServer` describes, for the two clients of one code:
  it files the first, joins the second with it, may lose both in a race, and may
  hold a registration whose client has gone. It notices a client that left when
  it writes to it.
- **A write to a cut path may go unnoticed**; a read fails. A QUIC connection the
  peer closed fails the read, a relayed one does not.
- **The initiator has no await after its last write**, so the third handshake
  message and the receiver's return are one step. This is why at most one path
  ever carries a third message.
- **The sender's internet arm ends the call**, LAN arm and all, when it fails:
  the comment at `coordinator.rs:282-284` knows it, and the model does the same.

### `ChunkFraming`

One frame at a time from the file to the output file, with the program's own
constants: 512 KB and 8 MB chunks, 65519 bytes of plaintext per Noise message,
65536 nonces per chunk. A run of bytes is an interval.

| Variables | Code |
|---|---|
| `size`, `toSend`, `frame` | the manifest's length, the chunks to be sent (again), the frame on the stream |
| `sub`, `failed`, `plain`, `advanced` | the receiver's loop over sub-messages: index, `decrypt_failed`, the plaintext so far and its length |
| `bar`, `confirmed` | the receiver's `BYTES_DONE`, the bytes of accepted chunks |
| `done`, `disk` | accepted chunks, pieces in the output file |
| `ctrl`, `sealed` | each side's `send_nonce`, everything encrypted with its nonce |
| `refused`, `damaged` | the transfer ended over a frame's lengths; the damage so far |

| Actions | Code |
|---|---|
| `SendManifest`, `RecvManifest`, `SendFrame` | `transfer/sender.rs:29-40`, `transfer/receiver.rs:86-91`, `sender.rs:181-216`, with `send_ctrl` and `encrypt_chunk` of both sessions |
| `ReadHeader`, `ReadSub`, `ReadDamaged` | `receiver.rs:146-203` |
| `Nack`, `AcceptChunk` | `receiver.rs:210-265` |

`NonceBase` is 2^32 in the code and small in the run, as TLC's integers have 32
bits; the guard of `SendCtrl` makes it what the code takes it to be, a bound on
the control messages of a session.

### `Sessions`

The transfer calls of `api.rs`, concurrent with each other and with the user
interface's thread. A call that connects is the same for every kind of path.

| Variables | Code |
|---|---|
| `pc`, `hold`, `handle` | where each call is, the session it owns, its handle |
| `born`, `registry`, `nextId`, `given` | sessions so far, `SESSION_REGISTRY`, `NEXT_SESSION_ID`, handles the application has |
| `layer`, `client` | `DHT_LAYER`, the client each call works with |
| `role`, `size`, `moved`, `stores` | the transfer of a call, and the stores of its `progress::reset` still to come |
| `total`, `bytes` | `BYTES_TOTAL`, `BYTES_DONE` |
| `mixed`, `poll` | observers: another transfer ran beside the current one; a poll half read |

| Actions | Code |
|---|---|
| `Begin`, `GetDht`, `SetDht`, `Connected`, `Insert` | `api_begin_send*`, `api_connect_*`, `get_dht`, `store_session`: `api.rs:44-57`, `278-350`, `432-485`, `511-532` |
| `Drive`, `ConnectedOneShot`, `CallReturns` | `api_drive_*` and the calls without a handle: `api.rs:353-425`, `446-451`, `488-508` |
| `Reset`, `Advance`, `Retract`, `Load`, `PollDone` | `transfer/progress.rs`: relaxed atomics, so the two stores of a reset and the two loads of a poll come in either order |
| `CloseSession` | `api.rs:546-548` |

### `Profile`

`identity.json` and `contacts.db` under the calls that write them, which run one
at a time on the user interface's thread, and the async calls that load the
identity beside them.

| Variables | Code |
|---|---|
| `file`, `stored` | `identity.json`: absent, truncated or readable, and what it says |
| `upc`, `op`, `arg`, `mem`, `naming`, `told` | the running reset or rename, its argument, the identity in memory, what the call answered |
| `book` | the table of contacts, with the public key stored for each |
| `cpc`, `seen`, `target` | the async calls, what each loaded, the contact it connects to |
| `hit`, `quiet` | observers: a fault struck the last call; no write or crash since an async call began |
| `keys`, `faults` | bounds |

| Actions | Code |
|---|---|
| `StartOp`, `Remove`, `LoadOrCreate`, `Truncate`, `Write` | `api_reset_identity` over `identity/storage.rs:64-99`, with its two saves |
| `LoadForRename` | `api_set_display_name` |
| `SaveFails`, `Crash` | a write that fails, a process that dies; both may leave the file truncated |
| `GetIdentity`, `AddContact`, `RemoveContact` | `api.rs:143-153`, `198-220` |
| `StartCall`, `LoadExists`, `LoadRead`, `Return` | `load()` of any async call, which looks for the file and then reads it |
| `ConnectContact` | `session/coordinator.rs:774-869` in outline |

### MC modules

`MCDirectTransfer` and `MCRelayServer` hold the statements of comments that the
runs refute (`NacksAreSent` stands in `RelayTransfer` beside `CallsReturn`).
Operators whose name
has the form `Action_Something`, with a comment starting "Mutant:", are
deliberately wrong variants of the definition that follows them; nothing uses
them, and replacing the definition by its variant must break the property the
mutant is listed with in `PROJECT.json`.

## Runs

Distinct states in parentheses.

| Run | Question | Instance |
|---|---|---|
| `direct_faults` (451k) | Does anything that can go wrong lose or double a chunk, make either Ok a lie, let the bar or the saved state run ahead, make the two sides skip different chunks, or leave a call waiting? | 4 chunks, two attempts, the second fresh or resumed, three faults of any reported kind |
| `direct_delivers` (187k) | Does every transfer come to its end over a pool in any order, whose last error is never reported, and what can then be missing from the file? | 4 chunks, one attempt, three damaged frames or unreported errors |
| `relay_transfer` (157k) | The same questions for a transfer through the relay, and: what do the two loops, the mutex and the two directions ever wait for in a circle? | 5 chunks, room for one chunk one way and two messages the other, three faults |
| `relay_service` (13k) | Is any connection lost, served twice, joined twice; does every wait and every abandoned pipe end? | 3 connections with one token |
| `connect_race` (50k) | Do the two calls end on one path, whatever kinds they are, whatever is lost and whoever quits? | every pair of calls, `allow_relay` and hours; every path may be lost, both users may quit |
| `chunk_framing` (7k) | Is the received file the sent one, and each nonce used once? | six lengths at the boundaries: 0, 1, one chunk, one byte more, the first lengths with chunks of 8 MB; two damaged sub-messages |
| `app_sessions` (1.2M) | What do concurrent calls do to each other through the process-wide state? | two calls at a time, three sessions, files of one and two units |
| `app_profile` (259k) | What do crashes, failed saves and readers beside a save see of the two files? | two keypairs, two names, one contact, two async calls, two faults |
| `direct_empty_file`, `direct_write_order`, `relay_two_first`, `relay_jam` | Is a statement of a comment true? | the smallest instance that answers |

Properties:

- `ChunkInOnePlace`: while a transfer runs, every chunk the receiver lacks is in
  exactly one place: to be sent, on the wire, in the receiver's hand, in a NACK,
  or in the NACK channel. It rules out that read-ahead, NACKs that overtake
  chunks and retransmissions lose one or produce a second copy.
- `DeliveredWhenSent`: `send_file` returns Ok only when the receiver has accepted
  everything and has awaited its last write.
- `StoredWhenDone`: when `receive_file` returns Ok for a new id, every chunk is in the file, in
  the blocking pool, or lost by the pool (`astray`). A failed write the program
  could see never ends in Ok, however late it surfaces.
- `OneWriteBehind`: of the chunks counted as done under a new id and not lost by the
  pool, only the one being written can be missing. It bounds what a crash can make the saved
  state claim.
- `DeliversFile`: each transfer implements `FileDelivery`; among others the bar
  neither leads the receiver nor moves back.
- `TransferCompletes`, `BothSidesReturn`: liveness of one transfer. The first says
  that every chunk is accepted and `receive_file` returns Ok; what the file then
  holds is what `StoredWhenDone` says. The second excuses one wait, `NothingToSend`:
  a resume that has everything already, which is `direct_empty_file` again.
- `OneHolder`, `PairsAreExclusive`, `RegistrationHasWaiter`: a relay connection is
  open exactly while one handler owns it; pairs are exclusive and share a token;
  the map offers only handlers without a peer that have not ended; one may have
  given up already and be about to clean up.
- `EveryWaitEnds`, `AbandonedPipeEnds`: liveness of the relay.
- `SenderFollowsReceiver`: the sender returns a session only on the path the
  receiver has returned, although each call picks its path alone. The converse
  does not hold, and `OrphansAreClosed` says what happens instead: a direct
  session the sender did not take is seen to be closed.
- `LanSurvives`: no failure of the receiver's internet arm ends a LAN handshake.
- `SameHourOverDht`: calls of different hours never end in a hole-punched session,
  nor in a relayed one unless both were relay-only. This is the only expiry of a
  code; the manual claims more.
- `CallsReturn` (`Connect`): each call returns; the waits without end are a relay
  handshake whose other side has left (`AloneAtRelay`) and a LAN-only sender whose
  receiver has given up (`ListensAlone`).
- `CallsReturn` (`RelayTransfer`): likewise, a side that only listens to a peer that
  has gone waits without end, as the relay keeps its connection open, and so do both
  sides of a jam. Nothing else does.
- `SavedOneBehind`: `OneWriteBehind` for the relay's receiver.
- `NonceOnce`: no side encrypts two different things under one nonce, across
  control messages, chunks and retransmissions.
- `FileRebuilt`, `ReceiverBarExact`, `UndamagedAccepted`: the pieces written tile the
  file; the receiver's bar counts accepted bytes and those of the frame in hand; no
  length check of the receiver refuses what the sender wrote.
- `OwnedOnce`, `HandleKeepsSession`: a session belongs to one call or to one entry
  of the registry; a handle never comes to mean another session.
- `OneDhtClient`: calls that raced to create the DHT client share the winner's.
- `PollWithinTransfer`: a poll that begins and ends while one transfer runs alone
  reads that transfer's length and no more bytes than it. With two transfers, or
  during the two stores of a reset, it may not, which is why the property excludes
  them.
- `QuietLoadsSucceed`: a load that no write and no crash overlaps finds exactly what
  the last call told the user.
- `ResetHeals`: a reset leads from any file, an empty one included, to a readable
  identity, unless a fault strikes the reset itself.

Why the bounds are enough. Four chunks with `AckInterval = 2`, `SaveInterval = 3`
and `Window = 2` give chunk counts that are and are not multiples of the
intervals, a Progress and a save before the end, a full data stream, and a NACK
in each of the send loop's three positions. Three faults allow a retransmission
to be damaged again, a failure during recovery, and a crash after a failed
attempt. Two attempts are enough, since an attempt starts from the disk, the saved
states and nothing else. In the relay a mix-up takes a first peer, a second, and a
late third that registers while the first gives up: three connections with one
token. In `relay_transfer` both directions fill up, and five chunks are as many as the two
directions, the control loop and the receiver hold together (`Forward + Back + 2`),
the least with which a jam is possible; `relay_jam` takes the same instance. In the
program the way back holds thousands of reports, and a jam takes a file of at least
as many chunks. Different tokens share no state. The safety properties of the relay are
proved for any number of connections and tokens. `connect_race` has no bound but
the one pair of calls: a share code is used by one sender and one receiver. The
lengths of `chunk_framing` have no chunk, a one-byte chunk, a full one, a full one
followed by one byte, and the two largest kinds of chunk, with 129 sub-messages.
Two damaged sub-messages suffice for a retransmission that is damaged again. Two
calls of `app_sessions` are a race for every process-wide value; the third session
is the one a wrongly drawn handle would collide with. In `app_profile` the two
faults are a crash in the middle of a save and a failure of the repair.

Deadlock is checked except in `direct_empty_file` and `direct_faults`. In both
the system really stops: on a transfer with no byte to send, an empty file or a
fully resumed one, the receiver waits in `accept_uni` for ever.

## Findings

Each is a run with `expect: violation`; `PROJECT.json` quotes the texts.

- `direct_empty_file`: `accept_uni` waits for the first byte of a stream, and an
  empty file has none. The comment says it completes without meaningful delay.
- `direct_write_order`: awaiting the write task does not await its last piece, so
  the next task's seek can redirect it.
- `relay_two_first`: the relay's check for first or second peer is not atomic;
  two peers arriving together both register, and the first one's sender is
  dropped.
- `relay_jam`: a NACK is said to be picked up and answered while chunks are still
  transmitted; the control loop that would pick it up may itself be waiting to
  write a retransmission, with both directions full.

More statements are contradicted, without a run of their own:

- `src/README.md:85` has a receive without `--relay` reach a relay-only sender: "No
  `--relay` flag needed even if the sender used relay-only mode". The receiver goes
  to the relay only after it has found the sender on the DHT
  (`session/coordinator.rs:440-445`), where that sender is not, and fails. In
  `Connect`, such a pair of calls ends in `NotFound`.
- `src/README.md:136` has codes "valid for 1 hour" and expire automatically. On the LAN
  and between relay-only calls they do not: neither the LAN announcement nor the
  relay token contains the hour. The specification's row for expired codes
  (`src/p2pshare_protocol_spec.md:1165`) speaks of the DHT alone and is
  `SameHourOverDht`.
- `api.rs:222` and `src/p2pshare_protocol_spec.md:895` have contacts shown online by
  their entry on the DHT. `api_add_contact` stores an empty public key and no call
  fills it in, so all are looked up under SHA1 of the empty string: whoever announces
  there makes every contact online, and a contact that is online makes no difference.
- `src/p2pshare-cli/src/main.rs:270` says "Public key verified on first connection", and
  `api.rs:510` "Connect to a known contact". `connect_to_contact` refuses the empty key
  at once, so there is no first connection; what lies behind that gate (the cached
  address, the announcement under the contact's own infohash) is not reached by any
  contact.
- `src/p2pshare_protocol_spec.md:1168` and `src/tests/TESTING.md:233` say that a
  reconnection resumes; the saved state is looked up by `session_id`, which
  `build_manifest` draws anew for every send.
- `src/p2pshare_protocol_spec.md:1193`: the relay "closes both connections when
  either disconnects"; the other's stays open for as long as it only listens.
- `src/tests/TESTING.md:346` has both machines fall back to the relay at the same
  time; when the sender has heard a punch and the receiver has not, only the
  receiver does, and both calls fail.
- `session/coordinator.rs:561`: the LAN-only sender "fails fast if no peer
  connects"; its accept has no timer (`ListensAlone`).
- `resume.rs:13` says that `chunks_done` holds chunks "written and verified", but it
  is saved before the newest chunk's write has landed; `OneWriteBehind` and
  `SavedOneBehind` give the exact distance. Progress, described as counting
  "written" bytes (`transfer/receiver.rs:137-138`), is sent while that write is
  outstanding.
- `transfer/receiver.rs:140-142`: the framing is at most chunk/3000 "for any chunk
  size"; for 512 KB it is 182 bytes against 174. The limit has room enough
  (`UndamagedAccepted`), and its mutant is the limit of the comment.
- `api.rs:122-124`: a poll returns the progress of "the current or most-recent
  transfer"; with two transfers it may mix them.

## Proofs

TLAPS checks these for every value of the constants that satisfies the assumption
of the module: `ConstantsAssumption` (`DirectTransfer`), `RelayTransferAssumption`,
`ClientsAssumption` (`RelayServer`), `ConnectAssumption`, `FramingAssumption`,
`SessionsAssumption` and `ProfileAssumption`. They say no more than what kind of
value each constant is, so the theorems hold for any number of chunks, attempts
and faults, a pool in order or not, any intervals and window, files of any length, any sets of clients and
tokens, any kinds of calls, paths that fail and users who quit. Every invariant and
every action property that a passing run checks is stated by a theorem, and so are
both refinements; what is left to TLC alone is liveness.

| Theorem | States |
|---|---|
| `DirectTransferProofs!TypeCorrect` | `TypeOK` |
| `DirectTransferProofs!ChunksConserved` | `ChunkInOnePlace` |
| `DirectTransferProofs!SenderOkMeansDelivered` | `DeliveredWhenSent` |
| `DirectTransferProofs!BarIsConfirmed` | `BarWithinAccepted` |
| `DirectTransferProofs!ReceiverOkMeansStored` | `StoredWhenDone` |
| `DirectTransferProofs!BookkeepingOneBehind` | `OneWriteBehind` |
| `DirectTransferProofs!OnlyThePoolLoses` | `AstrayIsPool`: a pool in order, whose errors are seen, loses nothing |
| `DirectDeliveryProofs!DirectImplementsDelivery` | `DeliversFile` |
| `RelayTransferProofs!TypeCorrect` | `TypeOK` |
| `RelayTransferProofs!ChunkIsInOnePlace` | `ChunkInOnePlace` |
| `RelayTransferProofs!SavedIsOneBehind` | `SavedOneBehind` |
| `RelayTransferProofs!RelayImplementsDelivery` | `DeliversFile` |
| `RelayTransferProofs!JamsTakeLongFiles` | `SmallFilesNeverJam`: a jam takes `Forward + Back + 2` chunks |
| `RelayServerProofs!RelayTypeCorrect` | `TypeOK` |
| `RelayServerProofs!PairingIsExclusive` | `PairsAreExclusive` |
| `RelayServerProofs!NoStaleRegistration` | `RegistrationHasWaiter` |
| `RelayServerProofs!OneHandlerPerConnection` | `OneHolder` |
| `ConnectProofs!ConnectTypeCorrect` | `TypeOK` |
| `ConnectProofs!SessionsAgree` | `SenderFollowsReceiver` |
| `ConnectProofs!LanArmSurvives` | `LanSurvives` |
| `ConnectProofs!OldCodesFindNobody` | `SameHourOverDht` |
| `ChunkFramingProofs!TypeCorrect` | `TypeOK` |
| `ChunkFramingProofs!NoncesAreUsedOnce` | `NonceOnce` |
| `ChunkFramingProofs!FileIsRebuilt` | `FileRebuilt` |
| `ChunkFramingProofs!BarIsExact` | `ReceiverBarExact` |
| `ChunkFramingProofs!UndamagedIsAccepted` | `UndamagedAccepted` |
| `SessionsProofs!SessionsTypeCorrect` | `TypeOK` |
| `SessionsProofs!SessionsAreOwnedOnce` | `OwnedOnce` |
| `SessionsProofs!HandlesMeanOneSession` | `HandleKeepsSession` |
| `SessionsProofs!DhtClientIsShared` | `OneDhtClient` |
| `SessionsProofs!PollsReadOneTransfer` | `PollWithinTransfer` |
| `ProfileProofs!TypeCorrect` | `TypeOK` |
| `ProfileProofs!QuietLoads` | `QuietLoadsSucceed` |

The argument for the direct transfer goes in four layers, each an inductive
invariant on top of the one before:

1. `TypeInv`: types, and the ranges of the counters at each point of the loop.
   `sinceAck` stays below its interval only because the receiver tests it after
   each chunk; `cur` is pending while it is held; `confirmed` is the number of
   accepted chunks.
2. `PlaceInv` adds `ChunkInOnePlace` and `StartInv`: before the sender's loops
   start nothing is on its way, and the one reply on the control stream carries
   what the receiver has. Without it a resume could skip the wrong chunks.
3. `ReportInv`: no Progress in flight exceeds what is accepted, and a `Complete`,
   read or in flight, means that everything was accepted and the last write
   awaited.
4. `StoreInv`: the saved states belong to earlier attempts or this one, a fresh
   transfer finds none, and what one with a new id has done is in the file, in the
   pool, astray, or the one chunk whose write is outstanding. Nothing is assumed of
   the pool: a piece that lands elsewhere, and what it lands on, is astray, and a
   failed write is seen before the next is spawned or after the loop.

`OnlyThePoolLoses` is the other half, with an invariant of its own (`PoolInv`): in
order and with no unreported error at most one piece is in the pool, the one the
offset points at, so that nothing is ever astray. The two together say that Ok
means a complete file exactly as far as the pool does what the code takes it to do,
and `direct_write_order` shows the file when it does not.

That it implements `FileDelivery` takes one invariant more, `OrderInv`: the reports
in flight grow, none is below the bar, and a bar whose control loop has ended is
full. Initial states map to initial states; each action then maps to one step of
`FileDelivery` or to a stutter, with the layers above as its guards: `ReportInv` for
the two Oks, `PlaceInv` for a resume, which must find nothing accepted, and for an
acceptance, which must find the chunk new.

`RelayTransfer` interleaves first transmissions and retransmissions on one stream
under one lock, and its invariant is built around that. `Where` names the seven
places a chunk can be in (to be sent, held by the send loop, held by the control
loop, on the stream, in the receiver's hand, asked for again, accepted), and
`PlacesInv` says that no two of them share a chunk and, while the session stands,
that together they have all. Each action is then shown to move one chunk from one
place to another (`Moved`) or to lose some (`Lost`), and two lemmas say what either
does to `PlacesInv`. It needs the types, which tie a loop's place in the queue for
the lock to the chunk it holds, `Once(writers)`, which no run lists (a loop that
queued twice would write twice), and `StartInv`: the reply is the first message back and
lists what the receiver has. `FileInv` puts the last piece in the file or with the
pool; `ReportInv` is to the reports what it and `OrderInv` are in the direct
transfer, and gives the refinement.

`JamsTakeLongFiles` counts. In a jam every place on both directions is taken, the
ctrl loop and the receiver hold one chunk more each, and the chunks on the way, in
hand, reported and asked for again are different ones: those still on the way or
asked for again by `PlacesInv`, those reported because each report in flight counts
one chunk more than the one before it and none beyond those accepted. Together they
are `Forward + Back + 2`, and no more than the file has.

For the framing, all the arithmetic is in one lemma, `Cut`: of the k pieces that n
bytes are cut into, k being n/b rounded up, all but the last are full and the last
ends at n. `ChunkGeometry` and `SubGeometry` are its two uses, for the chunks of
the file and the sub-messages of a chunk; the second adds that 129 sub-messages
suffice, which keeps the nonces of two chunks apart and the 16-bit count whole. In
these terms `ReadInv` says what the receiver has of the frame at hand, namely the
first `sub` pieces of its chunk, so that a frame read to the end has the length
the receiver compares with, and `KeptInv` that the output file holds the pieces of
the accepted chunks and `confirmed` their bytes (`BytesOf`). `SealInv` follows the
nonces: a control message's is below its side's counter, every other belongs to
one sub-message.

For the relay server, `PairInv` says that a sender is in exactly one place: in the map,
taken by one handler, or used (`TakenOnce`, `DeliveredOnce`); from it follow the
exclusive pairs and the clean map. `OpenIsHeld` adds that a connection is open
exactly while it has an owner.

For `Connect`, `SenderFollowsReceiver` needs three facts to become inductive: the
third handshake message is on a path only if the receiver has returned that path
(`ThirdIsLast`), a sender that returned a path found the third message on it
(`SenderHasThird`), and a call that has returned has no arm left (`NoArmLeft`),
so neither fact can be undone. `LanArmSurvives` is an action property; it needs
the types only, and one case per action. `SameHourOverDht` follows from `MeetInv`: an
arm past the DHT, an announcement of the receiver, a call or a registration at the
relay each imply that the two calls can find each other (`Met`), or that this one
began at the relay.

For `Sessions`, `OwnInv` adds to `OwnedOnce` that no session in use is newer than
the last one established, so the next one is nobody's. `HandlesFresh` says that
handles are drawn in order and that the one a call is about to store is not given
yet and no other call's; with it `HandleKeepsSession` holds step by step.
`PollWithinTransfer` needs what the counters hold between polls: a transfer that
was alone when it started and still is has them to itself (`Alone`), its stores
are made before its first byte (`AtReset`), and while a poll is followed there is
at most one running transfer and it is the one the poll began in (`Followed`).

For `Profile`, `ToldInv` follows an identity between the user interface and the
calls beside it: what was told is in the file, and a call that nothing has
disturbed has been told something. `WriteInv` adds that a save has an identity to
write.

`BarIsConfirmed`, `OnlyThePoolLoses` and `JamsTakeLongFiles` are listed by no run:
`DeliversFile` implies the first, and is one half of its `Report`; of the second and
the third the runs show the other side, what goes astray and what jams. Only model-checked is all liveness (`TransferCompletes`,
`BothSidesReturn`, `EveryWaitEnds`, `AbandonedPipeEnds`, `CallsReturn`,
`OrphansAreClosed`, `ResetHeals`), which TLAPS cannot prove under fairness.
`ResetHeals` needs the fairness of the user interface's thread as the others do.

## Fairness

`DirectTransfer!FairSpec` gives weak fairness to each task of the code
separately: the control loop, the send loop, the rest of `send_file`,
`receive_file`, the write task and the blocking pool. tokio polls a ready task
eventually, and a blocked one is re-polled when what it waits for is ready, so a
step that stays enabled is taken. A shared fairness condition would let one loop
starve the other, which `try_join!` does not. Errors on a dead connection are
steps of the task they interrupt: QUIC reports them after 30 s of silence at the
latest (`nat/quic.rs`). Faults and the user's retry have no fairness.

`RelayServer!FairSpec` gives weak fairness to each handler, which includes its
60 s timer, and to each client's reader. Connecting, sending the token and leaving
are the user's affair. `CopyFails` has none either, since it takes a client that
still writes: that is what makes a half-open pipe real.

`RelayTransfer!FairSpec` treats the loops of both calls and the blocking pool in
the same way. The relay's noticing of a departed side is fair only when there is a
chunk or more than one message to be written to it (`RelayNotices`): the first
write to a closed TCP connection may succeed.

`Connect!FairSpec` gives weak fairness to each arm of each call, its timers
included: an arm that can go on is polled, as `select!` polls both. Losing a path,
quitting and the relay's noticing of a client that left have none.

`Profile!FairSpec` gives weak fairness to the user interface's thread, which runs
a call that it has begun to its end. Faults, async calls and new calls have none.
`Sessions` and `ChunkFraming` have safety properties only.

## What is left out, and why

- `TransferMode::Streaming` and `ControlMessage::Error`: `build_manifest` makes
  bulk manifests only, so the arms that handle them are never reached.
- In the two transfers, bytes and formats: a damaged frame is one that fails to decrypt or
  has the wrong length; `ChunkFraming` has the bytes. Keys and the cryptography itself
  are the library's.
- The payload that crosses the relay, and the relay's TCP buffers.
- DHT entries that outlive their announcer: a lookup that finds one ends like one
  that finds nobody, in a time-out of hole punching.
- `connect_to_contact` beyond its gate and its outcome: its gate never opens. What
  follows it are the receiver's internet arm and the relay.
- The presence check (`discovery/presence.rs`): it changes nothing, and what it reads, one
  infohash of a public DHT for all contacts, anybody may write.
- `transfer/conn_status.rs`, the relay proxy override, `api_session_type`,
  `api_set_data_dir`: one value each, set and read. The phase is never reset
  (`conn_status::reset` has no caller), so it shows the last transfer's until the
  next begins.
- The command line, which makes the same calls of the core from one process each.
- STUN parsing, QUIC and mDNS set-up, sqlite, generated code: I/O and
  configuration, with no protocol of their own.

## Plan

Every safety property of the runs is proved. What is left, in this order:

1. The relay as `RelayTransfer` and `Connect` see it (two clients of one token
   joined once, a pipe that does not report a departure) is read off the same source
   as `RelayServer`, but only comments connect them. An abstract pairing that
   `RelayServer` implements and the other two use would close that gap.
2. What follows from `FileDelivery` alone (an Ok means that everything is accepted, the
   bar of an attempt never falls back) as theorems about it, which the two
   refinements then carry over.
3. The non-temporal half of `TransferCompletes` and `CallsReturn`: that the steps
   the fairness conditions name decrease a variant over the faults and the chunks
   that are left.
