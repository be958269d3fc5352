------------------------------ MODULE Sessions ------------------------------
(***************************************************************************)
(* The application's transfer calls (api.rs) and the process-wide state    *)
(* they share: the registry of sessions, the DHT client made on first use  *)
(* and the progress counters (transfer/progress.rs).  Async calls run      *)
(* concurrently; api_close_session and api_transfer_progress run on the    *)
(* one thread of the user interface.                                       *)
(*                                                                         *)
(* A call that establishes a session is "begin" here, whichever way it     *)
(* connects; one that moves a file over a stored session is "drive".       *)
(***************************************************************************)
EXTENDS Integers, FiniteSets

CONSTANTS
    Calls,         \* async calls that may be in flight together
    None,          \* no call, session, client or value
    FileSizes,     \* progress units a file may have
    MaxSessions    \* bound: sessions established over a behaviour

ASSUME SessionsAssumption ==
    /\ None \notin Calls /\ None \notin Nat
    /\ FileSizes \subseteq Nat
    /\ MaxSessions \in Nat

Handles == 1 .. MaxSessions
SessionIds == 1 .. MaxSessions

VARIABLES
    pc,          \* where each call is
    hold,        \* the session a call owns
    handle,      \* the handle a call was given or is about to return
    born,        \* sessions established so far; each is named by its number
    registry,    \* SESSION_REGISTRY: handle to session, or None
    nextId,      \* NEXT_SESSION_ID
    given,       \* handles returned to the application
    layer,       \* DHT_LAYER: the client installed, named by its maker
    client,      \* the client a call works with
    role,        \* "send" or "receive" while a call moves a file
    size, moved, \* length of that file, and how far the transfer is
    stores,      \* stores of progress::reset not yet made
    total, bytes,\* BYTES_TOTAL and BYTES_DONE
    mixed,       \* two transfers ran at once since the last lone start
    poll         \* a progress poll of the user interface

reg == <<born, registry, nextId, given>>
dht == <<layer, client>>
xfer == <<role, size, moved, stores>>
counters == <<total, bytes, mixed>>
vars == <<pc, hold, handle, reg, dht, xfer, counters, poll>>

\* "idle" is a call that is not there, or has returned.
States == {"idle", "dht", "made", "connect", "insert", "reset", "run"}
NoPoll == [bytes |-> None, total |-> None, of |-> None]

Transferring(c) == pc[c] \in {"reset", "run"}

Init ==
    /\ pc = [c \in Calls |-> "idle"]
    /\ hold = [c \in Calls |-> None] /\ handle = [c \in Calls |-> None]
    /\ born = 0 /\ registry = [h \in Handles |-> None] /\ nextId = 1 /\ given = {}
    /\ layer = None /\ client = [c \in Calls |-> None]
    /\ role = [c \in Calls |-> "send"]
    /\ size = [c \in Calls |-> 0] /\ moved = [c \in Calls |-> 0]
    /\ stores = [c \in Calls |-> {}]
    /\ total = 0 /\ bytes = 0 /\ mixed = FALSE
    /\ poll = NoPoll

\* The call returns; what it owned is dropped.
Return(c) ==
    /\ pc' = [pc EXCEPT ![c] = "idle"]
    /\ hold' = [hold EXCEPT ![c] = None]
    /\ handle' = [handle EXCEPT ![c] = None]
    /\ client' = [client EXCEPT ![c] = None]
    /\ moved' = [moved EXCEPT ![c] = 0] /\ size' = [size EXCEPT ![c] = 0]
    /\ stores' = [stores EXCEPT ![c] = {}] /\ role' = [role EXCEPT ![c] = "send"]

-----------------------------------------------------------------------------
(* Establishing a session.                                                 *)

\* The identity was loaded; calls over the LAN or the relay need no DHT.
Begin(c) ==
    /\ pc[c] = "idle"
    /\ pc' \in {[pc EXCEPT ![c] = "dht"], [pc EXCEPT ![c] = "connect"]}
    /\ UNCHANGED <<hold, handle, reg, dht, xfer, counters, poll>>

\* get_dht: DHT_LAYER.get(), and a client of its own if there was none.
GetDht(c) ==
    /\ pc[c] = "dht"
    /\ IF layer # None
       THEN client' = [client EXCEPT ![c] = layer] /\ pc' = [pc EXCEPT ![c] = "connect"]
       ELSE client' = [client EXCEPT ![c] = c] /\ pc' = [pc EXCEPT ![c] = "made"]
    /\ UNCHANGED <<hold, handle, reg, layer, xfer, counters, poll>>

\* Mutant: the call goes on with the client it made.
SetDht_KeepsOwn(c) ==
    /\ pc[c] = "made"
    /\ layer' = IF layer = None THEN client[c] ELSE layer
    /\ pc' = [pc EXCEPT ![c] = "connect"]
    /\ UNCHANGED <<hold, handle, reg, client, xfer, counters, poll>>

\* set() is ignored if another call was first; either way get() decides.
SetDht(c) ==
    /\ pc[c] = "made"
    /\ layer' = IF layer = None THEN client[c] ELSE layer
    /\ client' = [client EXCEPT ![c] = layer']
    /\ pc' = [pc EXCEPT ![c] = "connect"]
    /\ UNCHANGED <<hold, handle, reg, xfer, counters, poll>>

\* Mutant: the handle is one more than the number of entries.
Connected_CountsEntries(c) ==
    /\ pc[c] = "connect" /\ born < MaxSessions
    /\ born' = born + 1
    /\ hold' = [hold EXCEPT ![c] = born']
    /\ handle' = [handle EXCEPT ![c] = 1 + Cardinality({h \in Handles : registry[h] # None})]
    /\ pc' = [pc EXCEPT ![c] = "insert"]
    /\ UNCHANGED <<registry, nextId, given, dht, xfer, counters, poll>>

\* The coordinator returns a session; store_session draws its handle.
Connected(c) ==
    /\ pc[c] = "connect" /\ born < MaxSessions
    /\ born' = born + 1
    /\ hold' = [hold EXCEPT ![c] = born']
    /\ handle' = [handle EXCEPT ![c] = nextId]
    /\ nextId' = nextId + 1
    /\ pc' = [pc EXCEPT ![c] = "insert"]
    /\ UNCHANGED <<registry, given, dht, xfer, counters, poll>>

\* store_session under the registry's lock, and the handle is returned.
Insert(c) ==
    /\ pc[c] = "insert"
    /\ registry' = [registry EXCEPT ![handle[c]] = hold[c]]
    /\ given' = given \cup {handle[c]}
    /\ Return(c)
    /\ UNCHANGED <<born, nextId, layer, counters, poll>>

-----------------------------------------------------------------------------
(* Moving a file.                                                          *)

\* progress::reset is reached with the session in hand.
StartTransfer(c) ==
    /\ \E n \in FileSizes, r \in {"send", "receive"} :
          /\ size' = [size EXCEPT ![c] = n]
          /\ role' = [role EXCEPT ![c] = r]
    /\ moved' = [moved EXCEPT ![c] = 0]
    /\ stores' = [stores EXCEPT ![c] = {"total", "bytes"}]
    /\ mixed' = \E d \in Calls \ {c} : Transferring(d)
    /\ pc' = [pc EXCEPT ![c] = "reset"]

\* Mutant: the session is looked up and left in the registry.
Drive_LeavesSession(c, h) ==
    /\ pc[c] = "idle" /\ registry[h] # None
    /\ hold' = [hold EXCEPT ![c] = registry[h]]
    /\ handle' = [handle EXCEPT ![c] = h]
    /\ StartTransfer(c)
    /\ UNCHANGED <<reg, dht, total, bytes, poll>>

\* api_drive_send, api_drive_receive: take_session, then the transfer.  A handle
\* that is not there is an error, and changes nothing.
Drive(c, h) ==
    /\ pc[c] = "idle" /\ h \in given /\ registry[h] # None
    /\ registry' = [registry EXCEPT ![h] = None]
    /\ hold' = [hold EXCEPT ![c] = registry[h]]
    /\ handle' = [handle EXCEPT ![c] = h]
    /\ StartTransfer(c)
    /\ UNCHANGED <<born, nextId, given, dht, total, bytes, poll>>

\* api_send_file_relay, api_receive_file_relay: no registry in between.
ConnectedOneShot(c) ==
    /\ pc[c] = "connect" /\ client[c] = None /\ born < MaxSessions
    /\ born' = born + 1
    /\ hold' = [hold EXCEPT ![c] = born']
    /\ StartTransfer(c)
    /\ UNCHANGED <<handle, registry, nextId, given, dht, total, bytes, poll>>

\* Mutant: only the total is set.
Reset_KeepsBytes(c) ==
    /\ pc[c] = "reset"
    /\ total' = size[c]
    /\ stores' = [stores EXCEPT ![c] = {}] /\ UNCHANGED <<bytes, mixed>>
    /\ pc' = [pc EXCEPT ![c] = "run"]
    /\ poll' = NoPoll
    /\ UNCHANGED <<hold, handle, reg, dht, role, size, moved>>

\* Two relaxed stores: others may see them in either order.
Reset(c) ==
    /\ pc[c] = "reset"
    /\ \E x \in stores[c] :
          /\ total' = IF x = "total" THEN size[c] ELSE total
          /\ bytes' = IF x = "bytes" THEN 0 ELSE bytes
          /\ stores' = [stores EXCEPT ![c] = @ \ {x}]
    /\ pc' = IF stores'[c] = {} THEN [pc EXCEPT ![c] = "run"] ELSE pc
    /\ poll' = NoPoll
    /\ UNCHANGED <<hold, handle, reg, dht, role, size, moved, mixed>>

\* The sender sets what the receiver confirmed, the receiver adds what it
\* decrypted.
Advance(c) ==
    /\ pc[c] = "run" /\ moved[c] < size[c]
    /\ moved' = [moved EXCEPT ![c] = @ + 1]
    /\ bytes' = IF role[c] = "send" THEN moved'[c] ELSE bytes + 1
    /\ UNCHANGED <<pc, hold, handle, reg, dht, role, size, stores, total, mixed, poll>>

\* Mutant: the subtraction wraps.
Retract_Wraps(c) ==
    /\ pc[c] = "run" /\ role[c] = "receive" /\ moved[c] > 0
    /\ moved' = [moved EXCEPT ![c] = @ - 1]
    /\ bytes' = bytes - 1
    /\ UNCHANGED <<pc, hold, handle, reg, dht, role, size, stores, total, mixed, poll>>

\* A frame that failed is taken back; the subtraction saturates.
Retract(c) ==
    /\ pc[c] = "run" /\ role[c] = "receive" /\ moved[c] > 0
    /\ moved' = [moved EXCEPT ![c] = @ - 1]
    /\ bytes' = IF bytes > 0 THEN bytes - 1 ELSE 0
    /\ UNCHANGED <<pc, hold, handle, reg, dht, role, size, stores, total, mixed, poll>>

\* Ok or any error, before, during or after the transfer: the session goes
\* with the call.
CallReturns(c) ==
    /\ pc[c] \in {"dht", "connect", "run"}
    /\ Return(c)
    /\ UNCHANGED <<reg, layer, counters, poll>>

-----------------------------------------------------------------------------
(* The user interface.                                                     *)

CloseSession(h) ==
    /\ h \in given /\ registry[h] # None
    /\ registry' = [registry EXCEPT ![h] = None]
    /\ UNCHANGED <<pc, hold, handle, born, nextId, given, dht, xfer, counters, poll>>

\* The transfer all of whose resets are done, if it is alone.
Lone == {c \in Calls : pc[c] = "run" /\ \A d \in Calls \ {c} : ~Transferring(d)}
Current == IF ~mixed /\ Lone # {} THEN CHOOSE c \in Lone : TRUE ELSE None

\* progress::get: two relaxed loads, in either order.  A poll is followed while
\* it stays within one transfer; it changes nothing for anybody else.
Load(which) ==
    /\ poll[which] = None
    /\ poll.of # None \/ Current # None
    /\ poll' = [poll EXCEPT ![which] = IF which = "bytes" THEN bytes ELSE total,
                            !.of = IF @ = None THEN size[Current] ELSE @]
    /\ UNCHANGED <<pc, hold, handle, reg, dht, xfer, counters>>

PollDone ==
    /\ poll.bytes # None /\ poll.total # None
    /\ poll' = NoPoll
    /\ UNCHANGED <<pc, hold, handle, reg, dht, xfer, counters>>

Next ==
    \/ \E c \in Calls :
          \/ Begin(c) \/ GetDht(c) \/ SetDht(c) \/ Connected(c) \/ Insert(c)
          \/ \E h \in Handles : Drive(c, h)
          \/ ConnectedOneShot(c) \/ Reset(c) \/ Advance(c) \/ Retract(c) \/ CallReturns(c)
    \/ \E h \in Handles : CloseSession(h)
    \/ \E which \in {"bytes", "total"} : Load(which)
    \/ PollDone

Spec == Init /\ [][Next]_vars

-----------------------------------------------------------------------------
(* Properties.                                                             *)

TypeOK ==
    /\ pc \in [Calls -> States]
    /\ hold \in [Calls -> SessionIds \cup {None}]
    /\ handle \in [Calls -> Handles \cup {None}]
    /\ born \in 0 .. MaxSessions
    /\ registry \in [Handles -> SessionIds \cup {None}]
    /\ nextId \in 1 .. MaxSessions + 1
    /\ given \subseteq Handles
    /\ layer \in Calls \cup {None}
    /\ client \in [Calls -> Calls \cup {None}]
    /\ role \in [Calls -> {"send", "receive"}]
    /\ size \in [Calls -> Nat] /\ moved \in [Calls -> Nat]
    /\ stores \in [Calls -> SUBSET {"total", "bytes"}]
    /\ total \in Nat /\ bytes \in Nat /\ mixed \in BOOLEAN
    /\ poll \in [bytes : Nat \cup {None}, total : Nat \cup {None}, of : Nat \cup {None}]

\* A session is owned once: by one call or by one entry of the registry.  So
\* two drives of one handle, or a drive and a close, cannot both have it
\* (api.rs:59, 447, 488, 546).
OwnedOnce ==
    /\ \A c, d \in Calls : hold[c] = hold[d] /\ hold[c] # None => c = d
    /\ \A h, k \in Handles : registry[h] = registry[k] /\ registry[h] # None => h = k
    /\ \A c \in Calls, h \in Handles : hold[c] = registry[h] => hold[c] = None

\* A handle the application was given means one session for ever: it is taken
\* or closed, never replaced by that of a later call (api.rs:53-57).
HandleKeepsSession ==
    [][\A h \in given : registry'[h] \in {registry[h], None}]_vars

\* Calls that raced to make the DHT client end up sharing one (api.rs:44-51).
OneDhtClient == \A c \in Calls : pc[c] = "connect" => client[c] \in {layer, None}

\* A poll that begins and ends within one transfer, with no other beside it
\* since it started, reads that transfer's length and no more than that
\* (transfer/progress.rs:6-31).
PollWithinTransfer ==
    poll.of # None =>
        /\ poll.total \in {poll.of, None}
        /\ poll.bytes \in 0 .. poll.of \cup {None}

=============================================================================
