--------------------------- MODULE SessionsProofs ---------------------------
(***************************************************************************)
(* Proofs about Sessions, for any number of calls, sessions and file sizes.*)
(*                                                                         *)
(* The properties rest on four invariants: HandlesFresh (a handle is drawn *)
(* once, and is not yet given while its entry is on the way), OwnInv (a    *)
(* session has one owner and is no newer than the last one established),   *)
(* DhtInv (a call that is not there has no client) and PollInv (what the   *)
(* progress counters hold while one transfer runs alone, or a poll is in   *)
(* progress).                                                              *)
(***************************************************************************)
EXTENDS Sessions, TLAPS

\* Handles are drawn in order, at most one for each session, and one that a
\* call is about to store is its own.
HandlesFresh ==
    /\ nextId \in 1 .. born + 1
    /\ \A h \in given : h < nextId
    /\ \A c \in Calls : pc[c] = "insert" =>
          handle[c] \in Handles /\ handle[c] < nextId /\ handle[c] \notin given
    /\ \A c, d \in Calls :
          pc[c] = "insert" /\ pc[d] = "insert" /\ handle[c] = handle[d] => c = d

\* Who owns a session owns one that was established, and owns it alone.
OwnInv ==
    /\ OwnedOnce
    /\ \A c \in Calls : hold[c] # None => hold[c] <= born
    /\ \A h \in Handles : registry[h] # None => registry[h] <= born

DhtInv ==
    /\ OneDhtClient
    /\ \A c \in Calls : pc[c] = "idle" => client[c] = None

Inv == TypeOK /\ HandlesFresh

-----------------------------------------------------------------------------
\* Nothing is there at the start.
LEMMA InitInv == ASSUME Init PROVE Inv /\ OwnInv /\ DhtInv
  <1>1. TypeOK
    <2>1. pc \in [Calls -> States] /\ role \in [Calls -> {"send", "receive"}]
      BY DEF Init, States
    <2>2. born \in 0 .. MaxSessions /\ nextId \in 1 .. MaxSessions + 1
      BY SessionsAssumption DEF Init
    <2>3. /\ poll \in [bytes : Nat \cup {None}, total : Nat \cup {None}, of : Nat \cup {None}]
          /\ stores \in [Calls -> SUBSET {"total", "bytes"}]
      BY DEF Init, NoPoll
    <2>4. QED
      BY <2>1, <2>2, <2>3 DEF Init, TypeOK
  <1>2. HandlesFresh /\ OwnInv /\ DhtInv
    BY SessionsAssumption DEF Init, HandlesFresh, OwnInv, OwnedOnce, DhtInv, OneDhtClient
  <1>3. QED
    BY <1>1, <1>2 DEF Inv

\* The transfer that is followed is one of the calls.
LEMMA CurrentIsCall == Current \in Calls \cup {None}
  BY DEF Current, Lone

\* Each action keeps the types and the order of the handles.
LEMMA NextInv == ASSUME Inv, [Next]_vars PROVE Inv'
  <1> USE SessionsAssumption DEF Inv
  <1>1. CASE UNCHANGED vars
    BY <1>1 DEF vars, reg, dht, xfer, counters, TypeOK, HandlesFresh
  <1>2. ASSUME NEW c \in Calls, Begin(c) \/ GetDht(c) \/ SetDht(c) PROVE Inv'
    <2>1. TypeOK'
      BY <1>2 DEF Begin, GetDht, SetDht, TypeOK, reg, dht, xfer, counters, States
    <2>2. HandlesFresh'
      BY <1>2 DEF Begin, GetDht, SetDht, TypeOK, HandlesFresh, reg, dht, xfer, counters
    <2>3. QED
      BY <2>1, <2>2
  <1>3. ASSUME NEW c \in Calls, Connected(c) PROVE Inv'
    <2>0. nextId \in Handles /\ born' \in SessionIds
      BY <1>3 DEF Connected, TypeOK, HandlesFresh, Handles, SessionIds
    <2>1. TypeOK'
      BY <1>3, <2>0 DEF Connected, TypeOK, dht, xfer, counters, States, Handles, SessionIds
    <2>2. HandlesFresh'
      BY <1>3, <2>0 DEF Connected, TypeOK, HandlesFresh, Handles
    <2>3. QED
      BY <2>1, <2>2
  <1>4. ASSUME NEW c \in Calls, Insert(c) PROVE Inv'
    <2>0. handle[c] \in Handles
      BY <1>4 DEF Insert, HandlesFresh
    <2>1. TypeOK'
      BY <1>4, <2>0 DEF Insert, Return, TypeOK, counters, States
    <2>2. HandlesFresh'
      BY <1>4, <2>0 DEF Insert, Return, TypeOK, HandlesFresh, counters, Handles
    <2>3. QED
      BY <2>1, <2>2
  <1>5. ASSUME NEW c \in Calls, NEW h \in Handles, Drive(c, h) PROVE Inv'
    <2>1. TypeOK'
      BY <1>5 DEF Drive, StartTransfer, TypeOK, dht, States
    <2>2. HandlesFresh'
      BY <1>5 DEF Drive, StartTransfer, TypeOK, HandlesFresh, dht
    <2>3. QED
      BY <2>1, <2>2
  <1>6. ASSUME NEW c \in Calls, ConnectedOneShot(c) PROVE Inv'
    <2>1. TypeOK'
      BY <1>6 DEF ConnectedOneShot, StartTransfer, TypeOK, dht, States, SessionIds
    <2>2. HandlesFresh'
      BY <1>6 DEF ConnectedOneShot, StartTransfer, TypeOK, HandlesFresh, dht
    <2>3. QED
      BY <2>1, <2>2
  <1>7. ASSUME NEW c \in Calls, Reset(c) \/ Advance(c) \/ Retract(c) PROVE Inv'
    <2>1. TypeOK'
      BY <1>7 DEF Reset, Advance, Retract, TypeOK, reg, dht, States, NoPoll
    <2>2. HandlesFresh'
      BY <1>7 DEF Reset, Advance, Retract, TypeOK, HandlesFresh, reg, dht
    <2>3. QED
      BY <2>1, <2>2
  <1>8. ASSUME NEW c \in Calls, CallReturns(c) PROVE Inv'
    <2>1. TypeOK'
      BY <1>8 DEF CallReturns, Return, TypeOK, reg, counters, States
    <2>2. HandlesFresh'
      BY <1>8 DEF CallReturns, Return, TypeOK, HandlesFresh, reg, counters
    <2>3. QED
      BY <2>1, <2>2
  <1>9. ASSUME NEW h \in Handles, CloseSession(h) PROVE Inv'
    BY <1>9 DEF CloseSession, TypeOK, HandlesFresh, dht, xfer, counters
  <1>10. ASSUME NEW w \in {"bytes", "total"}, Load(w) PROVE Inv'
    <2>1. (Current # None => size[Current] \in Nat)
      BY CurrentIsCall DEF TypeOK
    <2>2. poll' \in [bytes : Nat \cup {None}, total : Nat \cup {None}, of : Nat \cup {None}]
      BY <1>10, <2>1 DEF Load, TypeOK
    <2>3. QED
      BY <1>10, <2>2 DEF Load, TypeOK, HandlesFresh, reg, dht, xfer, counters
  <1>11. CASE PollDone
    BY <1>11 DEF PollDone, NoPoll, TypeOK, HandlesFresh, reg, dht, xfer, counters
  <1>12. QED
    BY <1>1, <1>2, <1>3, <1>4, <1>5, <1>6, <1>7, <1>8, <1>9, <1>10, <1>11 DEF Next

\* Every variable of the application layer keeps its type (api.rs).
THEOREM SessionsTypeCorrect == Spec => []TypeOK
  <1>1. Init => Inv
    BY InitInv
  <1>2. Inv /\ [Next]_vars => Inv'
    BY NextInv
  <1>3. Inv => TypeOK
    BY DEF Inv
  <1>4. QED
    BY <1>1, <1>2, <1>3, PTL DEF Spec

-----------------------------------------------------------------------------
(* One owner.                                                              *)

\* A new session is owned by the call that established it; storing, taking and
\* closing hand the owner's one copy on.
LEMMA NextOwn == ASSUME Inv, OwnInv, [Next]_vars PROVE OwnInv'
  <1> USE SessionsAssumption DEF Inv, OwnInv, OwnedOnce
  <1>1. CASE UNCHANGED <<born, hold, registry>>
    BY <1>1
  <1>2. ASSUME NEW c \in Calls, Connected(c) \/ ConnectedOneShot(c) PROVE OwnInv'
    <2>1. born' = born + 1 /\ hold' = [hold EXCEPT ![c] = born'] /\ UNCHANGED registry
      BY <1>2 DEF Connected, ConnectedOneShot
    <2>2. /\ \A d \in Calls : hold[d] # born'
          /\ \A h \in Handles : registry[h] # born'
      BY <2>1 DEF TypeOK, SessionIds
    <2>3. QED
      BY <2>1, <2>2 DEF TypeOK, SessionIds
  <1>3. ASSUME NEW c \in Calls, Insert(c) PROVE OwnInv'
    BY <1>3 DEF Insert, Return, TypeOK, HandlesFresh
  <1>4. ASSUME NEW c \in Calls, NEW h \in Handles, Drive(c, h) PROVE OwnInv'
    BY <1>4 DEF Drive, TypeOK
  <1>5. ASSUME NEW c \in Calls, CallReturns(c) PROVE OwnInv'
    BY <1>5 DEF CallReturns, Return, TypeOK, reg
  <1>6. ASSUME NEW h \in Handles, CloseSession(h) PROVE OwnInv'
    BY <1>6 DEF CloseSession, TypeOK
  <1>7. ASSUME NEW c \in Calls,
               Begin(c) \/ GetDht(c) \/ SetDht(c) \/ Reset(c) \/ Advance(c) \/ Retract(c)
        PROVE  UNCHANGED <<born, hold, registry>>
    BY <1>7 DEF Begin, GetDht, SetDht, Reset, Advance, Retract, reg
  <1>8. ASSUME NEW w \in {"bytes", "total"}, Load(w) \/ PollDone
        PROVE  UNCHANGED <<born, hold, registry>>
    BY <1>8 DEF Load, PollDone, reg
  <1>9. UNCHANGED vars => UNCHANGED <<born, hold, registry>>
    BY DEF vars, reg
  <1>10. QED
    BY <1>1, <1>2, <1>3, <1>4, <1>5, <1>6, <1>7, <1>8, <1>9 DEF Next

\* No two drives of a handle, and no drive and close, have the same session
\* (take_session and api_close_session in api.rs).
THEOREM SessionsAreOwnedOnce == Spec => []OwnedOnce
  <1>1. Init => Inv /\ OwnInv
    BY InitInv
  <1>2. Inv /\ OwnInv /\ [Next]_vars => (Inv /\ OwnInv)'
    BY NextInv, NextOwn
  <1>3. Inv /\ OwnInv => OwnedOnce
    BY DEF OwnInv
  <1>4. QED
    BY <1>1, <1>2, <1>3, PTL DEF Spec

\* What one step may do to an entry whose handle was given.
Kept == \A h \in given : registry'[h] \in {registry[h], None}

\* Only Insert fills an entry, that of a handle not given before.
LEMMA NextKept == ASSUME Inv, [Next]_vars PROVE Kept
  <1> USE DEF Inv, Kept
  <1>1. CASE UNCHANGED registry
    BY <1>1
  <1>2. ASSUME NEW c \in Calls, Insert(c) PROVE Kept
    BY <1>2 DEF Insert, TypeOK, HandlesFresh
  <1>3. ASSUME NEW c \in Calls, NEW h \in Handles, Drive(c, h) PROVE Kept
    BY <1>3 DEF Drive, TypeOK
  <1>4. ASSUME NEW h \in Handles, CloseSession(h) PROVE Kept
    BY <1>4 DEF CloseSession, TypeOK
  <1>5. ASSUME NEW c \in Calls,
               \/ Begin(c) \/ GetDht(c) \/ SetDht(c) \/ Connected(c) \/ ConnectedOneShot(c)
               \/ Reset(c) \/ Advance(c) \/ Retract(c) \/ CallReturns(c)
        PROVE  UNCHANGED registry
    BY <1>5 DEF Begin, GetDht, SetDht, Connected, ConnectedOneShot, Reset, Advance, Retract,
                CallReturns, reg
  <1>6. ASSUME NEW w \in {"bytes", "total"}, Load(w) \/ PollDone PROVE UNCHANGED registry
    BY <1>6 DEF Load, PollDone, reg
  <1>7. UNCHANGED vars => UNCHANGED registry
    BY DEF vars, reg
  <1>8. QED
    BY <1>1, <1>2, <1>3, <1>4, <1>5, <1>6, <1>7 DEF Next

\* A handle never comes to mean another session (store_session in api.rs).
THEOREM HandlesMeanOneSession == Spec => HandleKeepsSession
  <1>1. Init => Inv
    BY InitInv
  <1>2. Inv /\ [Next]_vars => Inv'
    BY NextInv
  <1>3. Inv /\ [Next]_vars => [\A h \in given : registry'[h] \in {registry[h], None}]_vars
    BY NextKept DEF Kept
  <1>4. QED
    BY <1>1, <1>2, <1>3, PTL DEF Spec, HandleKeepsSession

-----------------------------------------------------------------------------
(* One DHT client.                                                         *)

\* A call reaches the coordinator with the client installed, or with none.
LEMMA NextDht == ASSUME Inv, DhtInv, [Next]_vars PROVE DhtInv'
  <1> USE SessionsAssumption DEF Inv, TypeOK, DhtInv, OneDhtClient
  <1>1. CASE UNCHANGED <<pc, layer, client>>
    BY <1>1
  <1>2. ASSUME NEW c \in Calls, Begin(c) \/ GetDht(c) \/ SetDht(c) PROVE DhtInv'
    <2>1. CASE Begin(c)
      BY <2>1 DEF Begin, dht
    <2>2. CASE GetDht(c)
      BY <2>2 DEF GetDht
    <2>3. CASE SetDht(c)
      BY <2>3 DEF SetDht
    <2>4. QED
      BY <1>2, <2>1, <2>2, <2>3
  <1>3. ASSUME NEW c \in Calls, Connected(c) \/ Reset(c) PROVE DhtInv'
    BY <1>3 DEF Connected, Reset, dht
  <1>4. ASSUME NEW c \in Calls, Insert(c) \/ CallReturns(c) PROVE DhtInv'
    BY <1>4 DEF Insert, CallReturns, Return
  <1>5. ASSUME NEW c \in Calls, NEW h \in Handles, Drive(c, h) PROVE DhtInv'
    BY <1>5 DEF Drive, StartTransfer, dht
  <1>6. ASSUME NEW c \in Calls, ConnectedOneShot(c) PROVE DhtInv'
    BY <1>6 DEF ConnectedOneShot, StartTransfer, dht
  <1>7. ASSUME NEW c \in Calls, Advance(c) \/ Retract(c) PROVE UNCHANGED <<pc, layer, client>>
    BY <1>7 DEF Advance, Retract, dht
  <1>8. ASSUME NEW h \in Handles, CloseSession(h) PROVE UNCHANGED <<pc, layer, client>>
    BY <1>8 DEF CloseSession, dht
  <1>9. ASSUME NEW w \in {"bytes", "total"}, Load(w) \/ PollDone
        PROVE  UNCHANGED <<pc, layer, client>>
    BY <1>9 DEF Load, PollDone, dht
  <1>10. UNCHANGED vars => UNCHANGED <<pc, layer, client>>
    BY DEF vars, dht
  <1>11. QED
    BY <1>1, <1>2, <1>3, <1>4, <1>5, <1>6, <1>7, <1>8, <1>9, <1>10 DEF Next

\* Calls that raced to make the DHT client share the one installed (get_dht in
\* api.rs).
THEOREM DhtClientIsShared == Spec => []OneDhtClient
  <1>1. Init => Inv /\ DhtInv
    BY InitInv
  <1>2. Inv /\ DhtInv /\ [Next]_vars => (Inv /\ DhtInv)'
    BY NextInv, NextDht
  <1>3. Inv /\ DhtInv => OneDhtClient
    BY DEF DhtInv
  <1>4. QED
    BY <1>1, <1>2, <1>3, PTL DEF Spec

-----------------------------------------------------------------------------
(* The progress counters.                                                  *)

\* A transfer that has been alone since it started has the counters to itself.
Alone ==
    ~mixed => \A c \in Calls : Transferring(c) =>
        /\ \A d \in Calls \ {c} : ~Transferring(d)
        /\ moved[c] <= size[c]
        /\ "total" \notin stores[c] => total = size[c]
        /\ "bytes" \notin stores[c] => bytes = moved[c]

\* Stores are outstanding exactly while the call is at its reset, which sees the
\* transfer at its beginning.
AtReset ==
    \A c \in Calls :
        /\ pc[c] = "run" => stores[c] = {}
        /\ pc[c] = "reset" => moved[c] = 0

\* While a poll is followed, the counters are those of the one transfer it
\* began in, whose call may have returned and others have started.
Followed ==
    /\ poll.of = None => poll = NoPoll
    /\ poll.of # None =>
           /\ poll.of \in Nat /\ total = poll.of /\ bytes <= poll.of
           /\ poll.total \in {poll.of, None}
           /\ poll.bytes \in 0 .. poll.of \cup {None}
           /\ \A c, d \in Calls : pc[c] = "run" /\ pc[d] = "run" => c = d
           /\ \A c \in Calls : pc[c] = "run" => size[c] = poll.of /\ moved[c] = bytes

PollInv == Alone /\ AtReset /\ Followed

\* Neither a transfer nor a poll is there at the start.
LEMMA InitPoll == ASSUME Init PROVE PollInv
  BY SessionsAssumption DEF Init, PollInv, Alone, AtReset, Followed, Transferring, NoPoll

\* A step that starts a transfer looks for others; nothing it shares changes.
LEMMA StartPoll ==
    ASSUME Inv, PollInv, NEW c \in Calls, ~Transferring(c), StartTransfer(c),
           UNCHANGED <<total, bytes, poll>>
    PROVE  PollInv'
  <1> USE SessionsAssumption DEF Inv, TypeOK, PollInv
  <1>1. Alone'
    BY DEF StartTransfer, Transferring, Alone
  <1>2. AtReset'
    BY DEF StartTransfer, AtReset
  <1>3. Followed'
    BY DEF StartTransfer, Followed
  <1>4. QED
    BY <1>1, <1>2, <1>3

\* A call that returns leaves the counters as they are.
LEMMA ReturnPoll ==
    ASSUME Inv, PollInv, NEW c \in Calls, Return(c), UNCHANGED <<counters, poll>>
    PROVE  PollInv'
  BY DEF Inv, TypeOK, PollInv, Return, counters, Alone, AtReset, Followed, Transferring

\* The transfer that is followed has run alone from its start, and was reset.
LEMMA LoadPoll ==
    ASSUME Inv, PollInv, NEW w \in {"bytes", "total"}, Load(w)
    PROVE  PollInv'
  <1> USE SessionsAssumption DEF Inv, TypeOK, PollInv
  <1>1. UNCHANGED <<pc, size, moved, stores, total, bytes, mixed>>
    BY DEF Load, xfer, counters
  <1>2. Alone' /\ AtReset'
    BY <1>1 DEF Alone, AtReset, Transferring
  <1>3. CASE poll.of # None
    <2>1. /\ poll'.of = poll.of
          /\ poll'.total \in {total, poll.total} /\ poll'.bytes \in {bytes, poll.bytes}
      BY <1>3 DEF Load
    <2>2. QED
      BY <1>1, <1>2, <1>3, <2>1 DEF Followed
  <1>4. CASE poll.of = None
    <2>1. /\ Current \in Calls /\ ~mixed /\ pc[Current] = "run"
          /\ \A d \in Calls \ {Current} : ~Transferring(d)
      BY <1>4 DEF Load, Current, Lone
    <2>2. /\ total = size[Current] /\ bytes = moved[Current]
          /\ moved[Current] <= size[Current] /\ size[Current] \in Nat
      BY <2>1 DEF Alone, AtReset, Transferring
    <2>3. /\ poll'.of = size[Current]
          /\ poll'.total \in {total, poll.total} /\ poll'.bytes \in {bytes, poll.bytes}
      BY <1>4 DEF Load
    <2>4. poll.total = None /\ poll.bytes = None
      BY <1>4 DEF Followed, NoPoll
    <2>5. QED
      BY <1>1, <1>2, <2>1, <2>2, <2>3, <2>4 DEF Followed, Transferring
  <1>5. QED
    BY <1>3, <1>4

\* One action of a transfer that has the counters to itself moves both alike;
\* with another beside it, mixed, and a reset ends every poll.
LEMMA NextPoll == ASSUME Inv, PollInv, [Next]_vars PROVE PollInv'
  <1> USE SessionsAssumption DEF Inv, TypeOK, PollInv
  <1>1. CASE UNCHANGED vars
    BY <1>1 DEF vars, xfer, counters, Alone, AtReset, Followed, Transferring
  <1>2. ASSUME NEW c \in Calls, Begin(c) \/ GetDht(c) \/ SetDht(c) \/ Connected(c) PROVE PollInv'
    <2>1. /\ UNCHANGED <<xfer, counters, poll>> /\ ~Transferring(c)
          /\ pc' \in {[pc EXCEPT ![c] = s] : s \in {"dht", "made", "connect", "insert"}}
      BY <1>2 DEF Begin, GetDht, SetDht, Connected, Transferring
    <2>2. QED
      BY <2>1 DEF xfer, counters, Alone, AtReset, Followed, Transferring
  <1>3. ASSUME NEW c \in Calls, Insert(c) \/ CallReturns(c) PROVE PollInv'
    BY <1>3, ReturnPoll DEF Insert, CallReturns
  <1>4. ASSUME NEW c \in Calls, NEW h \in Handles, Drive(c, h) PROVE PollInv'
    BY <1>4, StartPoll DEF Drive, Transferring
  <1>5. ASSUME NEW c \in Calls, ConnectedOneShot(c) PROVE PollInv'
    BY <1>5, StartPoll DEF ConnectedOneShot, Transferring
  <1>6. ASSUME NEW c \in Calls, Reset(c) PROVE PollInv'
    <2>1. AtReset' /\ Followed'
      BY <1>6 DEF Reset, AtReset, Followed, NoPoll
    <2>2. Alone'
      BY <1>6 DEF Reset, Alone, AtReset, Transferring
    <2>3. QED
      BY <2>1, <2>2
  <1>7. ASSUME NEW c \in Calls, Advance(c) \/ Retract(c) PROVE PollInv'
    <2>1. /\ UNCHANGED <<pc, size, stores, total, mixed, poll>> /\ pc[c] = "run"
          /\ \/ moved' = [moved EXCEPT ![c] = @ + 1] /\ moved[c] < size[c]
                /\ (bytes = moved[c] => bytes' = moved'[c])
             \/ moved' = [moved EXCEPT ![c] = @ - 1] /\ moved[c] > 0
                /\ (bytes = moved[c] => bytes' = moved'[c])
      BY <1>7 DEF Advance, Retract
    <2>2. Alone'
      BY <2>1 DEF Alone, AtReset, Transferring
    <2>3. AtReset'
      BY <2>1 DEF AtReset
    <2>4. Followed'
      BY <2>1 DEF Followed
    <2>5. QED
      BY <2>2, <2>3, <2>4
  <1>8. ASSUME NEW h \in Handles, CloseSession(h) PROVE PollInv'
    BY <1>8 DEF CloseSession, xfer, counters, Alone, AtReset, Followed, Transferring
  <1>9. ASSUME NEW w \in {"bytes", "total"}, Load(w) PROVE PollInv'
    BY <1>9, LoadPoll
  <1>10. CASE PollDone
    BY <1>10 DEF PollDone, xfer, counters, Alone, AtReset, Followed, Transferring, NoPoll
  <1>11. QED
    BY <1>1, <1>2, <1>3, <1>4, <1>5, <1>6, <1>7, <1>8, <1>9, <1>10 DEF Next

\* A poll within one transfer, with no other beside it since it started, reads
\* that transfer's length and no more (transfer/progress.rs).
THEOREM PollsReadOneTransfer == Spec => []PollWithinTransfer
  <1>1. Init => Inv /\ PollInv
    BY InitInv, InitPoll
  <1>2. Inv /\ PollInv /\ [Next]_vars => (Inv /\ PollInv)'
    BY NextInv, NextPoll
  <1>3. Inv /\ PollInv => PollWithinTransfer
    BY DEF PollInv, Followed, PollWithinTransfer
  <1>4. QED
    BY <1>1, <1>2, <1>3, PTL DEF Spec

=============================================================================
