------------------------- MODULE RelayServerProofs -------------------------
(***************************************************************************)
(* The relay's pairing, for any number of connections and tokens.          *)
(*                                                                         *)
(* The handlers' lookups and registrations interleave freely, so the map   *)
(* alone says little.  The invariant follows a oneshot sender instead: it  *)
(* is in the map (RegistrationHasWaiter), then with the one handler that   *)
(* took it (TakenOnce), and what it delivers is a connection whose own     *)
(* handler has ended (DeliveredOnce).                                      *)
(***************************************************************************)
EXTENDS RelayServer, FiniteSetTheorems, TLAPS

\* A connection that was not made has no handler.
NoHandlerYet == \A c \in Clients : cst[c] = "off" => hst[c] = "none"

\* A sender that was taken out of the map is with one handler, and its owner
\* still has no peer.
TakenOnce ==
    \A g \in Clients : hst[g] = "give" =>
        /\ took[g] \in Clients /\ took[g] # g
        /\ token[took[g]] = token[g]
        /\ hst[took[g]] \in {"wait", "cleanup", "done"}
        /\ peer[took[g]] = NoClient
        /\ waiting[token[g]] # took[g]
        /\ \A f \in Clients : hst[f] = "give" /\ took[f] = took[g] => f = g

\* A delivered connection came from a handler that has nothing left to do.
DeliveredOnce ==
    \A h \in Clients : peer[h] # NoClient =>
        /\ hst[h] \in {"wait", "done"} \cup Joined
        /\ hst[peer[h]] = "done"

\* Which connections are open.
OpenIsHeld ==
    \A c \in Clients :
        sock[c] = "open" <=>
            \/ hst[c] \notin {"none", "done"}
            \/ \E h \in Clients : peer[h] = c /\ hst[h] \in {"wait"} \cup Joined

PairInv ==
    /\ TypeOK /\ NoHandlerYet /\ RegistrationHasWaiter
    /\ TakenOnce /\ DeliveredOnce /\ PairsAreExclusive

LEMMA InitPairInv == Init => PairInv
BY ClientsAssumption
DEF Init, PairInv, TypeOK, NoHandlerYet, RegistrationHasWaiter, TakenOnce, DeliveredOnce, PairsAreExclusive,
    HandlerStates, Joined

LEMMA NextKeepsPairs == PairInv /\ [Next]_vars => PairInv'
<1> SUFFICES ASSUME PairInv, [Next]_vars PROVE PairInv'
  OBVIOUS
<1> USE ClientsAssumption
    DEF PairInv, TypeOK, NoHandlerYet, RegistrationHasWaiter, TakenOnce, DeliveredOnce, PairsAreExclusive,
        HandlerStates, Joined, clients, Goto, Close
<1>1. ASSUME NEW c \in Clients, Client(c) \/ User(c) PROVE PairInv'
  <2>1. CASE Connect(c)
    BY <2>1 DEF Connect
  <2>2. CASE SendToken(c)
    BY <2>2 DEF SendToken
  <2>3. CASE Paired(c) \/ Refused(c) \/ Leave(c)
    BY <2>3 DEF Paired, Refused, Leave
  <2>4. QED
    BY <1>1, <2>1, <2>2, <2>3 DEF Client, User
<1>2. ASSUME NEW h \in Clients, ReadToken(h) \/ ReadFails(h) PROVE PairInv'
  BY <1>2 DEF ReadToken, ReadFails
<1>3. ASSUME NEW h \in Clients, Check(h) PROVE PairInv'
  <2>1. CASE waiting[token[h]] # NoClient
    BY <1>3, <2>1 DEF Check
  <2>2. CASE waiting[token[h]] = NoClient
    BY <1>3, <2>2 DEF Check
  <2>3. QED
    BY <2>1, <2>2
<1>4. ASSUME NEW h \in Clients, Give(h) PROVE PairInv'
  <2>1. CASE hst[took[h]] = "wait"
    BY <1>4, <2>1 DEF Give
  <2>2. CASE hst[took[h]] # "wait"
    BY <1>4, <2>2 DEF Give
  <2>3. QED
    BY <2>1, <2>2
<1>5. ASSUME NEW h \in Clients, Register(h) PROVE PairInv'
  BY <1>5 DEF Register
<1>6. ASSUME NEW h \in Clients, Receive(h) \/ GiveUp(h) PROVE PairInv'
  BY <1>6 DEF Receive, GiveUp
<1>7. ASSUME NEW h \in Clients, Cleanup(h) PROVE PairInv'
  BY <1>7 DEF Cleanup
<1>8. ASSUME NEW h \in Clients, Signal(h) PROVE PairInv'
  BY <1>8 DEF Signal, WriteSignal
<1>9. ASSUME NEW h \in Clients, SignalPeer(h) PROVE PairInv'
  BY <1>9 DEF SignalPeer, WriteSignal
<1>10. ASSUME NEW h \in Clients, CopyEnds(h) \/ CopyFails(h) PROVE PairInv'
  BY <1>10 DEF CopyEnds, CopyFails
<1>11. ASSUME NEW h \in Clients, PipeDone(h) PROVE PairInv'
  BY <1>11 DEF PipeDone
<1>12. CASE UNCHANGED vars
  BY <1>12 DEF vars
<1>13. QED
  BY <1>1, <1>2, <1>3, <1>4, <1>5, <1>6, <1>7, <1>8, <1>9, <1>10, <1>11, <1>12
  DEF Next, Handler, Terminated

LEMMA PairInvariance == Spec => []PairInv
BY InitPairInv, NextKeepsPairs, PTL DEF Spec

\* Type correctness of the relay.
THEOREM RelayTypeCorrect == Spec => []TypeOK
BY PairInvariance, PTL DEF PairInv

\* The relay joins a connection with at most one other of the same token, and
\* tells no client otherwise (main.rs:52, 62-68).
THEOREM PairingIsExclusive == Spec => []PairsAreExclusive
BY PairInvariance, PTL DEF PairInv

\* No sender of an ended or paired handler stays in the map (main.rs:46-58, 86).
THEOREM NoStaleRegistration == Spec => []RegistrationHasWaiter
BY PairInvariance, PTL DEF PairInv

-----------------------------------------------------------------------------
(* Who owns an open connection.                                             *)

LEMMA InitOpenIsHeld == Init => OpenIsHeld
BY ClientsAssumption DEF Init, OpenIsHeld

LEMMA NextKeepsOpenIsHeld ==
    ASSUME PairInv, OpenIsHeld, [Next]_vars
    PROVE  OpenIsHeld'
<1> USE ClientsAssumption
    DEF PairInv, TypeOK, NoHandlerYet, TakenOnce, DeliveredOnce, PairsAreExclusive, OpenIsHeld,
        HandlerStates, Joined, clients, Goto, Close
<1>1. ASSUME NEW c \in Clients, Client(c) \/ User(c) PROVE OpenIsHeld'
  BY <1>1 DEF Client, User, Connect, SendToken, Paired, Refused, Leave
<1>2. ASSUME NEW h \in Clients, ReadToken(h) \/ ReadFails(h) \/ Check(h) PROVE OpenIsHeld'
  BY <1>2 DEF ReadToken, ReadFails, Check
<1>3. ASSUME NEW h \in Clients, Give(h) PROVE OpenIsHeld'
  <2>1. CASE hst[took[h]] = "wait"
    BY <1>3, <2>1 DEF Give
  <2>2. CASE hst[took[h]] # "wait"
    BY <1>3, <2>2 DEF Give
  <2>3. QED
    BY <2>1, <2>2
<1>4. ASSUME NEW h \in Clients, Register(h) \/ Receive(h) \/ GiveUp(h) PROVE OpenIsHeld'
  BY <1>4 DEF Register, Receive, GiveUp
<1>5. ASSUME NEW h \in Clients, Cleanup(h) PROVE OpenIsHeld'
  BY <1>5 DEF Cleanup
<1>6. ASSUME NEW h \in Clients, Signal(h) PROVE OpenIsHeld'
  BY <1>6 DEF Signal, WriteSignal
<1>7. ASSUME NEW h \in Clients, SignalPeer(h) PROVE OpenIsHeld'
  BY <1>7 DEF SignalPeer, WriteSignal
<1>8. ASSUME NEW h \in Clients, CopyEnds(h) \/ CopyFails(h) PROVE OpenIsHeld'
  BY <1>8 DEF CopyEnds, CopyFails
<1>9. ASSUME NEW h \in Clients, PipeDone(h) PROVE OpenIsHeld'
  BY <1>9 DEF PipeDone
<1>10. CASE UNCHANGED vars
  BY <1>10 DEF vars
<1>11. QED
  BY <1>1, <1>2, <1>3, <1>4, <1>5, <1>6, <1>7, <1>8, <1>9, <1>10
  DEF Next, Handler, Terminated

LEMMA HeldByOne == PairInv /\ OpenIsHeld => OneHolder
<1> SUFFICES ASSUME PairInv, OpenIsHeld, NEW c \in Clients
             PROVE  Cardinality(Holders(c)) = (IF sock[c] = "open" THEN 1 ELSE 0)
  BY DEF OneHolder
<1>1. \A g, h \in Holders(c) : g = h
  BY ClientsAssumption DEF Holders, Joined, PairInv, DeliveredOnce, PairsAreExclusive
<1>2. CASE sock[c] = "open"
  <2>1. PICK h \in Clients : h \in Holders(c)
    BY <1>2 DEF OpenIsHeld, Holders
  <2>2. Holders(c) = {h}
    BY <1>1, <2>1
  <2>3. QED
    BY <1>2, <2>2, FS_Singleton
<1>3. CASE sock[c] # "open"
  <2>1. Holders(c) = {}
    BY <1>3 DEF OpenIsHeld, Holders
  <2>2. QED
    BY <1>3, <2>1, FS_EmptySet
<1>4. QED
  BY <1>2, <1>3

\* Through every interleaving of lookups, hand-overs and time-outs each open
\* connection belongs to exactly one handler (main.rs:45-88).
THEOREM OneHandlerPerConnection == Spec => []OneHolder
<1>1. Spec => []OpenIsHeld
  <2>1. PairInv /\ OpenIsHeld /\ [Next]_vars => OpenIsHeld'
    BY NextKeepsOpenIsHeld
  <2>2. QED
    BY <2>1, InitOpenIsHeld, PairInvariance, PTL DEF Spec
<1>2. QED
  BY <1>1, PairInvariance, HeldByOne, PTL

=============================================================================
