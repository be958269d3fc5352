---------------------------- MODULE ConnectProofs ----------------------------
(***************************************************************************)
(* Proofs about Connect, for either setting of allow_relay on either side    *)
(* and any set of paths that fail and users who quit.                       *)
(*                                                                          *)
(* SenderFollowsReceiver is not inductive: it needs to know that the third  *)
(* handshake message on a path is only there once the receiver's call has   *)
(* returned that path, and that a call which has returned has no arm left   *)
(* to change its mind with.                                                 *)
(***************************************************************************)
EXTENDS Connect, TLAPS

\* The third message was written in the step in which the receiver's call
\* returned.
ThirdIsLast == \A p \in Paths : msgs[p] = 3 => res["receiver"] = p

\* The sender returned a path on reading the third message.
SenderHasThird == \A p \in Paths : res["sender"] = p => msgs[p] = 3

\* A call that has returned runs no arm.
NoArmLeft == \A x \in Sides : res[x] # "none" => lan[x] = "off" /\ net[x] = "off"

IInv == TypeOK /\ ThirdIsLast /\ SenderHasThird /\ NoArmLeft

\* The agreement is what the two halves about the third message say together.
LEMMA AgreementFollows == IInv => SenderFollowsReceiver
  BY DEF IInv, ThirdIsLast, SenderHasThird, SenderFollowsReceiver

-----------------------------------------------------------------------------
\* The calls start without messages, results or connections.
LEMMA InitIInv == ASSUME Init PROVE IInv
  <1>1. TypeOK
    <2>1. lan \in [Sides -> LanStates] /\ net \in [Sides -> NetStates]
      BY DEF Init, LanStart, NetStart, Modes, LanStates, NetStates
    <2>d. onDht \subseteq Sides
      BY DEF Init, Sides
    <2>2. {} \subseteq Sides /\ {} # Sides
      BY DEF Sides
    <2>3. msgs \in [Paths -> 0 .. 3] /\ left \in [Paths -> SUBSET Sides]
      BY DEF Init
    <2>4. QED
      BY <2>1, <2>d, <2>2, <2>3 DEF Init, TypeOK
  <1>2. ThirdIsLast /\ SenderHasThird /\ NoArmLeft
    BY DEF Init, ThirdIsLast, SenderHasThird, NoArmLeft, Sides, Paths
  <1>3. QED
    BY <1>1, <1>2 DEF IInv

\* What a step that ends an arm does to the call of x: it may return an error,
\* but no session, and starts no arm of a call that has returned.
ArmEnds(x) ==
    /\ res' \in {res, [res EXCEPT ![x] = "err"]}
    /\ lan' \in {lan, [lan EXCEPT ![x] = "off"], [lan EXCEPT ![x] = "accept"]}
    /\ net' \in {net, [net EXCEPT ![x] = "off"]}
    /\ res' # res => lan'[x] = "off" /\ net'[x] = "off"
    /\ left' \in [Paths -> SUBSET Sides]

LEMMA DropType ==
    ASSUME TypeOK, NEW x \in Sides, NEW P, Drop(x, P)
    PROVE  left' \in [Paths -> SUBSET Sides]
  BY DEF TypeOK, Drop

LEMMA NetFailsEnds ==
    ASSUME TypeOK, NEW x \in Sides, NetFails(x)
    PROVE  ArmEnds(x)
  <1>1. left' \in [Paths -> SUBSET Sides]
    BY DropType DEF NetFails, Return
  <1>2. QED
    BY <1>1 DEF TypeOK, ArmEnds, NetFails, Return, LanTo, NetTo

LEMMA LanFailsEnds ==
    ASSUME TypeOK, NEW x \in Sides, LanFails(x)
    PROVE  ArmEnds(x)
  <1>1. left' \in [Paths -> SUBSET Sides]
    BY DropType DEF LanFails, Return
  <1>2. QED
    BY <1>1 DEF TypeOK, ArmEnds, LanFails, Return, LanTo, NetTo

\* An arm that ends without a session leaves the invariant alone, provided the
\* call was still running.
LEMMA ArmEndsIInv ==
    ASSUME IInv, NEW x \in Sides, ArmEnds(x), res[x] = "none",
           msgs' = msgs, up' = up, lost' = lost, alive' = alive,
           mode' = mode, hour' = hour, allow' = allow, onDht' = onDht, punching' = punching,
           reg' \subseteq Sides, reg' # Sides
    PROVE  IInv'
  <1>1. TypeOK'
    BY DEF IInv, TypeOK, ArmEnds, LanStates, NetStates
  <1>2. ThirdIsLast'
    BY DEF IInv, TypeOK, ThirdIsLast, ArmEnds, Paths, Sides
  <1>3. SenderHasThird'
    BY DEF IInv, TypeOK, SenderHasThird, ArmEnds, Paths, Sides
  <1>4. NoArmLeft'
    BY DEF IInv, TypeOK, NoArmLeft, ArmEnds
  <1>5. QED
    BY <1>1, <1>2, <1>3, <1>4 DEF IInv

\* A step that changes no result and no message, and moves only arms of calls
\* that have not returned.
LEMMA ArmMovesIInv ==
    ASSUME IInv, TypeOK', res' = res, msgs' = msgs,
           \A y \in Sides : res[y] # "none" =>
               lan'[y] \in {lan[y], "off"} /\ net'[y] \in {net[y], "off"}
    PROVE  IInv'
  BY DEF IInv, ThirdIsLast, SenderHasThird, NoArmLeft

-----------------------------------------------------------------------------
\* The LAN arms up to the handshake.
LEMMA LanStepIInv ==
    ASSUME IInv, LanFound \/ LanGivesUp \/ LanConnect
    PROVE  IInv'
  <1>1. CASE LanFound
    <2>1. TypeOK'
      BY <1>1 DEF IInv, TypeOK, LanFound, LanTo, LanStates, meeting, wires, users
    <2>2. QED
      BY <1>1, <2>1, ArmMovesIInv
      DEF IInv, TypeOK, NoArmLeft, LanFound, LanTo, Sides, meeting, wires, users
  <1>2. CASE LanGivesUp
    <2>1. ArmEnds("receiver") /\ res["receiver"] = "none"
      BY <1>2, LanFailsEnds DEF LanGivesUp, IInv, NoArmLeft, Sides
    <2>2. QED
      BY <1>2, <2>1, ArmEndsIInv DEF LanGivesUp, IInv, TypeOK, Sides, meeting, users
  <1>3. CASE LanConnect
    <2>1. TypeOK'
      BY <1>3 DEF IInv, TypeOK, LanConnect, LanStates, Paths, meeting, users
    <2>2. QED
      BY <1>3, <2>1, ArmMovesIInv
      DEF IInv, TypeOK, NoArmLeft, LanConnect, Sides, meeting, users
  <1>4. QED
    BY <1>1, <1>2, <1>3

\* The internet arms up to the handshake.
LEMMA NetStepIInv ==
    ASSUME IInv, NEW x \in Sides,
           NotFound(x) \/ PunchHeard(x) \/ FallBack(x) \/ QuicTimeout(x)
             \/ RelayArrive(x) \/ RelayTurnsAway(x) \/ Lookup \/ QuicConnect \/ Poll
    PROVE  IInv'
  <1> USE DEF meeting, wires, arms, users
  <1>e. ASSUME net[x] # "off", NetFails(x), msgs' = msgs, up' = up, lost' = lost,
               UNCHANGED users, onDht' = onDht, punching' = punching,
               reg' \in {reg, reg \ {x}}
        PROVE  IInv'
    <2>1. ArmEnds(x) /\ res[x] = "none"
      BY <1>e, NetFailsEnds DEF IInv, NoArmLeft
    <2>2. reg' \subseteq Sides /\ reg' # Sides
      BY <1>e DEF IInv, TypeOK
    <2>3. QED
      BY <1>e, <2>1, <2>2, ArmEndsIInv
  <1>1. CASE NotFound(x)
    BY <1>1, <1>e DEF NotFound
  <1>2. CASE PunchHeard(x)
    <2>1. TypeOK'
      BY <1>2 DEF IInv, TypeOK, PunchHeard, NetTo, NetStates
    <2>2. QED
      BY <1>2, <2>1, ArmMovesIInv DEF IInv, TypeOK, NoArmLeft, PunchHeard, NetTo
  <1>3. CASE FallBack(x)
    <2>1. CASE x \in allow
      <3>1. TypeOK'
        BY <1>3, <2>1 DEF IInv, TypeOK, FallBack, NetTo, NetStates
      <3>2. QED
        BY <1>3, <2>1, <3>1, ArmMovesIInv DEF IInv, TypeOK, NoArmLeft, FallBack, NetTo
    <2>2. CASE x \notin allow
      BY <1>3, <2>2, <1>e DEF FallBack
    <2>3. QED
      BY <2>1, <2>2
  <1>4. CASE QuicTimeout(x)
    BY <1>4, <1>e DEF QuicTimeout
  <1>5. CASE RelayArrive(x)
    <2>1. TypeOK'
      <3>1. reg' \subseteq Sides /\ reg' # Sides
        <4>1. Other(x) \in Sides /\ Other(x) # x
          BY DEF Other, Sides
        <4>2. Other(x) \notin reg'
          BY <1>5, <4>1 DEF RelayArrive
        <4>3. QED
          BY <1>5, <4>1, <4>2 DEF RelayArrive, IInv, TypeOK
      <3>2. up' \subseteq Paths /\ lost' \subseteq up'
        BY <1>5 DEF IInv, TypeOK, RelayArrive, Paths
      <3>3. net' \in [Sides -> NetStates]
        BY <1>5 DEF IInv, TypeOK, RelayArrive, NetStates
      <3>4. QED
        BY <1>5, <3>1, <3>2, <3>3 DEF IInv, TypeOK, RelayArrive
    <2>2. QED
      BY <1>5, <2>1, ArmMovesIInv DEF IInv, TypeOK, NoArmLeft, RelayArrive
  <1>6. CASE RelayTurnsAway(x)
    BY <1>6, <1>e DEF RelayTurnsAway
  <1>7. CASE Lookup
    <2>1. TypeOK'
      <3>1. net' \in [Sides -> NetStates]
        BY <1>7 DEF IInv, TypeOK, Lookup, FoundPeer, NetTo, NetStates
      <3>2. onDht' \subseteq Sides /\ punching' \subseteq Sides
        BY <1>7 DEF IInv, TypeOK, Lookup, FoundPeer, Sides
      <3>3. UNCHANGED <<lan, res, users, reg, wires>>
        BY <1>7 DEF Lookup
      <3>4. QED
        BY <3>1, <3>2, <3>3 DEF IInv, TypeOK
    <2>2. /\ res' = res /\ msgs' = msgs /\ lan' = lan /\ res["receiver"] = "none"
          /\ \A y \in Sides : y # "receiver" => net'[y] = net[y]
      BY <1>7 DEF IInv, TypeOK, NoArmLeft, Lookup, FoundPeer, NetTo, Sides
    <2>3. QED
      BY <2>1, <2>2, ArmMovesIInv
  <1>8. CASE QuicConnect
    <2>1. TypeOK'
      BY <1>8 DEF IInv, TypeOK, QuicConnect, NetStates, Paths
    <2>2. QED
      BY <1>8, <2>1, ArmMovesIInv DEF IInv, TypeOK, NoArmLeft, QuicConnect
  <1>9. CASE Poll
    <2>1. TypeOK'
      BY <1>9 DEF IInv, TypeOK, Poll, FoundPeer, NetTo, NetStates, Sides
    <2>2. QED
      BY <1>9, <2>1, ArmMovesIInv DEF IInv, TypeOK, NoArmLeft, Poll, FoundPeer, NetTo, Sides
  <1>10. QED
    BY <1>1, <1>2, <1>3, <1>4, <1>5, <1>6, <1>7, <1>8, <1>9

\* The handshake.
LEMMA ShakeStepIInv ==
    ASSUME IInv, NEW p \in Paths,
           Hello(p) \/ Reply(p) \/ InitiatorDone(p) \/ ResponderDone(p)
             \/ (\E x \in Sides : ShakeFails(x, p))
    PROVE  IInv'
  <1> USE DEF meeting, wires, arms, users
  <1>r. \A x \in Sides : Shaking(x, p) => res[x] = "none"
    BY DEF IInv, NoArmLeft, Shaking
  <1>1. CASE Hello(p)
    <2>1. TypeOK'
      BY <1>1 DEF IInv, TypeOK, Hello, Write
    <2>2. ThirdIsLast' /\ SenderHasThird'
      BY <1>1 DEF IInv, TypeOK, ThirdIsLast, SenderHasThird, Hello, Write
    <2>3. QED
      BY <1>1, <2>1, <2>2 DEF IInv, NoArmLeft, Hello
  <1>2. CASE Reply(p)
    <2>1. TypeOK'
      BY <1>2 DEF IInv, TypeOK, Reply, Write
    <2>2. ThirdIsLast' /\ SenderHasThird'
      BY <1>2 DEF IInv, TypeOK, ThirdIsLast, SenderHasThird, Reply, Write
    <2>3. QED
      BY <1>2, <2>1, <2>2 DEF IInv, NoArmLeft, Reply
  <1>3. CASE InitiatorDone(p)
    <2>1. res["receiver"] = "none" /\ res' = [res EXCEPT !["receiver"] = p]
      BY <1>3, <1>r DEF InitiatorDone, Return, Sides
    <2>2. TypeOK'
      <3>1. left' \in [Paths -> SUBSET Sides]
        BY <1>3, DropType DEF InitiatorDone, Return, IInv, Sides
      <3>2. msgs' \in [Paths -> 0 .. 3]
        BY <1>3 DEF InitiatorDone, Write, IInv, TypeOK
      <3>3. QED
        BY <1>3, <3>1, <3>2
        DEF InitiatorDone, Return, LanTo, NetTo, IInv, TypeOK, LanStates, NetStates, Sides
    <2>3. \A q \in Paths : msgs[q] # 3
      BY <2>1 DEF IInv, ThirdIsLast, Paths
    <2>4. ThirdIsLast'
      BY <1>3, <2>1, <2>3 DEF ThirdIsLast, InitiatorDone, Write, IInv, TypeOK, Sides
    <2>5. SenderHasThird'
      BY <2>1, <2>3 DEF SenderHasThird, IInv, TypeOK, Sides
    <2>6. NoArmLeft'
      BY <1>3 DEF NoArmLeft, InitiatorDone, Return, LanTo, NetTo, IInv, TypeOK
    <2>7. QED
      BY <2>2, <2>4, <2>5, <2>6 DEF IInv
  <1>4. CASE ResponderDone(p)
    <2>1. res' = [res EXCEPT !["sender"] = p] /\ msgs' = msgs /\ msgs[p] = 3
      BY <1>4 DEF ResponderDone, Return
    <2>2. TypeOK'
      <3>1. left' \in [Paths -> SUBSET Sides]
        BY <1>4, DropType DEF ResponderDone, Return, IInv, Sides
      <3>2. QED
        BY <1>4, <3>1
        DEF ResponderDone, Return, LanTo, NetTo, IInv, TypeOK, LanStates, NetStates, Sides
    <2>3. ThirdIsLast'
      BY <2>1 DEF ThirdIsLast, IInv, TypeOK, Sides
    <2>4. SenderHasThird'
      BY <2>1 DEF SenderHasThird, IInv, TypeOK, Sides
    <2>5. NoArmLeft'
      BY <1>4 DEF NoArmLeft, ResponderDone, Return, LanTo, NetTo, IInv, TypeOK
    <2>6. QED
      BY <2>2, <2>3, <2>4, <2>5 DEF IInv
  <1>5. ASSUME NEW x \in Sides, ShakeFails(x, p)
        PROVE  IInv'
    <2>1. ArmEnds(x)
      BY <1>5, NetFailsEnds, LanFailsEnds DEF ShakeFails, IInv
    <2>2. QED
      BY <1>5, <1>r, <2>1, ArmEndsIInv DEF ShakeFails, IInv, TypeOK
  <1>6. QED
    BY <1>1, <1>2, <1>3, <1>4, <1>5

\* Losses, the relay's clean-up and users who quit.
LEMMA EnvironmentIInv == ASSUME IInv, Environment PROVE IInv'
  <1> USE DEF meeting, wires, arms, users
  <1>1. ASSUME NEW p \in Paths, Lose(p)
        PROVE  IInv'
    <2>1. TypeOK'
      BY <1>1 DEF IInv, TypeOK, Lose
    <2>2. QED
      BY <1>1, <2>1, ArmMovesIInv DEF Lose
  <1>2. CASE RelayBreaks
    <2>1. TypeOK'
      BY <1>2 DEF IInv, TypeOK, RelayBreaks
    <2>2. QED
      BY <1>2, <2>1, ArmMovesIInv DEF RelayBreaks
  <1>3. ASSUME NEW x \in Sides, Quit(x)
        PROVE  IInv'
    <2>1. TypeOK'
      <3>1. left' \in [Paths -> SUBSET Sides]
        BY <1>3, DropType DEF IInv, Quit
      <3>2. QED
        BY <1>3, <3>1 DEF IInv, TypeOK, Quit, LanTo, NetTo, LanStates, NetStates
    <2>2. QED
      BY <1>3, <2>1, ArmMovesIInv DEF IInv, TypeOK, Quit, LanTo, NetTo
  <1>4. QED
    BY <1>1, <1>2, <1>3 DEF Environment

\* Every step keeps the invariant.
LEMMA NextIInv == ASSUME IInv, [Next]_vars PROVE IInv'
  <1>1. ASSUME NEW x \in Sides, LanArm(x)
        PROVE  IInv'
    BY <1>1, LanStepIInv, ShakeStepIInv DEF LanArm, Paths
  <1>2. ASSUME NEW x \in Sides, NetArm(x)
        PROVE  IInv'
    <2>1. CASE \E p \in {"net", "relay"} :
                  \/ x = "receiver" /\ (Hello(p) \/ InitiatorDone(p))
                  \/ x = "sender" /\ (Reply(p) \/ ResponderDone(p))
                  \/ ShakeFails(x, p)
      BY <1>2, <2>1, ShakeStepIInv DEF Paths
    <2>2. QED
      BY <1>2, <2>1, NetStepIInv DEF NetArm
  <1>3. CASE Environment
    BY <1>3, EnvironmentIInv
  <1>4. CASE UNCHANGED vars
    BY <1>4 DEF vars, IInv, TypeOK, ThirdIsLast, SenderHasThird, NoArmLeft
  <1>5. QED
    BY <1>1, <1>2, <1>3, <1>4 DEF Next, Terminated

\* The inductive invariant, from which the safety theorems follow.
LEMMA Inductive == Spec => []IInv
  <1>1. Init => IInv
    BY InitIInv
  <1>2. IInv /\ [Next]_vars => IInv'
    BY NextIInv
  <1>3. QED
    BY <1>1, <1>2, PTL DEF Spec

\* Every wait of every arm is one of the states the two select! blocks have,
\* no path is lost that was not connected, and the relay never holds both
\* sides' connections unpaired (coordinator.rs:250-371, 398-552).
THEOREM ConnectTypeCorrect == Spec => []TypeOK
  <1>1. IInv => TypeOK
    BY DEF IInv
  <1>2. QED
    BY <1>1, Inductive, PTL

\* Whatever fails and in whatever order the four arms run, the sender never
\* returns a session on a path the receiver has not returned
\* (coordinator.rs:250-371, 398-552, handshake.rs:55-66).
THEOREM SessionsAgree == Spec => []SenderFollowsReceiver
  BY Inductive, AgreementFollows, PTL

\* No failure of the receiver's internet arm, and no time-out, ends a LAN
\* handshake that is under way: the LAN arm leaves it only for a session, for
\* the loss of the path, or because the sender or the user left
\* (coordinator.rs:402-437).
THEOREM LanArmSurvives == Spec => LanSurvives
  <1> DEFINE Kept ==
        lan["receiver"] = "shake" /\ lan'["receiver"] # "shake" =>
          \/ res'["receiver"] \in Paths \/ "receiver" \notin alive'
          \/ "lan" \in lost \/ "sender" \in left["lan"]
  <1>1. ASSUME TypeOK, [Next]_vars PROVE [Kept]_vars
    <2> SUFFICES ASSUME lan["receiver"] = "shake", lan'["receiver"] # "shake"
                 PROVE  \/ res'["receiver"] \in Paths \/ "receiver" \notin alive'
                        \/ "lan" \in lost \/ "sender" \in left["lan"]
      OBVIOUS
    <2>f. ASSUME NEW x \in Sides, NetFails(x) PROVE FALSE
      BY <1>1, <2>f DEF NetFails, Return, LanTo, TypeOK, Sides
    <2>n. ASSUME NEW x \in Sides, NEW p \in Paths, ShakeFails(x, p)
          PROVE  "lan" \in lost \/ "sender" \in left["lan"]
      <3>1. p = "lan"
        BY <2>n, <2>f DEF ShakeFails
      <3>2. x = "receiver"
        BY <1>1, <2>n, <3>1 DEF ShakeFails, LanFails, LanTo, TypeOK, Sides
      <3>3. QED
        BY <2>n, <3>1, <3>2 DEF ShakeFails, Other
    <2>h. ASSUME NEW p \in Paths, InitiatorDone(p) PROVE res'["receiver"] \in Paths
      BY <1>1, <2>h DEF InitiatorDone, Return, TypeOK, Sides
    <2>r. ASSUME NEW p \in Paths, ResponderDone(p) PROVE FALSE
      BY <1>1, <2>r DEF ResponderDone, Return, LanTo, TypeOK
    <2>1. ASSUME NEW x \in Sides, LanArm(x)
          PROVE  \/ res'["receiver"] \in Paths \/ "receiver" \notin alive'
                 \/ "lan" \in lost \/ "sender" \in left["lan"]
      BY <2>1, <2>n, <2>h, <2>r
      DEF LanArm, Paths, LanFound, LanGivesUp, LanConnect, Hello, Reply, arms, users, Sides
    <2>2. ASSUME NEW x \in Sides, NetArm(x)
          PROVE  \/ res'["receiver"] \in Paths \/ "receiver" \notin alive'
                 \/ "lan" \in lost \/ "sender" \in left["lan"]
      BY <2>2, <2>f, <2>n, <2>h, <2>r
      DEF NetArm, Paths, NotFound, PunchHeard, FallBack, QuicTimeout, RelayArrive,
          RelayTurnsAway, Lookup, QuicConnect, Poll, Hello, Reply, arms, users
    <2>3. CASE Environment
      BY <1>1, <2>3 DEF Environment, Lose, RelayBreaks, Quit, LanTo, TypeOK, arms, users
    <2>4. CASE UNCHANGED vars
      BY <2>4 DEF vars
    <2>5. QED
      BY <1>1, <2>1, <2>2, <2>3, <2>4 DEF Next, Terminated
  <1>2. QED
    BY <1>1, ConnectTypeCorrect, PTL DEF Spec, LanSurvives
-----------------------------------------------------------------------------
\* The hour of a code.  The calls of Met can find each other on the DHT.
Met == hour["sender"] = hour["receiver"] /\ \A y \in Sides : mode[y] = "race"
BothRelay == \A y \in Sides : mode[y] = "relay"

\* Only calls that can have met, or two that were relay-only from the start,
\* come past the DHT and past the relay.
ArmsMet ==
    \A x \in Sides :
        /\ net[x] \in {"poll", "lookup"} => mode[x] = "race"
        /\ net[x] \in {"same", "punch", "quic", "shake"} => Met
        /\ net[x] = "relay" \/ x \in reg => mode[x] = "relay" \/ Met
        /\ net[x] = "rshake" => Met \/ BothRelay
        /\ res[x] = "net" => Met
        /\ res[x] = "relay" => Met \/ BothRelay

\* The sender announces itself as it starts, the receiver when it has found it.
DhtMet ==
    /\ "sender" \in onDht => mode["sender"] = "race"
    /\ "receiver" \in onDht => Met

MeetInv == TypeOK /\ ArmsMet /\ DhtMet

LEMMA InitMeet == ASSUME Init PROVE MeetInv
  <1>1. ArmsMet
    BY DEF Init, ArmsMet, NetStart, Modes, Sides
  <1>2. DhtMet
    BY DEF Init, DhtMet, Sides
  <1>3. QED
    BY <1>1, <1>2, InitIInv DEF MeetInv, IInv

\* A step that leaves each internet arm where it is or turns it off, and brings
\* a call no session but one of the LAN.
LEMMA MeetKept ==
    ASSUME MeetInv, TypeOK', mode' = mode, hour' = hour, onDht' = onDht,
           reg' \subseteq reg,
           \A y \in Sides : net'[y] \in {net[y], "off"},
           \A y \in Sides : res'[y] \in {res[y], "err", "lan"}
    PROVE  MeetInv'
  <1>1. Met' = Met /\ BothRelay' = BothRelay
    BY DEF Met, BothRelay
  <1>2. ArmsMet'
    BY <1>1 DEF MeetInv, ArmsMet
  <1>3. DhtMet'
    BY <1>1 DEF MeetInv, DhtMet
  <1>4. QED
    BY <1>2, <1>3 DEF MeetInv

LEMMA NetFailsKept ==
    ASSUME TypeOK, NEW x \in Sides, NetFails(x) \/ LanFails(x)
    PROVE  /\ \A y \in Sides : net'[y] \in {net[y], "off"}
           /\ \A y \in Sides : res'[y] \in {res[y], "err", "lan"}
  BY DEF TypeOK, NetFails, LanFails, Return, LanTo, NetTo

\* The internet arms up to the handshake.
LEMMA NetStepMeet ==
    ASSUME MeetInv, TypeOK', NEW x \in Sides,
           NotFound(x) \/ PunchHeard(x) \/ FallBack(x) \/ QuicTimeout(x)
             \/ RelayArrive(x) \/ RelayTurnsAway(x) \/ Lookup \/ QuicConnect \/ Poll
    PROVE  MeetInv'
  <1> USE DEF meeting, wires, arms, users, MeetInv
  <1>m. mode' = mode /\ hour' = hour
    BY DEF NotFound, PunchHeard, FallBack, QuicTimeout, RelayArrive, RelayTurnsAway,
           Lookup, QuicConnect, Poll
  <1>s. Met' = Met /\ BothRelay' = BothRelay
    BY <1>m DEF Met, BothRelay
  <1>e. ASSUME NetFails(x), onDht' = onDht, reg' \in {reg, reg \ {x}}
        PROVE  MeetInv'
    BY <1>e, <1>m, NetFailsKept, MeetKept
  <1>1. CASE NotFound(x)
    BY <1>1, <1>e DEF NotFound
  <1>2. CASE PunchHeard(x)
    <2>1. ArmsMet'
      BY <1>2, <1>s DEF PunchHeard, NetTo, ArmsMet, TypeOK
    <2>2. QED
      BY <1>2, <2>1, <1>s DEF PunchHeard, DhtMet
  <1>3. CASE FallBack(x)
    <2>1. CASE x \in allow
      <3>1. ArmsMet'
        BY <1>3, <2>1, <1>s DEF FallBack, NetTo, ArmsMet, TypeOK
      <3>2. QED
        BY <1>3, <3>1, <1>s DEF FallBack, DhtMet
    <2>2. CASE x \notin allow
      BY <1>3, <2>2, <1>e DEF FallBack
    <2>3. QED
      BY <2>1, <2>2
  <1>4. CASE QuicTimeout(x)
    BY <1>4, <1>e DEF QuicTimeout
  <1>5. CASE RelayArrive(x)
    <2>1. Other(x) \in Sides /\ Sides = {x, Other(x)}
      BY DEF Other, Sides
    <2>2. Other(x) \in reg => Met \/ BothRelay
      BY <1>5, <2>1 DEF RelayArrive, ArmsMet, BothRelay
    <2>3. ArmsMet'
      BY <1>5, <1>s, <2>2 DEF RelayArrive, ArmsMet, TypeOK
    <2>4. QED
      BY <1>5, <2>3, <1>s DEF RelayArrive, DhtMet
  <1>6. CASE RelayTurnsAway(x)
    BY <1>6, <1>e DEF RelayTurnsAway
  <1>7. CASE Lookup
    <2>1. Met
      BY <1>7 DEF Lookup, Announced, ArmsMet, DhtMet, Met, Sides
    <2>2. ArmsMet'
      BY <1>7, <1>s, <2>1 DEF Lookup, FoundPeer, NetTo, ArmsMet, TypeOK
    <2>3. QED
      BY <1>7, <2>1, <2>2, <1>s DEF Lookup, FoundPeer, DhtMet
  <1>8. CASE QuicConnect
    <2>1. ArmsMet'
      BY <1>8, <1>s DEF QuicConnect, ArmsMet, TypeOK
    <2>2. QED
      BY <1>8, <2>1, <1>s DEF QuicConnect, DhtMet
  <1>9. CASE Poll
    <2>1. Met
      BY <1>9 DEF Poll, Announced, DhtMet
    <2>2. ArmsMet'
      BY <1>9, <1>s, <2>1 DEF Poll, FoundPeer, NetTo, ArmsMet, TypeOK
    <2>3. QED
      BY <1>9, <2>2, <1>s DEF Poll, FoundPeer, DhtMet
  <1>10. QED
    BY <1>1, <1>2, <1>3, <1>4, <1>5, <1>6, <1>7, <1>8, <1>9

\* The handshake: a session over the net or the relay takes an arm that was in
\* that handshake.
LEMMA ShakeStepMeet ==
    ASSUME MeetInv, TypeOK', NEW p \in Paths,
           Hello(p) \/ Reply(p) \/ InitiatorDone(p) \/ ResponderDone(p)
             \/ (\E x \in Sides : ShakeFails(x, p))
    PROVE  MeetInv'
  <1> USE DEF meeting, wires, arms, users
  <1>m. mode' = mode /\ hour' = hour /\ onDht' = onDht /\ reg' = reg
    BY DEF Hello, Reply, InitiatorDone, ResponderDone, ShakeFails
  <1>s. Met' = Met /\ BothRelay' = BothRelay
    BY <1>m DEF Met, BothRelay
  <1>1. CASE Hello(p) \/ Reply(p)
    BY <1>1, <1>m, MeetKept DEF Hello, Reply
  <1>2. ASSUME NEW x \in Sides, Shaking(x, p), Return(x, p)
        PROVE  MeetInv'
    <2>1. (p = "net" => Met) /\ (p = "relay" => Met \/ BothRelay)
      BY <1>2 DEF Shaking, MeetInv, ArmsMet
    <2>2. ArmsMet'
      BY <1>2, <1>m, <1>s, <2>1 DEF Return, NetTo, MeetInv, ArmsMet, TypeOK
    <2>3. QED
      BY <2>2, <1>m, <1>s DEF MeetInv, DhtMet
  <1>3. CASE InitiatorDone(p) \/ ResponderDone(p)
    BY <1>2, <1>3 DEF InitiatorDone, ResponderDone, Sides
  <1>4. ASSUME NEW x \in Sides, ShakeFails(x, p)
        PROVE  MeetInv'
    BY <1>4, <1>m, NetFailsKept, MeetKept DEF ShakeFails, MeetInv
  <1>5. QED
    BY <1>1, <1>3, <1>4

LEMMA NextMeet == ASSUME MeetInv, TypeOK', [Next]_vars PROVE MeetInv'
  <1> USE DEF meeting, wires, arms, users
  <1>l. CASE LanFound \/ LanGivesUp \/ LanConnect
    <2>1. CASE LanGivesUp
      BY <2>1, NetFailsKept, MeetKept DEF LanGivesUp, MeetInv, Sides
    <2>2. QED
      BY <1>l, <2>1, MeetKept DEF LanFound, LanConnect
  <1>1. ASSUME NEW x \in Sides, LanArm(x)
        PROVE  MeetInv'
    BY <1>1, <1>l, ShakeStepMeet DEF LanArm, Paths
  <1>2. ASSUME NEW x \in Sides, NetArm(x)
        PROVE  MeetInv'
    <2>1. CASE \E p \in {"net", "relay"} :
                  \/ x = "receiver" /\ (Hello(p) \/ InitiatorDone(p))
                  \/ x = "sender" /\ (Reply(p) \/ ResponderDone(p))
                  \/ ShakeFails(x, p)
      BY <1>2, <2>1, ShakeStepMeet DEF Paths
    <2>2. QED
      BY <1>2, <2>1, NetStepMeet DEF NetArm
  <1>3. CASE Environment
    <2>1. ASSUME NEW x \in Sides, Quit(x) PROVE MeetInv'
      BY <2>1, MeetKept DEF Quit, NetTo, MeetInv, TypeOK
    <2>2. QED
      BY <1>3, <2>1, MeetKept DEF Environment, Lose, RelayBreaks
  <1>4. CASE UNCHANGED vars
    BY <1>4, MeetKept DEF vars
  <1>5. QED
    BY <1>1, <1>2, <1>3, <1>4 DEF Next, Terminated

\* Two calls of different hours never end in a session the DHT had a part in,
\* hole-punched or fallen back to the relay, whatever fails and however the arms
\* interleave (share_code.rs:20-36, coordinator.rs:285-289, 440-445).
THEOREM OldCodesFindNobody == Spec => []SameHourOverDht
  <1>1. Init => MeetInv
    BY InitMeet
  <1>2. MeetInv /\ TypeOK' /\ [Next]_vars => MeetInv'
    BY NextMeet
  <1>3. MeetInv => SameHourOverDht
    BY DEF MeetInv, ArmsMet, SameHourOverDht, Met, BothRelay
  <1>4. QED
    BY <1>1, <1>2, <1>3, ConnectTypeCorrect, PTL DEF Spec
=============================================================================
