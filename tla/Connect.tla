------------------------------- MODULE Connect -------------------------------
(***************************************************************************)
(* How a session comes about (session/coordinator.rs): one of the sender's *)
(* calls against one of the receiver's, for one share code.                *)
(*                                                                         *)
(* announce_and_connect_with_code and lookup_and_connect are a select! of  *)
(* two arms that run concurrently; the LAN-only and the relay-only calls   *)
(* are one arm, or the end of one, by itself.  The LAN arm ends in a       *)
(* direct connection.  The internet arm finds the peer on the DHT, punches *)
(* a hole and connects, or falls back to the relay.  The first arm to      *)
(* finish its Noise handshake decides, and the other is dropped.  So there *)
(* are three paths, and both calls pick one on their own.                  *)
(*                                                                         *)
(* Timers are not counted: each may fire at any time, before or after the  *)
(* answer it waits for.                                                    *)
(***************************************************************************)
EXTENDS Integers, FiniteSets

CONSTANTS
    Losses,      \* paths that may fail while they are in use
    Quitters     \* sides whose user may quit

Sides == {"sender", "receiver"}
Paths == {"lan", "net", "relay"}

ASSUME ConnectAssumption ==
    Losses \subseteq Paths /\ Quitters \subseteq Sides

Other(x) == IF x = "sender" THEN "receiver" ELSE "sender"

VARIABLES
    lan,      \* LAN arm of each side
    net,      \* internet arm of each side
    res,      \* what each call has returned: "none" yet, a path, or "err"
    mode,     \* how each side was called: both arms, LAN only, relay only
    hour,     \* the hour in which it was, which is part of its infohashes
    allow,    \* sides called with allow_relay = true
    alive,    \* sides whose user has not quit
    onDht,    \* sides that have announced themselves on the DHT
    punching, \* sides that have started to send punches
    reg,      \* sides with a connection waiting at the relay
    up,       \* paths that have been connected
    msgs,     \* handshake messages written on each path
    left,     \* sides that have dropped their end of each path
    lost      \* paths that are cut

arms == <<lan, net, res>>
users == <<mode, hour, allow, alive>>
meeting == <<onDht, punching, reg>>
wires == <<up, msgs, left, lost>>
vars == <<lan, net, res, mode, hour, allow, alive, onDht, punching, reg, up, msgs,
          left, lost>>

Modes == {"race", "lan", "relay"}
LanStates == {"accept", "find", "connect", "shake", "off"}
NetStates == {"poll", "lookup", "same", "punch", "quic", "shake", "relay", "rshake", "off"}

TypeOK ==
    /\ lan \in [Sides -> LanStates]
    /\ net \in [Sides -> NetStates]
    /\ res \in [Sides -> {"none", "err"} \cup Paths]
    /\ mode \in [Sides -> Modes] /\ hour \in [Sides -> {0, 1}]
    /\ allow \subseteq Sides /\ alive \subseteq Sides
    /\ onDht \subseteq Sides
    /\ punching \subseteq Sides
    /\ reg \subseteq Sides /\ reg # Sides
    /\ up \subseteq Paths /\ lost \subseteq up
    /\ msgs \in [Paths -> 0 .. 3]
    /\ left \in [Paths -> SUBSET Sides]

\* The LAN-only calls, announce_mdns_only_with_code and lookup_mdns_only, are
\* the LAN arm: the sender accepts for ever, the receiver looks for 8 s.
LanStart(x, m) == IF m = "relay" THEN "off" ELSE IF x = "sender" THEN "accept" ELSE "find"

\* The relay-only calls, through a proxy or not, are what the internet arm falls
\* back to: one connection to the relay and a handshake.
NetStart(x, m) ==
    IF m = "lan" THEN "off"
    ELSE IF m = "relay" THEN "relay"
    ELSE IF x = "sender" THEN "poll" ELSE "lookup"

Init ==
    /\ mode \in [Sides -> Modes] /\ hour \in [Sides -> {0, 1}]
    /\ lan = [x \in Sides |-> LanStart(x, mode[x])]
    /\ net = [x \in Sides |-> NetStart(x, mode[x])]
    /\ res = [x \in Sides |-> "none"]
    /\ allow \in SUBSET {x \in Sides : mode[x] = "race"} /\ alive = Sides
    /\ onDht = {x \in {"sender"} : mode[x] = "race"} /\ punching = {} /\ reg = {}
    /\ up = {} /\ msgs = [p \in Paths |-> 0]
    /\ left = [p \in Paths |-> {}] /\ lost = {}

LanTo(x, state) == lan' = [lan EXCEPT ![x] = state]
NetTo(x, state) == net' = [net EXCEPT ![x] = state]

\* x drops its end of every path in P.
Drop(x, P) == left' = [p \in Paths |-> IF p \in P THEN left[p] \cup {x} ELSE left[p]]

-----------------------------------------------------------------------------
(* The end of a call, and the end of an arm.                                *)

\* Mutant: the arms that did not win keep their connections open.
Return_LeaksArms(x, outcome) ==
    /\ res' = [res EXCEPT ![x] = outcome]
    /\ LanTo(x, "off") /\ NetTo(x, "off")
    /\ UNCHANGED left

\* select! returns, and drops both arms with all they hold but the winner's
\* connection.
Return(x, outcome) ==
    /\ res' = [res EXCEPT ![x] = outcome]
    /\ LanTo(x, "off") /\ NetTo(x, "off")
    /\ Drop(x, Paths \ {outcome})

\* Mutant: the receiver's internet arm is matched like the sender's.
NetFails_EndsCall(x) == Return(x, "err")

\* `result => result?` on the sender: the error ends the call, LAN arm and
\* all.  `Ok(session) =` on the receiver: it disables the arm, and the call
\* fails when both arms are disabled.
NetFails(x) ==
    IF x = "sender" \/ lan[x] = "off"
    THEN Return(x, "err")
    ELSE NetTo(x, "off") /\ Drop(x, {"net", "relay"}) /\ UNCHANGED <<lan, res>>

\* The sender's LAN arm goes on with the next connection.
LanFails(x) ==
    IF x = "receiver" /\ net[x] = "off"
    THEN Return(x, "err")
    ELSE /\ LanTo(x, IF x = "sender" THEN "accept" ELSE "off")
         /\ Drop(x, {"lan"})
         /\ UNCHANGED <<net, res>>

-----------------------------------------------------------------------------
(* LAN.                                                                     *)

\* Multicast, broadcast or mDNS has seen the sender's announcement, which
\* lives as long as the sender's call, if that has a LAN arm.
LanFound ==
    /\ lan["receiver"] = "find" /\ lan["sender"] # "off"
    /\ LanTo("receiver", "connect")
    /\ UNCHANGED <<net, res, users, meeting, wires>>

\* The 8 s are over, or QUIC could not connect.
LanGivesUp ==
    /\ lan["receiver"] \in {"find", "connect"}
    /\ LanFails("receiver")
    /\ UNCHANGED <<users, meeting, up, msgs, lost>>

LanConnect ==
    /\ lan["receiver"] = "connect" /\ lan["sender"] = "accept"
    /\ lan' = [x \in Sides |-> "shake"] /\ up' = up \cup {"lan"}
    /\ UNCHANGED <<net, res, users, meeting, msgs, left, lost>>

-----------------------------------------------------------------------------
(* Internet: DHT, hole punching, QUIC.                                      *)

\* With the peer's address known: the external addresses are equal, or STUN
\* failed or found them different and hole punching starts.
FoundPeer(x) ==
    \/ NetTo(x, "same") /\ UNCHANGED punching
    \/ NetTo(x, "punch") /\ punching' = punching \cup {x}

\* Mutant: the infohash is made from the code alone.
Announced_AnyHour(x) == x \in onDht

\* There is an entry of x under the infohash the other side computes: both are
\* made from the code and the hour in which the call began.
Announced(x) == x \in onDht /\ hour["sender"] = hour["receiver"]

\* The receiver finds the sender's entry and announces itself.
Lookup ==
    /\ net["receiver"] = "lookup" /\ Announced("sender")
    /\ FoundPeer("receiver") /\ onDht' = onDht \cup {"receiver"}
    /\ UNCHANGED <<lan, res, users, reg, wires>>

Poll ==
    /\ net["sender"] = "poll" /\ Announced("receiver")
    /\ FoundPeer("sender")
    /\ UNCHANGED <<lan, res, users, onDht, reg, wires>>

\* Nothing on the DHT before the deadline, or no socket.
NotFound(x) ==
    /\ net[x] \in {"poll", "lookup"}
    /\ NetFails(x)
    /\ UNCHANGED <<users, meeting, up, msgs, lost>>

\* hole_punch returns Ok: a punch of the peer has been received.
PunchHeard(x) ==
    /\ net[x] = "punch" /\ Other(x) \in punching
    /\ NetTo(x, "quic")
    /\ UNCHANGED <<lan, res, users, meeting, wires>>

\* hole_punch has timed out, or the time left to the LAN arm on the same
\* network is over.
FallBack(x) ==
    /\ net[x] \in {"same", "punch"}
    /\ IF x \in allow
       THEN NetTo(x, "relay") /\ UNCHANGED <<lan, res, left>>
       ELSE NetFails(x)
    /\ UNCHANGED <<users, meeting, up, msgs, lost>>

QuicConnect ==
    /\ \A x \in Sides : net[x] = "quic"
    /\ net' = [x \in Sides |-> "shake"] /\ up' = up \cup {"net"}
    /\ UNCHANGED <<lan, res, users, meeting, msgs, left, lost>>

\* The sender's 15 s, or the receiver's idle timeout.
QuicTimeout(x) ==
    /\ net[x] = "quic"
    /\ NetFails(x)
    /\ UNCHANGED <<users, meeting, up, msgs, lost>>

-----------------------------------------------------------------------------
(* Relay, as RelayServer describes it.                                      *)

\* Mutant: the relay does not look for a first peer.
RelayArrive_NoLookup(x) ==
    /\ net[x] = "relay" /\ x \notin reg
    /\ reg' = reg \cup {x}
    /\ UNCHANGED <<arms, users, onDht, punching, wires>>

\* The relay files the connection, or joins it with the one that waits, whose
\* client may have gone in the meantime.
RelayArrive(x) ==
    /\ net[x] = "relay" /\ x \notin reg
    /\ IF Other(x) \in reg
       THEN /\ reg' = {} /\ up' = up \cup {"relay"}
            /\ net' = [y \in Sides |-> IF net[y] = "relay" THEN "rshake" ELSE net[y]]
       ELSE reg' = reg \cup {x} /\ UNCHANGED <<up, net>>
    /\ UNCHANGED <<lan, res, users, onDht, punching, msgs, left, lost>>

\* Mutant: no timer on the wait for the pairing byte.
RelayTurnsAway_NoTimer(x) == FALSE

\* No relay, no peer within 60 s or 90 s, or a lost race of two first peers.
\* The relay may keep the registration a while longer than its client.
RelayTurnsAway(x) ==
    /\ net[x] = "relay"
    /\ NetFails(x)
    /\ reg' \in {reg, reg \ {x}}
    /\ UNCHANGED <<users, onDht, punching, up, msgs, lost>>

-----------------------------------------------------------------------------
(* perform_handshake, on whichever path: the receiver is the initiator and  *)
(* writes the first and the third message, the sender the second.           *)

Shaking(x, p) == IF p = "lan" THEN lan[x] = "shake"
                 ELSE net[x] = IF p = "net" THEN "shake" ELSE "rshake"

\* What is written to a path that is cut goes nowhere, and the writer may not
\* notice.
Write(p) == msgs' = IF p \in lost THEN msgs ELSE [msgs EXCEPT ![p] = @ + 1]

Hello(p) ==
    /\ Shaking("receiver", p) /\ msgs[p] = 0
    /\ Write(p)
    /\ UNCHANGED <<arms, users, meeting, up, left, lost>>

\* Mutant: the responder takes the session without the third message.
Reply_ReturnsEarly(p) ==
    /\ Shaking("sender", p) /\ msgs[p] = 1
    /\ Write(p) /\ Return("sender", p)
    /\ UNCHANGED <<users, meeting, up, lost>>

Reply(p) ==
    /\ Shaking("sender", p) /\ msgs[p] = 1
    /\ Write(p)
    /\ UNCHANGED <<arms, users, meeting, up, left, lost>>

\* The initiator is done with writing its last message, and returns without
\* another await.
InitiatorDone(p) ==
    /\ Shaking("receiver", p) /\ msgs[p] = 2
    /\ Write(p) /\ Return("receiver", p)
    /\ UNCHANGED <<users, meeting, up, lost>>

ResponderDone(p) ==
    /\ Shaking("sender", p) /\ msgs[p] = 3
    /\ Return("sender", p)
    /\ UNCHANGED <<users, meeting, up, msgs, lost>>

\* A cut path fails the read.  So does a QUIC connection the peer has closed;
\* the relay does not pass a disconnection on while the other side listens.
ShakeFails(x, p) ==
    /\ Shaking(x, p)
    /\ p \in lost \/ (p # "relay" /\ Other(x) \in left[p])
    /\ IF p = "lan" THEN LanFails(x) ELSE NetFails(x)
    /\ UNCHANGED <<users, meeting, up, msgs, lost>>

-----------------------------------------------------------------------------
(* The environment.                                                         *)

Lose(p) ==
    /\ p \in Losses /\ p \in up \ lost
    /\ lost' = lost \cup {p}
    /\ UNCHANGED <<arms, users, meeting, up, msgs, left>>

\* The relay notices that one side has gone when it writes to it.
RelayBreaks ==
    /\ "relay" \in up \ lost /\ left["relay"] # {}
    /\ lost' = lost \cup {"relay"}
    /\ UNCHANGED <<arms, users, meeting, up, msgs, left>>

Quit(x) ==
    /\ x \in Quitters \cap alive
    /\ alive' = alive \ {x}
    /\ LanTo(x, "off") /\ NetTo(x, "off") /\ Drop(x, Paths)
    /\ UNCHANGED <<res, mode, hour, allow, meeting, up, msgs, lost>>

LanArm(x) ==
    \/ x = "receiver" /\ (LanFound \/ LanGivesUp \/ LanConnect \/ Hello("lan") \/ InitiatorDone("lan"))
    \/ x = "sender" /\ (Reply("lan") \/ ResponderDone("lan"))
    \/ ShakeFails(x, "lan")

NetArm(x) ==
    \/ NotFound(x) \/ PunchHeard(x) \/ FallBack(x) \/ QuicTimeout(x)
    \/ RelayArrive(x) \/ RelayTurnsAway(x)
    \/ x = "receiver" /\ (Lookup \/ QuicConnect)
    \/ x = "sender" /\ Poll
    \/ \E p \in {"net", "relay"} :
         \/ x = "receiver" /\ (Hello(p) \/ InitiatorDone(p))
         \/ x = "sender" /\ (Reply(p) \/ ResponderDone(p))
         \/ ShakeFails(x, p)

Environment == (\E p \in Paths : Lose(p)) \/ RelayBreaks \/ (\E x \in Sides : Quit(x))

\* A side in a handshake over the relay whose peer has gone.
AloneAtRelay(x) == net[x] = "rshake" /\ Other(x) \in left["relay"]

\* A LAN-only sender, whose accept has no timer, and nobody left to connect.
ListensAlone(x) ==
    x = "sender" /\ lan[x] = "accept" /\ net[x] = "off" /\ lan["receiver"] = "off"

Over(x) == res[x] # "none" \/ x \notin alive \/ AloneAtRelay(x) \/ ListensAlone(x)

\* Nothing left to do: not a deadlock.
Terminated == (\A x \in Sides : Over(x)) /\ UNCHANGED vars

Next == (\E x \in Sides : LanArm(x) \/ NetArm(x)) \/ Environment \/ Terminated

Spec == Init /\ [][Next]_vars

\* An arm that can go on is polled, and its timers fire.
FairSpec == Spec /\ \A x \in Sides : WF_vars(LanArm(x)) /\ WF_vars(NetArm(x))

-----------------------------------------------------------------------------
\* Both calls choose their path alone, yet a session of the sender is always
\* one the receiver has taken too: the last message of the handshake goes out
\* on one path only (coordinator.rs:250-371, 398-552, handshake.rs).
SenderFollowsReceiver == res["sender"] \in Paths => res["receiver"] = res["sender"]

\* Once connected, the receiver's LAN arm is given up for a session, for the
\* loss of that path or for the sender's departure, and for no failure of the
\* internet arm (coordinator.rs:401, 434-437; the regression that
\* tests/connection.rs:50-61 is about).
LanSurvives ==
    [][lan["receiver"] = "shake" /\ lan'["receiver"] # "shake" =>
         \/ res'["receiver"] \in Paths \/ "receiver" \notin alive'
         \/ "lan" \in lost \/ "sender" \in left["lan"]]_vars

\* Each call returns, whatever fails: a wait without end takes the relay and a
\* peer that left it in the middle of the handshake, or a LAN-only sender whose
\* receiver has given up (coordinator.rs:287-371, 403-552, 580-602).
CallsReturn == \A x \in Sides : <>Over(x)

\* Who meets by way of the DHT, be it over the hole-punched path or the relay it
\* falls back to, called in one hour: the infohashes of both sides contain it.
\* That is all the expiry there is: two relay-only calls ask for no hour, nor does
\* a LAN path (share_code.rs:20-36, coordinator.rs:285-289, 440-445).
SameHourOverDht ==
    \A x \in Sides : res[x] \in {"net", "relay"} =>
        hour["sender"] = hour["receiver"] \/ \A y \in Sides : mode[y] = "relay"

\* A receiver that took a direct session the sender did not, finds it closed:
\* it does not wait for a manifest for ever
\* (coordinator.rs:250, 370, 398).
OrphansAreClosed ==
    \A p \in {"lan", "net"} :
        res["receiver"] = p ~> res["sender"] = p \/ "sender" \in left[p] \/ p \in lost

=============================================================================
