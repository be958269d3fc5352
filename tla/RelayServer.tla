---------------------------- MODULE RelayServer ----------------------------
(***************************************************************************)
(* The relay (p2pshare-relay/src/main.rs) and the part of its clients that *)
(* talks to it before the session starts (connect_via_relay_at of          *)
(* nat/relay.rs).                                                          *)
(*                                                                         *)
(* Every accepted connection has a handler task of its own.  The handlers  *)
(* share one map from pairing tokens to oneshot senders, behind a mutex    *)
(* that is released after each single operation.  A handler is named by    *)
(* the connection it was spawned for.                                      *)
(*                                                                         *)
(* The payload of a session is left out: what matters here is which        *)
(* connections are joined and when the relay closes them.                  *)
(***************************************************************************)
EXTENDS Integers, FiniteSets

CONSTANTS
    Clients,   \* connections made to the relay, retries included
    Tokens,    \* relay_token_for of the share codes in use
    NoClient

ASSUME ClientsAssumption == NoClient \notin Clients

VARIABLES
    token,     \* the pairing token each client presents
    cst,       \* client: "off", "connected", "waiting", "paired", "closed"
    sent,      \* clients whose token is on the wire
    signalled, \* clients the relay has written 0x01 to
    sock,      \* the relay's end of each connection: "none", "open", "closed"
    hst,       \* handler: see HandlerStates
    waiting,   \* the map: whose oneshot sender is filed under each token
    took,      \* the handler whose sender this handler took out of the map
    peer,      \* the connection this handler's oneshot has delivered
    copying    \* connections a running copy reads from

clients == <<token, cst, sent>>
vars == <<token, cst, sent, signalled, sock, hst, waiting, took, peer, copying>>

HandlerStates == {"none", "read", "check", "give", "register", "wait", "cleanup",
                  "signal", "signalPeer", "pipe", "done"}

Joined == {"signal", "signalPeer", "pipe"}

TypeOK ==
    /\ token \in [Clients -> Tokens]
    /\ cst \in [Clients -> {"off", "connected", "waiting", "paired", "closed"}]
    /\ sent \subseteq Clients /\ signalled \subseteq Clients
    /\ sock \in [Clients -> {"none", "open", "closed"}]
    /\ hst \in [Clients -> HandlerStates]
    /\ waiting \in [Tokens -> Clients \cup {NoClient}]
    /\ took \in [Clients -> Clients \cup {NoClient}]
    /\ peer \in [Clients -> Clients \cup {NoClient}]
    /\ copying \subseteq Clients
    /\ \A h \in Clients : hst[h] \in Joined => peer[h] # NoClient

Init ==
    /\ token \in [Clients -> Tokens]
    /\ cst = [c \in Clients |-> "off"]
    /\ sent = {} /\ signalled = {}
    /\ sock = [c \in Clients |-> "none"]
    /\ hst = [c \in Clients |-> "none"]
    /\ waiting = [t \in Tokens |-> NoClient]
    /\ took = [c \in Clients |-> NoClient]
    /\ peer = [c \in Clients |-> NoClient]
    /\ copying = {}

Goto(h, state) == hst' = [hst EXCEPT ![h] = state]

\* The relay drops its ends of the connections in S.
Close(S) == sock' = [c \in Clients |-> IF c \in S THEN "closed" ELSE sock[c]]

-----------------------------------------------------------------------------
(* The clients.                                                             *)

\* TcpStream::connect, and the accept loop spawning handle.
Connect(c) ==
    /\ cst[c] = "off"
    /\ cst' = [cst EXCEPT ![c] = "connected"]
    /\ sock' = [sock EXCEPT ![c] = "open"]
    /\ Goto(c, "read")
    /\ UNCHANGED <<token, sent, signalled, waiting, took, peer, copying>>

SendToken(c) ==
    /\ cst[c] = "connected"
    /\ cst' = [cst EXCEPT ![c] = "waiting"]
    /\ sent' = sent \cup {c}
    /\ UNCHANGED <<token, signalled, sock, hst, waiting, took, peer, copying>>

\* read_exact returns the byte 0x01.
Paired(c) ==
    /\ cst[c] = "waiting" /\ c \in signalled
    /\ cst' = [cst EXCEPT ![c] = "paired"]
    /\ UNCHANGED <<token, sent, signalled, sock, hst, waiting, took, peer, copying>>

\* The relay closed the connection: read_exact, or the session, fails.
Refused(c) ==
    /\ sock[c] = "closed"
    /\ \/ cst[c] = "waiting" /\ c \notin signalled
       \/ cst[c] \in {"connected", "paired"}
    /\ cst' = [cst EXCEPT ![c] = "closed"]
    /\ UNCHANGED <<token, sent, signalled, sock, hst, waiting, took, peer, copying>>

\* The client closes: its 90 s are over, it is killed, cut off, or finished.
Leave(c) ==
    /\ cst[c] \in {"connected", "waiting", "paired"}
    /\ cst' = [cst EXCEPT ![c] = "closed"]
    /\ UNCHANGED <<token, sent, signalled, sock, hst, waiting, took, peer, copying>>

-----------------------------------------------------------------------------
(* The handler of connection h.                                             *)

ReadToken(h) ==
    /\ hst[h] = "read" /\ h \in sent
    /\ Goto(h, "check")
    /\ UNCHANGED <<clients, signalled, sock, waiting, took, peer, copying>>

ReadFails(h) ==
    /\ hst[h] = "read" /\ h \notin sent /\ cst[h] = "closed"
    /\ Goto(h, "done") /\ Close({h})
    /\ UNCHANGED <<clients, signalled, waiting, took, peer, copying>>

\* Mutant: the sender stays in the map for the next connection to take.
Check_KeepsEntry(h) ==
    /\ hst[h] = "check"
    /\ IF waiting[token[h]] # NoClient
       THEN Goto(h, "give") /\ took' = [took EXCEPT ![h] = waiting[token[h]]]
       ELSE Goto(h, "register") /\ UNCHANGED took
    /\ UNCHANGED <<clients, signalled, sock, waiting, peer, copying>>

\* waiting.lock().await.remove(&token); the lock is free again after it.
Check(h) ==
    /\ hst[h] = "check"
    /\ IF waiting[token[h]] # NoClient
       THEN /\ Goto(h, "give")
            /\ took' = [took EXCEPT ![h] = waiting[token[h]]]
            /\ waiting' = [waiting EXCEPT ![token[h]] = NoClient]
       ELSE Goto(h, "register") /\ UNCHANGED <<waiting, took>>
    /\ UNCHANGED <<clients, signalled, sock, peer, copying>>

\* tx.send(stream): the waiting handler gets the connection, or, if it has
\* given up in the meantime, the connection is dropped.
Give(h) ==
    /\ hst[h] = "give"
    /\ LET first == took[h] IN
       IF hst[first] = "wait"
       THEN peer' = [peer EXCEPT ![first] = h] /\ UNCHANGED sock
       ELSE Close({h}) /\ UNCHANGED peer
    /\ Goto(h, "done")
    /\ UNCHANGED <<clients, signalled, waiting, took, copying>>

\* Mutant: the first client is told at once that it is paired.
Register_SignalsEarly(h) ==
    /\ hst[h] = "register"
    /\ waiting' = [waiting EXCEPT ![token[h]] = h]
    /\ signalled' = signalled \cup {h}
    /\ Goto(h, "wait")
    /\ UNCHANGED <<clients, sock, took, peer, copying>>

\* insert drops the sender that was filed under the token, if any.
Register(h) ==
    /\ hst[h] = "register"
    /\ waiting' = [waiting EXCEPT ![token[h]] = h]
    /\ Goto(h, "wait")
    /\ UNCHANGED <<clients, signalled, sock, took, peer, copying>>

\* Mutant: a closed channel is taken for a delivery.
Receive_AnyResult(h) ==
    /\ hst[h] = "wait"
    /\ peer[h] # NoClient \/ waiting[token[h]] # h
    /\ Goto(h, "signal")
    /\ UNCHANGED <<clients, signalled, sock, waiting, took, peer, copying>>

Receive(h) ==
    /\ hst[h] = "wait" /\ peer[h] # NoClient
    /\ Goto(h, "signal")
    /\ UNCHANGED <<clients, signalled, sock, waiting, took, peer, copying>>

\* PAIR_TIMEOUT_SECS are over, or the sender was dropped.
GiveUp(h) ==
    /\ hst[h] = "wait" /\ peer[h] = NoClient
    /\ Goto(h, "cleanup")
    /\ UNCHANGED <<clients, signalled, sock, waiting, took, peer, copying>>

\* Mutant: the entry is not taken out of the map.
Cleanup_KeepsEntry(h) ==
    /\ hst[h] = "cleanup"
    /\ Goto(h, "done") /\ Close({h})
    /\ UNCHANGED <<clients, signalled, waiting, took, peer, copying>>

\* Whatever is filed under the token goes, and the connection is closed.
Cleanup(h) ==
    /\ hst[h] = "cleanup"
    /\ waiting' = [waiting EXCEPT ![token[h]] = NoClient]
    /\ Goto(h, "done") /\ Close({h})
    /\ UNCHANGED <<clients, signalled, took, peer, copying>>

\* Writing 0x01 to c; the write may fail when c is gone.
WriteSignal(h, c, next) ==
    \/ signalled' = signalled \cup {c} /\ Goto(h, next) /\ UNCHANGED sock
    \/ /\ cst[c] = "closed"
       /\ Goto(h, "done") /\ Close({h, peer[h]})
       /\ UNCHANGED signalled

Signal(h) ==
    /\ hst[h] = "signal"
    /\ WriteSignal(h, h, "signalPeer")
    /\ UNCHANGED <<clients, waiting, took, peer, copying>>

\* Mutant: only the first client is told.
SignalPeer_Forgotten(h) ==
    /\ hst[h] = "signalPeer"
    /\ Goto(h, "pipe") /\ copying' = copying \cup {h, peer[h]}
    /\ UNCHANGED <<clients, signalled, sock, waiting, took, peer>>

SignalPeer(h) ==
    /\ hst[h] = "signalPeer"
    /\ WriteSignal(h, peer[h], "pipe")
    /\ copying' = IF hst'[h] = "pipe" THEN copying \cup {h, peer[h]} ELSE copying
    /\ UNCHANGED <<clients, waiting, took, peer>>

\* Mutant: the end of the second client's stream goes unnoticed.
CopyEnds_OneWay(h) ==
    /\ hst[h] = "pipe"
    /\ h \in copying /\ cst[h] = "closed" /\ copying' = copying \ {h}
    /\ UNCHANGED <<clients, signalled, sock, hst, waiting, took, peer>>

\* copy returns when its source is closed.  The other direction goes on.
CopyEnds(h) ==
    /\ hst[h] = "pipe"
    /\ \E c \in {h, peer[h]} \cap copying :
         cst[c] = "closed" /\ copying' = copying \ {c}
    /\ UNCHANGED <<clients, signalled, sock, hst, waiting, took, peer>>

\* ... or when what its source has sent cannot be written any more.
CopyFails(h) ==
    /\ hst[h] = "pipe"
    /\ \E c \in {h, peer[h]} \cap copying : \E d \in {h, peer[h]} \ {c} :
         cst[c] = "paired" /\ cst[d] = "closed" /\ copying' = copying \ {c}
    /\ UNCHANGED <<clients, signalled, sock, hst, waiting, took, peer>>

\* join! has both results; the halves of both streams are dropped.
PipeDone(h) ==
    /\ hst[h] = "pipe" /\ {h, peer[h]} \cap copying = {}
    /\ Goto(h, "done") /\ Close({h, peer[h]})
    /\ UNCHANGED <<clients, signalled, waiting, took, peer, copying>>

\* Nothing is left to do once every client and handler has ended.
Terminated ==
    /\ \A c \in Clients : cst[c] = "closed" /\ hst[c] = "done"
    /\ UNCHANGED vars

Client(c) == Paired(c) \/ Refused(c)
User(c) == Connect(c) \/ SendToken(c) \/ Leave(c)
Handler(h) ==
    \/ ReadToken(h) \/ ReadFails(h) \/ Check(h) \/ Give(h) \/ Register(h)
    \/ Receive(h) \/ GiveUp(h) \/ Cleanup(h) \/ Signal(h) \/ SignalPeer(h)
    \/ CopyEnds(h) \/ PipeDone(h)

Next ==
    \/ \E c \in Clients : Client(c) \/ User(c) \/ Handler(c) \/ CopyFails(c)
    \/ Terminated

Spec == Init /\ [][Next]_vars

\* Handlers and readers run whenever they can, and the pairing timer fires.
\* When a client connects, talks or leaves is its own affair.
FairSpec == Spec /\ \A c \in Clients : WF_vars(Client(c)) /\ WF_vars(Handler(c))

-----------------------------------------------------------------------------
\* The handlers that own the relay's end of connection c: its own until it
\* ends, and a handler it was delivered to.
Holders(c) ==
    {h \in Clients : \/ h = c /\ hst[h] \notin {"none", "done"}
                     \/ peer[h] = c /\ hst[h] \in {"wait"} \cup Joined}

\* A connection is open while exactly one handler owns it, and no longer: in
\* no interleaving of lookups, hand-overs and time-outs is it lost or served
\* twice (main.rs:45-88).
OneHolder == \A c \in Clients : Cardinality(Holders(c)) = (IF sock[c] = "open" THEN 1 ELSE 0)

\* A connection is joined with at most one other, that presented the same
\* token, and no client is told it is paired before it is (main.rs:52, 62-68).
PairsAreExclusive ==
    /\ \A h \in Clients : peer[h] # NoClient =>
         /\ peer[h] # h /\ token[peer[h]] = token[h]
         /\ peer[peer[h]] = NoClient
         /\ \A g \in Clients : peer[g] = peer[h] => g = h
    /\ \A c \in signalled : peer[c] # NoClient \/ \E h \in Clients : peer[h] = c

\* The map holds senders of handlers that have no peer and have not ended: they
\* wait, or have given up and are about to clean up, in which case the sender
\* is of no use to who takes it.  Whichever handler's clean-up removed which
\* entry, nobody is offered a handler beyond that (main.rs:46, 58, 86).
RegistrationHasWaiter ==
    \A t \in Tokens : waiting[t] # NoClient =>
        LET h == waiting[t]
        IN hst[h] \in {"wait", "cleanup"} /\ token[h] = t /\ peer[h] = NoClient

\* The relay alone ends every wait for a peer, one way or the other, with no
\* help from the client's own timer (main.rs:61, nat/relay.rs:77-80).
EveryWaitEnds == \A c \in Clients : cst[c] = "waiting" ~> cst[c] # "waiting"

\* A session whose clients are both gone does not keep its task
\* (main.rs:74-79).
AbandonedPipeEnds ==
    \A a, b \in Clients :
        hst[a] = "pipe" /\ peer[a] = b /\ cst[a] = "closed" /\ cst[b] = "closed"
            ~> hst[a] = "done"

=============================================================================
