--------------------------- MODULE MCRelayServer ---------------------------
(***************************************************************************)
(* The runs of RelayServer, and a statement about the relay that its code  *)
(* does not keep.                                                          *)
(***************************************************************************)
EXTENDS RelayServer

\* main.rs:45: "Check atomically: are we first or second peer for this
\* token?"  Then two connections with one token are never both first.
OneFirstPeer ==
    \A c, d \in Clients :
        c # d /\ token[c] = token[d] =>
            ~(hst[c] \in {"register", "wait"} /\ hst[d] \in {"register", "wait"}
                /\ peer[c] = NoClient /\ peer[d] = NoClient)

=============================================================================
