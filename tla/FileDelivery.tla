----------------------------- MODULE FileDelivery -----------------------------
(***************************************************************************)
(* What the two users of a transfer are promised, whatever carries it: the *)
(* file is accepted chunk by chunk, the sender's progress bar follows what *)
(* is accepted, and either call returns Ok only for a whole file.          *)
(* DirectTransfer and RelayTransfer implement it.                          *)
(***************************************************************************)
EXTENDS Integers, FiniteSets

CONSTANT Chunks  \* the chunks of the file, finitely many

VARIABLES
    sender, receiver, \* what send_file and receive_file have come to
    accepted,         \* chunks the receiver has
    bar               \* chunks the sender's user sees delivered

vars == <<sender, receiver, accepted, bar>>

Outcomes == {"run", "ok", "err"}

Init == sender = "run" /\ receiver = "run" /\ accepted = {} /\ bar = 0

\* The receiver takes up an earlier transfer, and may fail to say so.
Resume ==
    /\ receiver = "run" /\ accepted = {}
    /\ accepted' \in SUBSET Chunks /\ receiver' \in {"run", "err"}
    /\ UNCHANGED <<sender, bar>>

Accept ==
    /\ receiver = "run"
    /\ \E c \in Chunks \ accepted : accepted' = accepted \cup {c}
    /\ UNCHANGED <<sender, receiver, bar>>

\* The bar only grows, up to what is accepted.
Report ==
    /\ sender = "run" /\ bar' \in bar + 1 .. Cardinality(accepted)
    /\ UNCHANGED <<sender, receiver, accepted>>

ReceiverOk ==
    /\ receiver = "run" /\ accepted = Chunks
    /\ receiver' = "ok" /\ UNCHANGED <<sender, accepted, bar>>

SenderOk ==
    /\ sender = "run" /\ accepted = Chunks /\ bar = Cardinality(Chunks)
    /\ sender' = "ok" /\ UNCHANGED <<receiver, accepted, bar>>

Fail ==
    /\ \/ sender = "run" /\ sender' = "err" /\ UNCHANGED receiver
       \/ receiver = "run" /\ receiver' = "err" /\ UNCHANGED sender
    /\ UNCHANGED <<accepted, bar>>

\* Both users start over after a failure, from nothing.
StartOver ==
    /\ "run" \notin {sender, receiver} /\ "err" \in {sender, receiver}
    /\ sender' = "run" /\ receiver' = "run" /\ accepted' = {} /\ bar' = 0

Next == Resume \/ Accept \/ Report \/ ReceiverOk \/ SenderOk \/ Fail \/ StartOver

Spec == Init /\ [][Next]_vars

=============================================================================
