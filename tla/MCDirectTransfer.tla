-------------------------- MODULE MCDirectTransfer --------------------------
(***************************************************************************)
(* The runs of DirectTransfer, and what comments in the code say of it     *)
(* and the code does not do: each claim is refuted by a run of its own.    *)
(***************************************************************************)
EXTENDS DirectTransfer

\* receiver.rs:103-104: the sender opens the data stream immediately, "so
\* accept_uni completes without meaningful delay".
AcceptUniCompletes == (rpc = "accept") ~> (rpc # "accept")

\* receiver.rs:234-236: waiting for the previous chunk's write to land
\* "keeps writes ordered".  A received file is then the file that was sent.
WritesStayOrdered == rpc = "done" /\ pool = {} => disk = Chunks

=============================================================================
