---------------------------- MODULE MCChunkStore ----------------------------
(* Instances of ChunkStore for TLC. *)
EXTENDS ChunkStore

CONSTANTS c1, c2, t1, t2

(* Two artworks that share a chunk. *)
MCTicketChunks == [t \in Tickets |-> IF t = t1 THEN <<c1, c2>> ELSE <<c1>>]

(* Every ticket consists of the one chunk c1. *)
MCOneChunk == [t \in Tickets |-> <<c1>>]
=============================================================================
