---------------------------- MODULE MCChunkIndex ----------------------------
(* Instances of ChunkIndex for TLC. *)
EXTENDS ChunkIndex

CONSTANTS c1, c2, m1, m2, m3

(* The two chunks order the masternodes in opposite ways. *)
MCKey == [c \in Chunks |-> [m \in Masternodes |->
            LET place == CASE m = m1 -> 1 [] m = m2 -> 2 [] OTHER -> 3
            IN  IF c = c1 THEN place ELSE 4 - place]]

(* No two masternodes share an address. *)
MCAddr == [m \in Masternodes |-> m]

(* m2 and m3 are reported with the same address. *)
MCAddrClash == [m \in Masternodes |-> IF m = m3 THEN m2 ELSE m]
=============================================================================
