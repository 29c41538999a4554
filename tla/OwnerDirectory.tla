--------------------------- MODULE OwnerDirectory ---------------------------
(***************************************************************************)
(* What the owner directory of a node promises to the fetcher.  A chunk is *)
(* measured against masternodes that are listed, and loses no measurement. *)
(* The owners of all chunks are published together: for each chunk, so     *)
(* many of the measured masternodes as there is room for, and no nearer    *)
(* one left out.  Until the next publication a reader finds these owners,  *)
(* or none at all.                                                         *)
(*                                                                         *)
(* Tables, batches, repeated rows and kills of the process are             *)
(* ChunkIndex's, which implements this.  There may be fewer owners than    *)
(* Limit, since a repeated row takes a rank of its own.                    *)
(***************************************************************************)
EXTENDS Naturals, FiniteSets

CONSTANTS Chunks, Masternodes, Limit, Key

VARIABLES
    listed,      \* masternodes in the list
    measured,    \* masternodes whose distance to each chunk is known
    owners       \* the masternodes said to own each chunk

(* the masternodes of M nearest to c, some or all there is room for *)
NearestOf(c, M) ==
    {near \in SUBSET M :
        /\ Cardinality(near) <= Limit
        /\ M # {} => near # {}
        /\ \A m \in near, n \in M \ near : Key[c][m] < Key[c][n]}

Init == /\ listed = {}
        /\ measured = [c \in Chunks |-> {}]
        /\ owners = [c \in Chunks |-> {}]

List(added) ==
    /\ listed' = listed \cup added
    /\ UNCHANGED <<measured, owners>>

Measure(c) ==
    /\ \E m \in listed : measured' = [measured EXCEPT ![c] = @ \cup {m}]
    /\ UNCHANGED <<listed, owners>>

Withdraw ==
    /\ owners' = [c \in Chunks |-> {}]
    /\ UNCHANGED <<listed, measured>>

Publish ==
    /\ \A c \in Chunks : owners'[c] \in NearestOf(c, measured[c])
    /\ DOMAIN owners' = Chunks
    /\ UNCHANGED <<listed, measured>>

Next == \/ \E added \in SUBSET Masternodes : List(added)
        \/ \E c \in Chunks : Measure(c)
        \/ Withdraw
        \/ Publish

Spec == Init /\ [][Next]_<<listed, measured, owners>>

=============================================================================
