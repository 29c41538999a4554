---------------------------- MODULE ChunkKeeper -----------------------------
(***************************************************************************)
(* What a node promises about the chunks it is to keep.  It takes note of  *)
(* a chunk when it has its file or when a ticket announces it; it tells    *)
(* others that it stores a chunk only while it has a file; it confirms     *)
(* only what a ticket announces.  The file of a chunk it has taken note of *)
(* is never given up, and the note stays.                                  *)
(*                                                                         *)
(* Directories, bodies, fetches, stale rows and kills of the process are   *)
(* ChunkStore's, which implements this.  A note may lose a confirmation or *)
(* the word `stored' at any time: the promise is about what is never       *)
(* claimed and never lost.                                                 *)
(***************************************************************************)
CONSTANT Chunks

VARIABLES
    announced,   \* chunks of the activation tickets in the blockchain
    filed,       \* chunks with a file in one of the directories
    noted,       \* chunks with a row
    stored,      \* those of them said to be stored
    confirmed    \* those of them said to belong to a ticket

Init == /\ announced = {} /\ filed = {}
        /\ noted = {} /\ stored = {} /\ confirmed = {}

Announce(S) ==
    /\ announced' = announced \cup S
    /\ UNCHANGED <<filed, noted, stored, confirmed>>

File(c) ==
    /\ filed' = filed \cup {c}
    /\ UNCHANGED <<announced, noted, stored, confirmed>>

Discard(c) ==
    /\ c \notin noted
    /\ filed' = filed \ {c}
    /\ UNCHANGED <<announced, noted, stored, confirmed>>

Note(c) ==
    /\ c \in noted \cup filed \cup announced
    /\ noted' = noted \cup {c}
    /\ \/ stored' = stored \ {c}
       \/ c \in filed /\ stored' = stored \cup {c}
    /\ \/ confirmed' = confirmed \ {c}
       \/ c \in announced /\ confirmed' = confirmed \cup {c}
    /\ UNCHANGED <<announced, filed>>

Next == \/ \E S \in SUBSET Chunks : Announce(S)
        \/ \E c \in Chunks : File(c) \/ Discard(c) \/ Note(c)

Spec == Init /\ [][Next]_<<announced, filed, noted, stored, confirmed>>

=============================================================================
