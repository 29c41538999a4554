------------------------------ MODULE MCArtwork ------------------------------
(***************************************************************************)
(* A small instance of Artwork: chunks of one header unit and four bytes   *)
(* of body, twice as many chunks as blocks, images of one to three blocks, *)
(* and a generator of full period modulo 31.                               *)
(***************************************************************************)
EXTENDS Artwork

MCCdf == [k \in 1 .. 3 |-> CASE k = 1 -> <<29>>
                             [] k = 2 -> <<12, 29>>
                             [] k = 3 -> <<9, 22, 29>>]

MCForms == {[text |-> 120, copies |-> 0],   \* the longest text
            [text |-> 121, copies |-> 1],   \* one byte too long
            [text |-> 0, copies |-> 121]}   \* too many copies

=============================================================================
