----------------------------- MODULE MCGallery -----------------------------
(***************************************************************************)
(* The instance of Gallery for TLC: one artwork and one whose ticket the   *)
(* cNode cannot return, two masternodes, and a clock that is ahead by one  *)
(* of a window of two, so that a delay of one makes a message too old.     *)
(* The first masternode of every ranking may be the slow one or unknown.   *)
(***************************************************************************)
EXTENDS Gallery

MCSkew        == [h \in Hosts |-> IF h = "n2" THEN 1 ELSE 0]
MCRecommended == [t \in Tickets |-> <<"n2", "n1">>]

=============================================================================
