--------------------------- MODULE MCRegistration ---------------------------
(* Instances of Registration for TLC. *)
EXTENDS Registration, TLC

CONSTANTS n0, n1, n2, a1, a2, c1, c2

(* The first two masternodes change places with block 1. *)
MCTop == [h \in Heights |->
            IF h = 0 THEN [i \in Places |-> CASE i = 0 -> n0 [] i = 1 -> n1 [] OTHER -> n2]
                     ELSE [i \in Places |-> CASE i = 0 -> n1 [] i = 1 -> n0 [] OTHER -> n2]]
(* Each step 3 adds a row to n2, so two of them are run altogether. *)
MCMaxRows == [n \in Nodes |-> IF n = n2 THEN 2 ELSE 3]

(* Attempts only differ in name, and so do confirmers. *)
MCSymmetry == Permutations(Attempts) \cup Permutations(Confirmers)
=============================================================================
