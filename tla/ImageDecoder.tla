---------------------------- MODULE ImageDecoder ----------------------------
(***************************************************************************)
(* What decode(blocks) of luby.py promises, without saying how: from the   *)
(* intact chunks it is given it returns the image, every source block the  *)
(* one that was encoded, exactly when no set of source blocks blocks the   *)
(* peeling, and raises NotEnoughChunks otherwise.  FountainDecoder does    *)
(* this chunk by chunk.                                                    *)
(***************************************************************************)
EXTENDS Naturals

CONSTANTS
    Sources,  \* numbers of source blocks
    Chunks    \* encoded chunks

VARIABLES
    blocks,   \* source blocks of the image: 0 .. minimum_required - 1
    code,     \* the source blocks whose XOR a chunk carries
    intact,   \* chunks given that parse and match their header's hash
    verdict,  \* "idle", "running", "decoded" or "not_enough"
    image     \* the decoded blocks; a block is the XOR of a set of blocks

outputs == <<verdict, image>>
inputs  == <<blocks, code, intact>>

(***************************************************************************)
(* A set of source blocks that no intact chunk meets in exactly one block: *)
(* none of them can be the next one resolved.                              *)
(***************************************************************************)
Stopping(U) == \A c \in intact : \A n \in U : code[c] \cap U # {n}

Decodable == \A U \in SUBSET blocks : Stopping(U) => U = {}

Original == [n \in blocks |-> {n}]

-----------------------------------------------------------------------------
Init ==
    /\ blocks = {} /\ code = [c \in Chunks |-> {}] /\ intact = {}
    /\ verdict = "idle" /\ image = <<>>

Give ==
    /\ verdict # "running"
    /\ blocks' \in (SUBSET Sources) \ {{}}
    /\ code' \in [Chunks -> SUBSET blocks']
    /\ intact' \in SUBSET Chunks
    /\ verdict' = "running"
    /\ image' = <<>>

Answer ==
    /\ verdict = "running"
    /\ IF Decodable
         THEN verdict' = "decoded" /\ image' = Original
         ELSE verdict' = "not_enough" /\ image' = <<>>
    /\ UNCHANGED inputs

Next == Give \/ Answer

SafeSpec == Init /\ [][Next]_<<inputs, outputs>>
Spec     == SafeSpec /\ WF_<<inputs, outputs>>(Answer)

=============================================================================
