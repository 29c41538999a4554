--------------------------- MODULE FountainDecoder ---------------------------
(***************************************************************************)
(* decode and _BlockGraph of luby.py: belief propagation on the chunks of  *)
(* an image.  A chunk carries the XOR of a set of source blocks; data is   *)
(* represented by the set of blocks it is the XOR of, so that XOR is the   *)
(* symmetric difference.                                                   *)
(*                                                                         *)
(* One decode call runs at a time.  Chunks come in the order of the        *)
(* database, and sets and the to_eliminate list have an order the code     *)
(* does not choose either: each is taken in any order here.                *)
(***************************************************************************)
EXTENDS Integers, FiniteSets

CONSTANTS
    Sources,   \* numbers of source blocks
    Chunks,    \* encoded chunks
    NoChunk    \* no chunk is being added

ASSUME DecoderAssumption ==
    /\ NoChunk \notin Chunks
    /\ IsFiniteSet(Sources) /\ IsFiniteSet(Chunks)

VARIABLES
    blocks,    \* source blocks of the image: 0 .. minimum_required - 1
    code,      \* the source blocks a chunk's seed selects
    intact,    \* chunks given that parse and match their header's hash
    verdict,   \* "idle", "running", "decoded" or "not_enough"
    left,      \* chunks given that are not looked at yet
    adding,    \* the chunk whose block is passed resolved blocks
    edges,     \* src_nodes of a chunk's check node
    residue,   \* data of a chunk's check node
    known,     \* keys of eliminated
    value,     \* values of eliminated
    pending    \* to_eliminate: pairs of a source block and its data

inputVars == <<blocks, code, intact>>
graphVars == <<adding, edges, residue, known, value, pending>>
decoderVars == <<inputVars, verdict, left, graphVars>>

Xor(a, b) == (a \ b) \cup (b \ a)

Pending == {p[1] : p \in pending}
Running == verdict = "running"
Done    == blocks \subseteq known
Ready   == Running /\ adding = NoChunk /\ pending = {}

EmptyGraph ==
    /\ adding' = NoChunk
    /\ edges' = [c \in Chunks |-> {}]
    /\ residue' = [c \in Chunks |-> {}]
    /\ known' = {}
    /\ value' = [n \in Sources |-> {}]
    /\ pending' = {}

-----------------------------------------------------------------------------
DecoderInit ==
    /\ blocks = {} /\ code = [c \in Chunks |-> {}] /\ intact = {}
    /\ verdict = "idle" /\ left = {}
    /\ adding = NoChunk
    /\ edges = [c \in Chunks |-> {}] /\ residue = [c \in Chunks |-> {}]
    /\ known = {} /\ value = [n \in Sources |-> {}] /\ pending = {}

(***************************************************************************)
(* decode is called for the chunks `given', of which `good' are intact.    *)
(* Every chunk that parses carries the same two lengths, so the number of  *)
(* source blocks is the same whichever of them opens the graph.            *)
(***************************************************************************)
StartDecoding(b, f, given, good) ==
    /\ ~Running
    /\ blocks' = b
    /\ code' = f
    /\ intact' = good
    /\ left' = given
    /\ verdict' = "running"
    /\ EmptyGraph

(* too short for its header or body, or its hash does not match: skipped *)
SkipDamaged(c) ==
    /\ Ready /\ ~Done
    /\ c \in left \ intact
    /\ left' = left \ {c}
    /\ UNCHANGED <<inputVars, verdict, graphVars>>

(* Mutant of AddSingle: a block that stands alone is kept for later. *)
AddSingleAsCheck(c) ==
    /\ Ready /\ ~Done
    /\ c \in left \cap intact
    /\ \E n \in Sources : code[c] = {n}
    /\ left' = left \ {c}
    /\ edges' = [edges EXCEPT ![c] = code[c]]
    /\ residue' = [residue EXCEPT ![c] = code[c]]
    /\ UNCHANGED <<inputVars, verdict, adding, known, value, pending>>

(* add_block with one source block: it is resolved, known or not *)
AddSingle(c) ==
    /\ Ready /\ ~Done
    /\ c \in left \cap intact
    /\ \E n \in Sources : code[c] = {n} /\ pending' = {<<n, code[c]>>}
    /\ left' = left \ {c}
    /\ UNCHANGED <<inputVars, verdict, adding, edges, residue, known, value>>

AddBlock(c) ==
    /\ Ready /\ ~Done
    /\ c \in left \cap intact
    /\ \A n \in Sources : code[c] # {n}
    /\ left' = left \ {c}
    /\ adding' = c
    /\ edges' = [edges EXCEPT ![c] = code[c]]
    /\ residue' = [residue EXCEPT ![c] = code[c]]
    /\ UNCHANGED <<inputVars, verdict, known, value, pending>>

(* Mutant of PassMessage: the block is removed, its data stays in the XOR. *)
PassNoData(n) ==
    /\ adding # NoChunk
    /\ n \in edges[adding] \cap known
    /\ edges' = [edges EXCEPT ![adding] = @ \ {n}]
    /\ UNCHANGED <<inputVars, verdict, left, adding, residue, known, value,
                   pending>>

(* a message from a source block that is already resolved *)
PassMessage(n) ==
    /\ adding # NoChunk
    /\ n \in edges[adding] \cap known
    /\ edges' = [edges EXCEPT ![adding] = @ \ {n}]
    /\ residue' = [residue EXCEPT ![adding] = Xor(@, value[n])]
    /\ UNCHANGED <<inputVars, verdict, left, adding, known, value, pending>>

(* one block is left: add_block calls itself and resolves it *)
ResolveAdded ==
    /\ adding # NoChunk
    /\ edges[adding] \cap known = {}
    /\ \E n \in Sources : /\ edges[adding] = {n}
                          /\ pending' = {<<n, residue[adding]>>}
    /\ adding' = NoChunk
    /\ edges' = [edges EXCEPT ![adding] = {}]
    /\ UNCHANGED <<inputVars, verdict, left, residue, known, value>>

(* the check node is attached to the blocks that are left, if any *)
AttachAdded ==
    /\ adding # NoChunk
    /\ edges[adding] \cap known = {}
    /\ \A n \in Sources : edges[adding] # {n}
    /\ adding' = NoChunk
    /\ UNCHANGED <<inputVars, verdict, left, edges, residue, known, value,
                   pending>>

(* blocks that are alone in a check when n leaves it, with that check *)
Released(n) == {x \in Sources \X Chunks :
                    n \in edges[x[2]] /\ edges[x[2]] \ {n} = {x[1]}}

(* Mutant of Eliminate: the pair stays in the list. *)
EliminateKeeping(n, data) ==
    /\ <<n, data>> \in pending
    /\ known' = known \cup {n}
    /\ value' = [value EXCEPT ![n] = data]
    /\ edges' = [c \in Chunks |-> edges[c] \ {n}]
    /\ residue' = [c \in Chunks |-> IF n \in edges[c] THEN Xor(residue[c], data)
                                                      ELSE residue[c]]
    /\ pending' = pending \cup {<<x[1], residue'[x[2]]>> : x \in Released(n)}
    /\ UNCHANGED <<inputVars, verdict, left, adding>>

(***************************************************************************)
(* eliminate(node, data): the checks of the node forget it, and those with *)
(* one block left are the next to be resolved.  A block that waits twice   *)
(* is resolved twice.                                                      *)
(***************************************************************************)
Eliminate(n, data) ==
    /\ <<n, data>> \in pending
    /\ known' = known \cup {n}
    /\ value' = [value EXCEPT ![n] = data]
    /\ edges' = [c \in Chunks |-> edges[c] \ {n}]
    /\ residue' = [c \in Chunks |-> IF n \in edges[c] THEN Xor(residue[c], data)
                                                      ELSE residue[c]]
    /\ pending' = (pending \ {<<n, data>>}) \cup
                     {<<x[1], residue'[x[2]]>> : x \in Released(n)}
    /\ UNCHANGED <<inputVars, verdict, left, adding>>

(* the loop ends when the last block is known, or there is no more chunk *)
FinishDecoding ==
    /\ Ready
    /\ \/ Done /\ verdict' = "decoded"
       \/ ~Done /\ left = {} /\ verdict' = "not_enough"
    /\ UNCHANGED <<inputVars, left, graphVars>>

DecoderStep ==
    \/ \E c \in Chunks : SkipDamaged(c) \/ AddSingle(c) \/ AddBlock(c)
    \/ \E n \in Sources : PassMessage(n)
    \/ ResolveAdded
    \/ AttachAdded
    \/ \E p \in pending : Eliminate(p[1], p[2])
    \/ FinishDecoding

StartAny ==
    \E b \in (SUBSET Sources) \ {{}} : \E f \in [Chunks -> SUBSET b] :
    \E given \in SUBSET Chunks : \E good \in SUBSET given :
        StartDecoding(b, f, given, good)

DecoderNext == StartAny \/ DecoderStep

DecoderSpec == DecoderInit /\ [][DecoderNext]_decoderVars

-----------------------------------------------------------------------------
DecoderTypeOK ==
    /\ blocks \in SUBSET Sources
    /\ code \in [Chunks -> SUBSET blocks]
    /\ intact \in SUBSET Chunks
    /\ verdict \in {"idle", "running", "decoded", "not_enough"}
    /\ left \in SUBSET Chunks
    /\ adding \in Chunks \cup {NoChunk}
    /\ edges \in [Chunks -> SUBSET Sources]
    /\ residue \in [Chunks -> SUBSET Sources]
    /\ known \in SUBSET Sources
    /\ value \in [Sources -> SUBSET Sources]
    /\ pending \in SUBSET (Sources \X SUBSET Sources)

(***************************************************************************)
(* What decode promises: see ImageDecoder.  The image is what eliminated   *)
(* holds when decode returns.                                              *)
(***************************************************************************)
Promise == INSTANCE ImageDecoder WITH
               image <- IF verdict = "decoded" THEN [n \in blocks |-> value[n]]
                                               ELSE <<>>

(***************************************************************************)
(* Decoding succeeds exactly when it can: whatever the order of the chunks *)
(* and of the messages, decode returns an image if no set of source blocks *)
(* stops the peeling, and raises NotEnoughChunks only if one does.         *)
(***************************************************************************)
DecodesExactly ==
    /\ verdict = "decoded" => Promise!Decodable
    /\ verdict = "not_enough" => ~Promise!Decodable

(***************************************************************************)
(* The decoder implements ImageDecoder: seen from its caller, a decode     *)
(* call is one step from the chunks to the original blocks, each the one   *)
(* that was encoded, or to an honest NotEnoughChunks.                      *)
(***************************************************************************)
KeepsPromise == Promise!SafeSpec

(***************************************************************************)
(* What a decode call has still to do at most: a chunk may add an edge for *)
(* each source block, and an edge a block to eliminate.                    *)
(***************************************************************************)
Links(e) == {x \in Sources \X Chunks : x[1] \in e[x[2]]}

Effort ==
    (2 * Cardinality(Sources) + 2) * Cardinality(left)
        + 2 * Cardinality(Links(edges)) + Cardinality(pending)
        + (IF adding = NoChunk THEN 0 ELSE 1) + (IF Running THEN 1 ELSE 0)

(***************************************************************************)
(* Every step of a decode call leaves less to do, though `to_eliminate' is *)
(* extended while it is emptied and a block may be on it twice.  So decode *)
(* does not loop, and its steps are bounded by the chunks times the blocks.*)
(***************************************************************************)
DecodingShrinks == [][Running => Effort' < Effort]_decoderVars

(***************************************************************************)
(* A decode call ends: the list of blocks to eliminate runs dry, although  *)
(* eliminating a block puts others on it.                                  *)
(***************************************************************************)
DecodingEnds == Running ~> ~Running

=============================================================================
