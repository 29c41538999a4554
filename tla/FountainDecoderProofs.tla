------------------------ MODULE FountainDecoderProofs ------------------------
(***************************************************************************)
(* Proofs about FountainDecoder for every set of source blocks, every set  *)
(* of chunks and every choice of blocks by the seeds: decode returns the   *)
(* original image or an honest NotEnoughChunks.                            *)
(***************************************************************************)
EXTENDS FountainDecoder, FiniteSetTheorems, TLAPS

(***************************************************************************)
(* The graph has edges for intact chunks only, to source blocks their seed *)
(* selected; while a block is being added nothing waits to be eliminated.  *)
(***************************************************************************)
GraphInv ==
    /\ known \subseteq blocks
    /\ Pending \subseteq blocks
    /\ \A c \in Chunks : edges[c] \subseteq code[c]
    /\ \A c \in Chunks : edges[c] # {} => c \in intact \ left
    /\ adding # NoChunk => /\ pending = {}
                           /\ adding \in intact \ left
                           /\ code[adding] \ known \subseteq edges[adding]
    /\ ~Running => adding = NoChunk /\ pending = {}

(* Data is the XOR of what it stands for: a resolved block is itself. *)
DataInv ==
    /\ \A n \in known : value[n] = {n}
    /\ \A p \in pending : p[2] = {p[1]}
    /\ \A c \in Chunks : edges[c] # {} => residue[c] = edges[c]

(***************************************************************************)
(* A check node that was added keeps exactly the blocks that are not known *)
(* yet, and when one is left, that one waits to be eliminated.             *)
(***************************************************************************)
CheckInv ==
    \A c \in intact \ (left \cup {adding}) :
        /\ edges[c] = {} => code[c] \ known \subseteq Pending
        /\ edges[c] # {} => /\ edges[c] = code[c] \ known
                            /\ \A n \in Sources : edges[c] = {n} => n \in Pending

(* No block of a stopping set is resolved or about to be. *)
StopInv ==
    \A U \in SUBSET blocks :
        Promise!Stopping(U) => U \cap (known \cup Pending) = {}

VerdictInv ==
    /\ verdict = "decoded" => Done
    /\ verdict = "not_enough" => ~Done /\ left = {}

DecoderInv == /\ DecoderTypeOK /\ GraphInv /\ DataInv /\ CheckInv
              /\ StopInv /\ VerdictInv

-----------------------------------------------------------------------------
(* A start call with arguments of the right kind. *)
LEMMA StartArguments ==
    ASSUME StartAny
    PROVE  /\ ~Running /\ verdict' = "running" /\ EmptyGraph
           /\ blocks' \in (SUBSET Sources) \ {{}}
           /\ code' \in [Chunks -> SUBSET blocks']
           /\ left' \in SUBSET Chunks
           /\ intact' \in SUBSET left'
BY DEF StartAny, StartDecoding

(* Eliminating pairs adds the released blocks to the pending ones. *)
LEMMA EliminateEffect ==
    ASSUME DecoderTypeOK, NEW p \in pending, Eliminate(p[1], p[2])
    PROVE  /\ p[1] \in Sources /\ p[2] \in SUBSET Sources /\ p = <<p[1], p[2]>>
           /\ known' = known \cup {p[1]}
           /\ \A n \in Pending' : \/ n \in Pending
                                  \/ \E c \in Chunks : /\ p[1] \in edges[c]
                                                       /\ edges[c] \ {p[1]} = {n}
           /\ \A n \in Pending : n \in Pending' \cup known'
           /\ \A c \in Chunks : \A n \in Sources :
                 p[1] \in edges[c] /\ edges[c] \ {p[1]} = {n} => n \in Pending'
<1>1. p[1] \in Sources /\ p[2] \in SUBSET Sources /\ p = <<p[1], p[2]>>
  BY DEF DecoderTypeOK
<1>2. known' = known \cup {p[1]}
  BY DEF Eliminate
<1>3. ASSUME NEW n \in Pending'
      PROVE  \/ n \in Pending
             \/ \E c \in Chunks : p[1] \in edges[c] /\ edges[c] \ {p[1]} = {n}
  <2>1. PICK q \in pending' : n = q[1]
    BY <1>3 DEF Pending
  <2>2. CASE q \in pending
    BY <2>1, <2>2 DEF Pending
  <2>3. CASE q \notin pending
    <3>1. PICK x \in Released(p[1]) : q = <<x[1], residue'[x[2]]>>
      BY <2>1, <2>3 DEF Eliminate
    <3>2. /\ x[2] \in Chunks /\ p[1] \in edges[x[2]]
          /\ edges[x[2]] \ {p[1]} = {x[1]}
      BY <3>1 DEF Released
    <3>3. n = x[1]
      BY <2>1, <3>1
    <3>4. QED
      BY <3>2, <3>3
  <2>4. QED
    BY <2>2, <2>3
<1>4. ASSUME NEW n \in Pending
      PROVE  n \in Pending' \cup known'
  <2>1. PICK q \in pending : n = q[1]
    BY <1>4 DEF Pending
  <2>2. CASE q = p
    BY <2>1, <2>2, <1>2
  <2>3. CASE q # p
    <3>1. q \in pending'
      BY <2>3, <1>1, <2>1 DEF Eliminate
    <3>2. QED
      BY <3>1, <2>1 DEF Pending
  <2>4. QED
    BY <2>2, <2>3
<1>5. ASSUME NEW c \in Chunks, NEW n \in Sources,
             p[1] \in edges[c], edges[c] \ {p[1]} = {n}
      PROVE  n \in Pending'
  <2>1. <<n, c>> \in Released(p[1])
    BY <1>5 DEF Released
  <2>2. \A x \in Released(p[1]) : <<x[1], residue'[x[2]]>> \in pending'
    BY DEF Eliminate
  <2>3. <<<<n, c>>[1], residue'[<<n, c>>[2]]>> \in pending'
    BY <2>1, <2>2
  <2>4. QED
    BY <2>3 DEF Pending
<1>6. QED
  BY <1>1, <1>2, <1>3, <1>4, <1>5

-----------------------------------------------------------------------------
(* Every step leaves the variables of the decoder in their types. *)
LEMMA TypeStep ==
    ASSUME DecoderTypeOK, [DecoderNext]_decoderVars
    PROVE  DecoderTypeOK'
<1>1. CASE StartAny
  BY <1>1, StartArguments DEF DecoderTypeOK, EmptyGraph
<1>2. ASSUME NEW c \in Chunks, SkipDamaged(c)
      PROVE  DecoderTypeOK'
  BY <1>2 DEF DecoderTypeOK, SkipDamaged, inputVars, graphVars
<1>3. ASSUME NEW c \in Chunks, AddSingle(c)
      PROVE  DecoderTypeOK'
  BY <1>3 DEF DecoderTypeOK, AddSingle, inputVars
<1>4. ASSUME NEW c \in Chunks, AddBlock(c)
      PROVE  DecoderTypeOK'
  BY <1>4 DEF DecoderTypeOK, AddBlock, inputVars
<1>5. ASSUME NEW n \in Sources, PassMessage(n)
      PROVE  DecoderTypeOK'
  BY <1>5 DEF DecoderTypeOK, PassMessage, Xor, inputVars
<1>6. CASE ResolveAdded
  BY <1>6 DEF DecoderTypeOK, ResolveAdded, inputVars
<1>7. CASE AttachAdded
  BY <1>7 DEF DecoderTypeOK, AttachAdded, inputVars
<1>8. ASSUME NEW p \in pending, Eliminate(p[1], p[2])
      PROVE  DecoderTypeOK'
  <2>1. p[1] \in Sources /\ p[2] \in SUBSET Sources
    BY DEF DecoderTypeOK
  <2>2. residue' \in [Chunks -> SUBSET Sources]
    BY <1>8, <2>1 DEF DecoderTypeOK, Eliminate, Xor
  <2>3. {<<x[1], residue'[x[2]]>> : x \in Released(p[1])}
           \in SUBSET (Sources \X SUBSET Sources)
    BY <2>2 DEF Released
  <2>4. QED
    BY <1>8, <2>1, <2>2, <2>3 DEF DecoderTypeOK, Eliminate, inputVars
<1>9. CASE FinishDecoding
  BY <1>9 DEF DecoderTypeOK, FinishDecoding, inputVars, graphVars
<1>10. CASE UNCHANGED decoderVars
  BY <1>10 DEF DecoderTypeOK, decoderVars, inputVars, graphVars
<1>11. QED
  BY <1>1, <1>2, <1>3, <1>4, <1>5, <1>6, <1>7, <1>8, <1>9, <1>10
     DEF DecoderNext, DecoderStep

(***************************************************************************)
(* The shape of the graph is kept.                                         *)
(***************************************************************************)
LEMMA GraphStep ==
    ASSUME DecoderTypeOK, GraphInv, [DecoderNext]_decoderVars
    PROVE  GraphInv'
<1> USE DecoderAssumption
<1>1. CASE StartAny
  BY <1>1, StartArguments DEF GraphInv, EmptyGraph, Pending, Running
<1>2. ASSUME NEW c \in Chunks, SkipDamaged(c)
      PROVE  GraphInv'
  BY <1>2 DEF GraphInv, SkipDamaged, inputVars, graphVars, Pending, Running, Ready
<1>3. ASSUME NEW c \in Chunks, AddSingle(c)
      PROVE  GraphInv'
  <2>1. PICK n \in Sources : code[c] = {n} /\ pending' = {<<n, code[c]>>}
    BY <1>3 DEF AddSingle
  <2>2. Pending' = {n}
    BY <2>1 DEF Pending
  <2>3. n \in blocks
    BY <2>1 DEF DecoderTypeOK
  <2>4. QED
    BY <1>3, <2>2, <2>3 DEF GraphInv, AddSingle, inputVars, Running, Ready
<1>4. ASSUME NEW c \in Chunks, AddBlock(c)
      PROVE  GraphInv'
  BY <1>4 DEF GraphInv, DecoderTypeOK, AddBlock, inputVars, Pending, Running, Ready
<1>5. ASSUME NEW n \in Sources, PassMessage(n)
      PROVE  GraphInv'
  BY <1>5 DEF GraphInv, DecoderTypeOK, PassMessage, inputVars, Pending, Running
<1>6. CASE ResolveAdded
  <2>1. PICK n \in Sources : edges[adding] = {n} /\ pending' = {<<n, residue[adding]>>}
    BY <1>6 DEF ResolveAdded
  <2>2. Pending' = {n} /\ adding \in Chunks
    BY <2>1, <1>6 DEF Pending, ResolveAdded, DecoderTypeOK
  <2>3. n \in blocks
    BY <2>1, <2>2 DEF DecoderTypeOK, GraphInv
  <2>4. \A c \in Chunks : edges'[c] \subseteq edges[c]
    BY <1>6 DEF DecoderTypeOK, ResolveAdded
  <2>5. adding' = NoChunk /\ Running
    BY <1>6 DEF ResolveAdded, GraphInv
  <2>6. /\ \A c \in Chunks : edges'[c] \subseteq code[c]
        /\ \A c \in Chunks : edges'[c] # {} => c \in intact \ left
    BY <2>4 DEF GraphInv
  <2>7. known \subseteq blocks /\ Pending' \subseteq blocks /\ verdict' = verdict
    BY <1>6, <2>2, <2>3 DEF GraphInv, ResolveAdded
  <2>8. /\ blocks' = blocks /\ code' = code /\ intact' = intact
        /\ left' = left /\ known' = known
    BY <1>6 DEF ResolveAdded, inputVars
  <2>9. QED
    BY <2>5, <2>6, <2>7, <2>8 DEF GraphInv, Running
<1>7. CASE AttachAdded
  BY <1>7 DEF GraphInv, AttachAdded, inputVars, Pending, Running
<1>8. ASSUME NEW p \in pending, Eliminate(p[1], p[2])
      PROVE  GraphInv'
  <2>1. p[1] \in blocks
    BY <1>8 DEF GraphInv, Pending
  <2>2. /\ known' = known \cup {p[1]}
        /\ \A n \in Pending' : n \in Pending
              \/ \E c \in Chunks : edges[c] \ {p[1]} = {n}
    BY <1>8, EliminateEffect
  <2>3. known' \subseteq blocks'
    BY <1>8, <2>1, <2>2 DEF GraphInv, Eliminate, inputVars
  <2>4. ASSUME NEW n \in Pending'
        PROVE  n \in blocks
    <3>1. CASE n \in Pending
      BY <3>1 DEF GraphInv
    <3>2. CASE n \notin Pending
      <4>1. PICK c \in Chunks : edges[c] \ {p[1]} = {n}
        BY <2>2, <2>4, <3>2
      <4>2. edges[c] \subseteq code[c] /\ code[c] \subseteq blocks
        BY DEF GraphInv, DecoderTypeOK
      <4>3. QED
        BY <4>1, <4>2
    <3>3. QED
      BY <3>1, <3>2
  <2>5. \A c \in Chunks : edges'[c] \subseteq edges[c]
    BY <1>8 DEF Eliminate
  <2>6. adding = NoChunk /\ Running
    BY <1>8 DEF GraphInv
  <2>7. QED
    BY <1>8, <2>3, <2>4, <2>5, <2>6 DEF GraphInv, Eliminate, inputVars, Running
<1>9. CASE FinishDecoding
  BY <1>9 DEF GraphInv, FinishDecoding, inputVars, graphVars, Pending, Running, Ready
<1>10. CASE UNCHANGED decoderVars
  BY <1>10 DEF GraphInv, decoderVars, inputVars, graphVars, Pending, Running
<1>11. QED
  BY <1>1, <1>2, <1>3, <1>4, <1>5, <1>6, <1>7, <1>8, <1>9, <1>10
     DEF DecoderNext, DecoderStep

(***************************************************************************)
(* XOR keeps to what it stands for: passing a resolved block on takes it   *)
(* out of the data of a check exactly as it leaves the check's blocks.     *)
(***************************************************************************)
LEMMA DataStep ==
    ASSUME DecoderTypeOK, GraphInv, DataInv, [DecoderNext]_decoderVars
    PROVE  DataInv'
<1> USE DecoderAssumption
<1>1. CASE StartAny
  BY <1>1, StartArguments DEF DataInv, EmptyGraph
<1>2. ASSUME NEW c \in Chunks, SkipDamaged(c)
      PROVE  DataInv'
  BY <1>2 DEF DataInv, SkipDamaged, inputVars, graphVars
<1>3. ASSUME NEW c \in Chunks, AddSingle(c)
      PROVE  DataInv'
  BY <1>3 DEF DataInv, AddSingle
<1>4. ASSUME NEW c \in Chunks, AddBlock(c)
      PROVE  DataInv'
  BY <1>4 DEF DataInv, DecoderTypeOK, AddBlock
<1>5. ASSUME NEW n \in Sources, PassMessage(n)
      PROVE  DataInv'
  <2>1. adding \in Chunks /\ residue[adding] = edges[adding] /\ value[n] = {n}
    BY <1>5 DEF DataInv, DecoderTypeOK, PassMessage
  <2>2. residue'[adding] = edges[adding] \ {n} /\ edges'[adding] = edges[adding] \ {n}
    BY <1>5, <2>1 DEF PassMessage, Xor, DecoderTypeOK
  <2>3. QED
    BY <1>5, <2>1, <2>2 DEF DataInv, DecoderTypeOK, PassMessage
<1>6. CASE ResolveAdded
  <2>1. PICK n \in Sources : edges[adding] = {n} /\ pending' = {<<n, residue[adding]>>}
    BY <1>6 DEF ResolveAdded
  <2>2. adding \in Chunks /\ residue[adding] = {n}
    BY <1>6, <2>1 DEF ResolveAdded, DecoderTypeOK, DataInv
  <2>3. QED
    BY <1>6, <2>1, <2>2 DEF DataInv, DecoderTypeOK, ResolveAdded
<1>7. CASE AttachAdded
  BY <1>7 DEF DataInv, AttachAdded
<1>8. ASSUME NEW p \in pending, Eliminate(p[1], p[2])
      PROVE  DataInv'
  <2>1. p[1] \in Sources /\ p[2] = {p[1]}
    BY <1>8, EliminateEffect DEF DataInv
  <2>2. ASSUME NEW n \in known'
        PROVE  value'[n] = {n}
    BY <1>8, <2>1, <2>2 DEF DataInv, DecoderTypeOK, Eliminate
  <2>3. ASSUME NEW c \in Chunks, edges'[c] # {}
        PROVE  residue'[c] = edges'[c]
    <3>1. edges[c] # {} /\ residue[c] = edges[c] /\ edges'[c] = edges[c] \ {p[1]}
      BY <1>8, <2>3 DEF DataInv, Eliminate
    <3>2. QED
      BY <1>8, <2>1, <3>1 DEF Eliminate, Xor
  <2>4. ASSUME NEW q \in pending'
        PROVE  q[2] = {q[1]}
    <3>1. CASE q \in pending
      BY <3>1 DEF DataInv
    <3>2. CASE q \notin pending
      <4>1. PICK x \in Released(p[1]) : q = <<x[1], residue'[x[2]]>>
        BY <1>8, <3>2, <2>4 DEF Eliminate
      <4>2. x[2] \in Chunks /\ edges'[x[2]] = {x[1]}
        BY <1>8, <4>1 DEF Released, Eliminate
      <4>3. QED
        BY <4>1, <4>2, <2>3
    <3>3. QED
      BY <3>1, <3>2
  <2>5. QED
    BY <2>2, <2>3, <2>4 DEF DataInv
<1>9. CASE FinishDecoding
  BY <1>9 DEF DataInv, FinishDecoding, inputVars, graphVars
<1>10. CASE UNCHANGED decoderVars
  BY <1>10 DEF DataInv, decoderVars, inputVars, graphVars
<1>11. QED
  BY <1>1, <1>2, <1>3, <1>4, <1>5, <1>6, <1>7, <1>8, <1>9, <1>10
     DEF DecoderNext, DecoderStep

(***************************************************************************)
(* Peeling loses nothing: each check keeps the unresolved blocks of its    *)
(* chunk, and one with a single block left has handed it on.               *)
(***************************************************************************)
LEMMA CheckStep ==
    ASSUME DecoderTypeOK, GraphInv, CheckInv, [DecoderNext]_decoderVars
    PROVE  CheckInv'
<1> USE DecoderAssumption
<1>1. CASE StartAny
  BY <1>1, StartArguments DEF CheckInv
<1>2. ASSUME NEW c \in Chunks, SkipDamaged(c)
      PROVE  CheckInv'
  BY <1>2 DEF CheckInv, SkipDamaged, inputVars, graphVars, Pending
<1>3. ASSUME NEW c \in Chunks, AddSingle(c)
      PROVE  CheckInv'
  <2>1. PICK n \in Sources : code[c] = {n} /\ pending' = {<<n, code[c]>>}
    BY <1>3 DEF AddSingle
  <2>2. Pending' = {n} /\ Pending = {}
    BY <1>3, <2>1 DEF Pending, AddSingle, Ready
  <2>3. edges[c] = {}
    BY <1>3 DEF AddSingle, GraphInv
  <2>4. QED
    BY <1>3, <2>1, <2>2, <2>3 DEF CheckInv, AddSingle, inputVars
<1>4. ASSUME NEW c \in Chunks, AddBlock(c)
      PROVE  CheckInv'
  BY <1>4 DEF CheckInv, DecoderTypeOK, AddBlock, inputVars, Pending, Ready
<1>5. ASSUME NEW n \in Sources, PassMessage(n)
      PROVE  CheckInv'
  BY <1>5 DEF CheckInv, DecoderTypeOK, PassMessage, inputVars, Pending
<1>6. CASE ResolveAdded
  <2>1. PICK n \in Sources : edges[adding] = {n} /\ pending' = {<<n, residue[adding]>>}
    BY <1>6 DEF ResolveAdded
  <2>2. Pending' = {n} /\ Pending = {} /\ adding \in Chunks
    BY <1>6, <2>1 DEF Pending, ResolveAdded, DecoderTypeOK, GraphInv
  <2>3. /\ edges'[adding] = {}
        /\ code'[adding] \ known' \subseteq Pending'
    BY <1>6, <2>1, <2>2 DEF ResolveAdded, GraphInv, DecoderTypeOK, inputVars
  <2>4. ASSUME NEW c \in intact \ (left \cup {adding})
        PROVE  edges'[c] = edges[c] /\ c \in Chunks
    BY <1>6, <2>4 DEF ResolveAdded, DecoderTypeOK
  <2>5. QED
    BY <1>6, <2>2, <2>3, <2>4 DEF CheckInv, ResolveAdded, inputVars
<1>7. CASE AttachAdded
  <2>1. adding \in Chunks /\ Pending = {} /\ pending' = pending
    BY <1>7 DEF AttachAdded, DecoderTypeOK, GraphInv, Pending
  <2>2. /\ code[adding] \ known \subseteq edges[adding]
        /\ edges[adding] \subseteq code[adding] \ known
    BY <1>7, <2>1 DEF AttachAdded, GraphInv
  <2>3. QED
    BY <1>7, <2>1, <2>2 DEF CheckInv, AttachAdded, inputVars, Pending
<1>8. ASSUME NEW p \in pending, Eliminate(p[1], p[2])
      PROVE  CheckInv'
  <2>1. /\ known' = known \cup {p[1]}
        /\ \A n \in Pending : n \in Pending' \cup known'
        /\ \A c \in Chunks : \A n \in Sources :
              p[1] \in edges[c] /\ edges[c] \ {p[1]} = {n} => n \in Pending'
    BY <1>8, EliminateEffect
  <2>2. SUFFICES ASSUME NEW c \in intact \ (left \cup {adding})
                 PROVE  /\ edges'[c] = {} => code[c] \ known' \subseteq Pending'
                        /\ edges'[c] # {} =>
                              /\ edges'[c] = code[c] \ known'
                              /\ \A n \in Sources : edges'[c] = {n} => n \in Pending'
    BY <1>8 DEF CheckInv, Eliminate, inputVars
  <2>3. c \in Chunks /\ edges'[c] = edges[c] \ {p[1]}
    BY <1>8 DEF DecoderTypeOK, Eliminate
  <2>4. CASE edges[c] = {}
    BY <2>1, <2>3, <2>4 DEF CheckInv
  <2>5. CASE edges[c] # {}
    <3>1. edges[c] = code[c] \ known
      BY <2>5 DEF CheckInv
    <3>2. edges'[c] = code[c] \ known'
      BY <2>1, <2>3, <3>1
    <3>3. ASSUME NEW n \in Sources, edges'[c] = {n}
          PROVE  n \in Pending'
      <4>1. CASE p[1] \in edges[c]
        BY <2>1, <2>3, <3>3, <4>1
      <4>2. CASE p[1] \notin edges[c]
        <5>1. edges[c] = {n}
          BY <2>3, <3>3, <4>2
        <5>2. n \in Pending
          BY <2>5, <5>1 DEF CheckInv
        <5>3. n \notin known'
          BY <3>2, <3>3
        <5>4. QED
          BY <2>1, <5>2, <5>3
      <4>3. QED
        BY <4>1, <4>2
    <3>4. QED
      BY <3>2, <3>3
  <2>6. QED
    BY <2>4, <2>5
<1>9. CASE FinishDecoding
  BY <1>9 DEF CheckInv, FinishDecoding, inputVars, graphVars, Pending
<1>10. CASE UNCHANGED decoderVars
  BY <1>10 DEF CheckInv, decoderVars, inputVars, graphVars, Pending
<1>11. QED
  BY <1>1, <1>2, <1>3, <1>4, <1>5, <1>6, <1>7, <1>8, <1>9, <1>10
     DEF DecoderNext, DecoderStep

(***************************************************************************)
(* A block that is the only one left of an intact chunk is in no stopping  *)
(* set that has no known block.                                            *)
(***************************************************************************)
LEMMA LastBlockFree ==
    ASSUME DecoderTypeOK, NEW U \in SUBSET blocks, Promise!Stopping(U),
           U \cap known = {},
           NEW c \in intact, NEW n, n \in code[c], code[c] \ known \subseteq {n}
    PROVE  n \notin U
BY DEF Promise!Stopping

(* The blocks and the given chunks of a running call do not change. *)
LEMMA StoppingStable ==
    ASSUME inputVars' = inputVars, NEW U
    PROVE  Promise!Stopping(U)' = Promise!Stopping(U)
BY DEF inputVars, Promise!Stopping

(* Peeling never enters a stopping set. *)
LEMMA StopStep ==
    ASSUME DecoderTypeOK, GraphInv, CheckInv, StopInv, [DecoderNext]_decoderVars
    PROVE  StopInv'
<1> USE DecoderAssumption
<1>1. CASE StartAny
  BY <1>1, StartArguments DEF StopInv, EmptyGraph, Pending
<1>a. ASSUME inputVars' = inputVars,
             known' \cup Pending' \subseteq known \cup Pending
      PROVE  StopInv'
  BY <1>a, StoppingStable DEF StopInv, inputVars
<1>b. ASSUME inputVars' = inputVars, NEW c \in intact, NEW n \in code[c],
             code[c] \ known \subseteq {n},
             known' \cup Pending' \subseteq known \cup Pending \cup {n}
      PROVE  StopInv'
  <2>1. SUFFICES ASSUME NEW U \in SUBSET blocks, Promise!Stopping(U)
                 PROVE  U \cap (known' \cup Pending') = {}
    BY <1>b, StoppingStable DEF StopInv, inputVars
  <2>2. U \cap (known \cup Pending) = {}
    BY <2>1 DEF StopInv
  <2>3. n \notin U
    BY <1>b, <2>1, <2>2, LastBlockFree
  <2>4. QED
    BY <1>b, <2>2, <2>3
<1>2. ASSUME NEW c \in Chunks, SkipDamaged(c)
      PROVE  StopInv'
  BY <1>2, <1>a DEF SkipDamaged, graphVars, Pending
<1>3. ASSUME NEW c \in Chunks, AddSingle(c)
      PROVE  StopInv'
  <2>1. PICK n \in Sources : code[c] = {n} /\ pending' = {<<n, code[c]>>}
    BY <1>3 DEF AddSingle
  <2>2. Pending' = {n} /\ known' = known /\ inputVars' = inputVars /\ c \in intact
    BY <1>3, <2>1 DEF Pending, AddSingle, inputVars
  <2>3. QED
    BY <1>b, <2>1, <2>2
<1>4. ASSUME NEW c \in Chunks, AddBlock(c)
      PROVE  StopInv'
  BY <1>4, <1>a DEF AddBlock, Pending
<1>5. ASSUME NEW n \in Sources, PassMessage(n)
      PROVE  StopInv'
  BY <1>5, <1>a DEF PassMessage, Pending
<1>6. CASE ResolveAdded
  <2>1. PICK n \in Sources : edges[adding] = {n} /\ pending' = {<<n, residue[adding]>>}
    BY <1>6 DEF ResolveAdded
  <2>2. /\ Pending' = {n} /\ known' = known /\ inputVars' = inputVars
        /\ adding \in intact /\ adding \in Chunks
    BY <1>6, <2>1 DEF Pending, ResolveAdded, GraphInv, inputVars, DecoderTypeOK
  <2>3. n \in code[adding] /\ code[adding] \ known \subseteq {n}
    BY <1>6, <2>1, <2>2 DEF GraphInv, ResolveAdded
  <2>4. QED
    BY <1>b, <2>2, <2>3
<1>7. CASE AttachAdded
  BY <1>7, <1>a DEF AttachAdded, Pending
<1>8. ASSUME NEW p \in pending, Eliminate(p[1], p[2])
      PROVE  StopInv'
  <2>1. /\ known' = known \cup {p[1]}
        /\ \A n \in Pending' : n \in Pending
              \/ \E c \in Chunks : /\ p[1] \in edges[c]
                                   /\ edges[c] \ {p[1]} = {n}
    BY <1>8, EliminateEffect
  <2>2. SUFFICES ASSUME NEW U \in SUBSET blocks, Promise!Stopping(U)
                 PROVE  U \cap (known' \cup Pending') = {}
    <3>1. inputVars' = inputVars
      BY <1>8 DEF Eliminate
    <3>2. QED
      BY <3>1, <2>2, StoppingStable DEF StopInv, inputVars
  <2>3. U \cap (known \cup Pending) = {}
    BY <2>2 DEF StopInv
  <2>4. p[1] \in Pending
    BY DEF Pending
  <2>5. U \cap known' = {}
    BY <2>1, <2>3, <2>4
  <2>6. ASSUME NEW n \in Pending'
        PROVE  n \notin U
    <3>1. CASE n \in Pending
      BY <3>1, <2>3
    <3>2. CASE n \notin Pending
      <4>1. PICK c \in Chunks : p[1] \in edges[c] /\ edges[c] \ {p[1]} = {n}
        BY <2>1, <2>6, <3>2
      <4>2. c \in intact \ (left \cup {adding}) /\ edges[c] # {}
        BY <4>1, <1>8 DEF GraphInv
      <4>3. edges[c] = code[c] \ known
        BY <4>2 DEF CheckInv
      <4>4. code[c] \ (known \cup {p[1]}) = {n} /\ n \in code[c]
        BY <4>1, <4>3
      <4>5. code[c] \cap U \subseteq {n}
        BY <2>1, <2>5, <4>4
      <4>6. QED
        BY <2>2, <4>2, <4>4, <4>5 DEF Promise!Stopping
    <3>3. QED
      BY <3>1, <3>2
  <2>7. QED
    BY <2>5, <2>6
<1>9. CASE FinishDecoding
  BY <1>9, <1>a DEF FinishDecoding, graphVars, Pending
<1>10. CASE UNCHANGED decoderVars
  BY <1>10, <1>a DEF decoderVars, graphVars, Pending
<1>11. QED
  BY <1>1, <1>2, <1>3, <1>4, <1>5, <1>6, <1>7, <1>8, <1>9, <1>10
     DEF DecoderNext, DecoderStep

(* A verdict stands until the next call. *)
LEMMA VerdictStep ==
    ASSUME DecoderTypeOK, GraphInv, VerdictInv, [DecoderNext]_decoderVars
    PROVE  VerdictInv'
<1>1. CASE StartAny
  BY <1>1, StartArguments DEF VerdictInv
<1>2. ASSUME NEW c \in Chunks, SkipDamaged(c) \/ AddSingle(c) \/ AddBlock(c)
      PROVE  VerdictInv'
  BY <1>2 DEF VerdictInv, SkipDamaged, AddSingle, AddBlock, Ready, Running
<1>3. ASSUME adding # NoChunk \/ pending # {}, verdict' = verdict
      PROVE  VerdictInv'
  BY <1>3 DEF VerdictInv, GraphInv, Running
<1>4. ASSUME NEW n \in Sources, PassMessage(n)
      PROVE  VerdictInv'
  BY <1>3, <1>4 DEF PassMessage
<1>5. CASE ResolveAdded
  BY <1>3, <1>5 DEF ResolveAdded
<1>6. CASE AttachAdded
  BY <1>3, <1>6 DEF AttachAdded
<1>7. ASSUME NEW p \in pending, Eliminate(p[1], p[2])
      PROVE  VerdictInv'
  BY <1>3, <1>7 DEF Eliminate
<1>8. CASE FinishDecoding
  BY <1>8 DEF VerdictInv, FinishDecoding, inputVars, graphVars, Done
<1>9. CASE UNCHANGED decoderVars
  BY <1>9 DEF VerdictInv, decoderVars, inputVars, graphVars, Done
<1>10. QED
  BY <1>1, <1>2, <1>4, <1>5, <1>6, <1>7, <1>8, <1>9 DEF DecoderNext, DecoderStep

LEMMA DecoderInvInit ==
    ASSUME DecoderInit
    PROVE  DecoderInv
<1>1. DecoderTypeOK
  BY DEF DecoderInit, DecoderTypeOK
<1>2. Pending = {}
  BY DEF DecoderInit, Pending
<1>3. GraphInv /\ DataInv /\ CheckInv /\ VerdictInv
  BY <1>2 DEF DecoderInit, GraphInv, DataInv, CheckInv, VerdictInv
<1>4. StopInv
  BY <1>2 DEF DecoderInit, StopInv
<1>5. QED
  BY <1>1, <1>3, <1>4 DEF DecoderInv

(* The decoder's invariant: everything the theorems below follow from. *)
THEOREM DecoderInvariant == DecoderSpec => []DecoderInv
<1>1. DecoderInit => DecoderInv
  BY DecoderInvInit
<1>2. DecoderInv /\ [DecoderNext]_decoderVars => DecoderInv'
  BY TypeStep, GraphStep, DataStep, CheckStep, StopStep, VerdictStep DEF DecoderInv
<1>3. QED
  BY <1>1, <1>2, PTL DEF DecoderSpec

(* The variables of the decoder stay in their types. *)
THEOREM DecoderTypeCorrect == DecoderSpec => []DecoderTypeOK
<1>1. DecoderInv => DecoderTypeOK
  BY DEF DecoderInv
<1>2. QED
  BY <1>1, DecoderInvariant, PTL

-----------------------------------------------------------------------------
(* With every block known no stopping set is left. *)
LEMMA KnownIsDecodable ==
    ASSUME DecoderInv, Done
    PROVE  Promise!Decodable
<1>1. SUFFICES ASSUME NEW U \in SUBSET blocks, Promise!Stopping(U)
               PROVE  U = {}
  BY DEF Promise!Decodable
<1>2. U \cap known = {}
  BY <1>1 DEF DecoderInv, StopInv
<1>3. QED
  BY <1>2 DEF Done

(* With the chunks used up, the unknown blocks are a stopping set. *)
LEMMA UnknownIsStopping ==
    ASSUME DecoderInv, adding = NoChunk, pending = {}, left = {}, ~Done
    PROVE  ~Promise!Decodable
<1> DEFINE U == blocks \ known
<1>1. U \in SUBSET blocks /\ U # {}
  BY DEF Done
<1>2. ASSUME NEW c \in intact, NEW n \in U, code[c] \cap U = {n}
      PROVE  FALSE
  <2>1. Pending = {} /\ c \in Chunks /\ adding # c
    BY DecoderAssumption DEF Pending, DecoderInv, DecoderTypeOK
  <2>2. code[c] \ known = {n}
    BY <1>2, <2>1 DEF DecoderInv, DecoderTypeOK
  <2>3. c \in intact \ (left \cup {adding})
    BY <2>1
  <2>4. edges[c] # {} /\ edges[c] = {n}
    BY <2>1, <2>2, <2>3 DEF DecoderInv, CheckInv
  <2>5. n \in Sources
    BY DEF DecoderInv, DecoderTypeOK
  <2>6. QED
    BY <2>1, <2>3, <2>4, <2>5 DEF DecoderInv, CheckInv
<1>3. Promise!Stopping(U)
  BY <1>2 DEF Promise!Stopping
<1>4. QED
  BY <1>1, <1>3 DEF Promise!Decodable

(***************************************************************************)
(* decode returns an image exactly when the chunks it is given allow it,   *)
(* in whatever order they come (luby.py, decode and _BlockGraph).          *)
(***************************************************************************)
THEOREM DecodingIsExact == DecoderSpec => []DecodesExactly
<1>1. DecoderInv => DecodesExactly
  <2>1. ASSUME DecoderInv, verdict = "decoded"
        PROVE  Promise!Decodable
    BY <2>1, KnownIsDecodable DEF DecoderInv, VerdictInv
  <2>2. ASSUME DecoderInv, verdict = "not_enough"
        PROVE  ~Promise!Decodable
    BY <2>2, UnknownIsStopping DEF DecoderInv, VerdictInv, GraphInv, Running
  <2>3. QED
    BY <2>1, <2>2 DEF DecodesExactly
<1>2. QED
  BY <1>1, DecoderInvariant, PTL

-----------------------------------------------------------------------------
(* What a step that is seen by the caller does. *)
LEMMA SeenStep ==
    ASSUME DecoderInv, DecoderInv', [DecoderNext]_decoderVars
    PROVE  [Promise!Next]_<<Promise!inputs, Promise!outputs>>
<1> DEFINE Image == IF verdict = "decoded" THEN [n \in blocks |-> value[n]] ELSE <<>>
<1>1. CASE StartAny
  <2>1. Image' = <<>>
    BY <1>1, StartArguments
  <2>2. Promise!Give
    BY <1>1, <2>1, StartArguments DEF Promise!Give, Running, DecoderInv, DecoderTypeOK
  <2>3. QED
    BY <2>2 DEF Promise!Next
<1>2. CASE FinishDecoding
  <2>1. UNCHANGED inputVars /\ Running /\ value' = value
    BY <1>2 DEF FinishDecoding, Ready, graphVars
  <2>2. CASE Done
    <3>1. verdict' = "decoded" /\ Promise!Decodable
      BY <1>2, <2>2, KnownIsDecodable DEF FinishDecoding
    <3>2. \A n \in blocks : value[n] = {n}
      BY <2>2 DEF DecoderInv, DataInv, Done
    <3>3. Image' = Promise!Original
      BY <2>1, <3>1, <3>2 DEF inputVars, Promise!Original
    <3>4. Promise!Answer
      BY <2>1, <3>1, <3>3 DEF Promise!Answer, Promise!inputs, inputVars, Running
    <3>5. QED
      BY <3>4 DEF Promise!Next
  <2>3. CASE ~Done
    <3>1. verdict' = "not_enough" /\ ~Promise!Decodable
      BY <1>2, <2>3, UnknownIsStopping DEF FinishDecoding, Ready
    <3>2. Promise!Answer
      BY <2>1, <3>1 DEF Promise!Answer, Promise!inputs, inputVars, Running
    <3>3. QED
      BY <3>2 DEF Promise!Next
  <2>4. QED
    BY <2>2, <2>3
<1>3. ASSUME UNCHANGED inputVars, verdict' = verdict, verdict # "decoded"
      PROVE  UNCHANGED <<Promise!inputs, Promise!outputs>>
  BY <1>3 DEF Promise!inputs, Promise!outputs, inputVars
<1>4. ASSUME NEW c \in Chunks, SkipDamaged(c) \/ AddSingle(c) \/ AddBlock(c)
      PROVE  UNCHANGED <<Promise!inputs, Promise!outputs>>
  BY <1>3, <1>4 DEF SkipDamaged, AddSingle, AddBlock, Ready, Running
<1>5. ASSUME adding # NoChunk \/ pending # {}
      PROVE  verdict # "decoded"
  BY <1>5 DEF DecoderInv, GraphInv, Running
<1>6. ASSUME NEW n \in Sources, PassMessage(n)
      PROVE  UNCHANGED <<Promise!inputs, Promise!outputs>>
  BY <1>3, <1>5, <1>6 DEF PassMessage
<1>7. CASE ResolveAdded
  BY <1>3, <1>5, <1>7 DEF ResolveAdded
<1>8. CASE AttachAdded
  BY <1>3, <1>5, <1>8 DEF AttachAdded
<1>9. ASSUME NEW p \in pending, Eliminate(p[1], p[2])
      PROVE  UNCHANGED <<Promise!inputs, Promise!outputs>>
  BY <1>3, <1>5, <1>9 DEF Eliminate
<1>10. CASE UNCHANGED decoderVars
  BY <1>10 DEF decoderVars, inputVars, graphVars, Promise!inputs, Promise!outputs
<1>11. QED
  BY <1>1, <1>2, <1>4, <1>6, <1>7, <1>8, <1>9, <1>10 DEF DecoderNext, DecoderStep

(***************************************************************************)
(* The decoder implements ImageDecoder: what decode returns is the image   *)
(* that was encoded, block by block.                                       *)
(***************************************************************************)
THEOREM DecoderImplements == DecoderSpec => KeepsPromise
<1>1. DecoderInit => Promise!Init
  BY DEF DecoderInit, Promise!Init
<1>2. DecoderInv /\ DecoderInv' /\ [DecoderNext]_decoderVars
         => [Promise!Next]_<<Promise!inputs, Promise!outputs>>
  BY SeenStep
<1>3. QED
  BY <1>1, <1>2, DecoderInvariant, PTL DEF DecoderSpec, KeepsPromise, Promise!SafeSpec

-----------------------------------------------------------------------------
(* The sets that Effort counts are finite. *)
LEMMA EffortIsFinite ==
    ASSUME NEW l \in SUBSET Chunks, NEW e \in [Chunks -> SUBSET Sources],
           NEW p \in SUBSET (Sources \X SUBSET Sources)
    PROVE  /\ IsFiniteSet(l) /\ Cardinality(l) \in Nat
           /\ IsFiniteSet(Links(e)) /\ Cardinality(Links(e)) \in Nat
           /\ IsFiniteSet(p) /\ Cardinality(p) \in Nat
<1>1. IsFiniteSet(l)
  BY DecoderAssumption, FS_Subset
<1>2. IsFiniteSet(Links(e))
  <2>1. IsFiniteSet(Sources \X Chunks)
    BY DecoderAssumption, FS_Product
  <2>2. QED
    BY <2>1, FS_Subset DEF Links
<1>3. IsFiniteSet(p)
  <2>1. IsFiniteSet(SUBSET Sources)
    BY DecoderAssumption, FS_SUBSET
  <2>2. IsFiniteSet(Sources \X SUBSET Sources)
    BY <2>1, DecoderAssumption, FS_Product
  <2>3. QED
    BY <2>2, FS_Subset
<1>4. QED
  BY <1>1, <1>2, <1>3, FS_CardinalityType

(* An edge less is a link less. *)
LEMMA LinkRemoved ==
    ASSUME NEW e \in [Chunks -> SUBSET Sources], NEW c \in Chunks, NEW n \in e[c]
    PROVE  Cardinality(Links([e EXCEPT ![c] = @ \ {n}])) = Cardinality(Links(e)) - 1
<1> DEFINE f == [e EXCEPT ![c] = @ \ {n}]
<1>1. <<n, c>> \in Links(e)
  BY DEF Links
<1>2. Links(f) = Links(e) \ {<<n, c>>}
  <2>1. ASSUME NEW x \in Sources \X Chunks
        PROVE  x[1] \in f[x[2]] <=> x[1] \in e[x[2]] /\ x # <<n, c>>
    OBVIOUS
  <2>2. QED
    BY <2>1 DEF Links
<1>3. IsFiniteSet(Links(e))
  BY EffortIsFinite
<1>4. QED
  BY <1>1, <1>2, <1>3, FS_RemoveElement

(* A chunk that had no edges brings one link for each of its blocks. *)
LEMMA LinksAdded ==
    ASSUME NEW e \in [Chunks -> SUBSET Sources], NEW c \in Chunks, e[c] = {},
           NEW B \in SUBSET Sources
    PROVE  Cardinality(Links([e EXCEPT ![c] = B]))
              <= Cardinality(Links(e)) + Cardinality(Sources)
<1> DEFINE f == [e EXCEPT ![c] = B]
           new == B \X {c}
<1>1. Links(f) = Links(e) \cup new
  <2>1. ASSUME NEW x \in Sources \X Chunks
        PROVE  x[1] \in f[x[2]] <=> x[1] \in e[x[2]] \/ x \in new
    OBVIOUS
  <2>2. QED
    BY <2>1 DEF Links
<1>2. IsFiniteSet(B) /\ Cardinality(B) <= Cardinality(Sources) /\ Cardinality(B) \in Nat
  BY DecoderAssumption, FS_Subset, FS_CardinalityType
<1>3. IsFiniteSet(new) /\ Cardinality(new) = Cardinality(B)
  <2>1. IsFiniteSet({c}) /\ Cardinality({c}) = 1
    BY FS_Singleton
  <2>2. IsFiniteSet(new) /\ Cardinality(new) = Cardinality(B) * Cardinality({c})
    BY <1>2, <2>1, FS_Product
  <2>3. QED
    BY <1>2, <2>1, <2>2
<1>4. IsFiniteSet(Links(e)) /\ Cardinality(Links(e)) \in Nat
  BY EffortIsFinite
<1>5. /\ Cardinality(Links(f)) = Cardinality(Links(e)) + Cardinality(new)
                                   - Cardinality(Links(e) \cap new)
      /\ Cardinality(Links(e) \cap new) \in Nat
  BY <1>1, <1>3, <1>4, FS_Union, FS_Intersection, FS_CardinalityType
<1>6. Cardinality(Sources) \in Nat
  BY DecoderAssumption, FS_CardinalityType
<1>7. QED
  BY <1>2, <1>3, <1>4, <1>5, <1>6

(***************************************************************************)
(* Eliminating a block removes its links, and releases at most one other   *)
(* block for each of them.                                                 *)
(***************************************************************************)
LEMMA EliminateShrinks ==
    ASSUME DecoderTypeOK, NEW p \in pending, Eliminate(p[1], p[2])
    PROVE  2 * Cardinality(Links(edges')) + Cardinality(pending')
              < 2 * Cardinality(Links(edges)) + Cardinality(pending)
<1> DEFINE n    == p[1]
           gone == {x \in Links(edges) : x[1] = n}
           R    == Released(n)
           T    == {<<x[1], residue'[x[2]]>> : x \in R}
           rest == pending \ {p}
<1>1. /\ edges \in [Chunks -> SUBSET Sources]
      /\ pending \in SUBSET (Sources \X SUBSET Sources)
      /\ left \in SUBSET Chunks
      /\ p = <<p[1], p[2]>> /\ n \in Sources
  BY EliminateEffect DEF DecoderTypeOK
<1>2. /\ IsFiniteSet(Links(edges)) /\ Cardinality(Links(edges)) \in Nat
      /\ IsFiniteSet(pending) /\ Cardinality(pending) \in Nat
  BY <1>1, EffortIsFinite
<1>3. edges' = [c \in Chunks |-> edges[c] \ {n}] /\ pending' = rest \cup T
  BY <1>1 DEF Eliminate
<1>4. /\ IsFiniteSet(gone) /\ Cardinality(gone) \in Nat
      /\ Cardinality(Links(edges')) = Cardinality(Links(edges)) - Cardinality(gone)
  <2>1. Links(edges') = Links(edges) \ gone
    <3>1. ASSUME NEW x \in Sources \X Chunks
          PROVE  x[1] \in edges'[x[2]] <=> x[1] \in edges[x[2]] /\ x[1] # n
      BY <1>3
    <3>2. QED
      BY <3>1 DEF Links
  <2>2. Links(edges) \cap gone = gone
    OBVIOUS
  <2>3. IsFiniteSet(gone)
    BY <1>2, FS_Subset
  <2>4. QED
    BY <1>2, <2>1, <2>2, <2>3, FS_Difference, FS_CardinalityType
<1>5. IsFiniteSet(R) /\ Cardinality(R) <= Cardinality(gone)
  <2> DEFINE g == [x \in R |-> <<n, x[2]>>]
  <2>1. ASSUME NEW x \in R
        PROVE  /\ x \in Sources \X Chunks /\ x = <<x[1], x[2]>>
               /\ n \in edges[x[2]] /\ edges[x[2]] \ {n} = {x[1]}
    BY DEF Released
  <2>2. ASSUME NEW x \in R PROVE g[x] \in gone
    BY <1>1, <2>1 DEF Links
  <2>3. ASSUME NEW x \in R, NEW y \in R, g[x] = g[y] PROVE x = y
    <3>1. x[2] = y[2]
      BY <2>3
    <3>2. {x[1]} = {y[1]}
      BY <2>1, <3>1
    <3>3. QED
      BY <2>1, <3>1, <3>2
  <2>4. g \in Injection(R, gone)
    <3>1. g \in [R -> gone]
      BY <2>2
    <3>2. QED
      BY <2>3, <3>1 DEF Injection, IsInjective
  <2>5. QED
    BY <1>4, <2>4, FS_Injection
<1>6. IsFiniteSet(T) /\ Cardinality(T) <= Cardinality(R)
  <2> DEFINE h == [x \in R |-> <<x[1], residue'[x[2]]>>]
  <2>1. h \in Surjection(R, T)
    BY DEF Surjection
  <2> HIDE DEF h, T, R
  <2>2. QED
    BY <1>5, <2>1, FS_Surjection
<1>7. IsFiniteSet(rest) /\ Cardinality(rest) = Cardinality(pending) - 1
  BY <1>2, FS_RemoveElement
<1>8. /\ Cardinality(pending') <= Cardinality(rest) + Cardinality(T)
      /\ Cardinality(pending') \in Int
  <2>1. IsFiniteSet(rest \cap T) /\ IsFiniteSet(rest \cup T)
    BY <1>6, <1>7, FS_Union, FS_Intersection
  <2>2. /\ Cardinality(rest \cap T) \in Nat /\ Cardinality(rest \cup T) \in Nat
        /\ Cardinality(T) \in Nat
    BY <1>6, <2>1, FS_CardinalityType
  <2>3. Cardinality(rest \cup T) = Cardinality(rest) + Cardinality(T)
                                     - Cardinality(rest \cap T)
    BY <1>6, <1>7, FS_Union
  <2>4. Cardinality(rest) \in Nat
    BY <1>7, FS_CardinalityType
  <2> HIDE DEF rest, T
  <2>5. QED
    BY <1>3, <2>2, <2>3, <2>4
<1>9. Cardinality(R) \in Nat /\ Cardinality(T) \in Nat
  BY <1>5, <1>6, FS_CardinalityType
<1> HIDE DEF n, gone, R, T, rest
<1>10. QED
  BY <1>2, <1>4, <1>5, <1>6, <1>7, <1>8, <1>9

(* A step that takes a chunk leaves at least what its edges may add. *)
LEMMA ChunkTaken ==
    ASSUME NEW c \in left, left \in SUBSET Chunks, left' = left \ {c}
    PROVE  (2 * Cardinality(Sources) + 2) * Cardinality(left')
              = (2 * Cardinality(Sources) + 2) * Cardinality(left)
                   - (2 * Cardinality(Sources) + 2)
<1> DEFINE k == 2 * Cardinality(Sources) + 2
<1>1. k \in Nat
  BY DecoderAssumption, FS_CardinalityType
<1>2. IsFiniteSet(left) /\ Cardinality(left) \in Nat
  BY DecoderAssumption, FS_Subset, FS_CardinalityType
<1>3. Cardinality(left') = Cardinality(left) - 1
  BY <1>2, FS_RemoveElement
<1> HIDE DEF k
<1>4. k * (Cardinality(left) - 1) = k * Cardinality(left) - k
  BY <1>1, <1>2
<1>5. QED
  BY <1>3, <1>4 DEF k

(* One step of the decoder, by the loop it belongs to. *)
LEMMA EffortStep ==
    ASSUME DecoderTypeOK, DecoderTypeOK', GraphInv, DecoderStep
    PROVE  Effort' < Effort
<1> USE DecoderAssumption
<1> DEFINE k == 2 * Cardinality(Sources) + 2
           L == Cardinality(Links(edges))
           W == Cardinality(pending)
           K == k * Cardinality(left)
           A == IF adding = NoChunk THEN 0 ELSE 1
           V == IF Running THEN 1 ELSE 0
<1>1. /\ Cardinality(Sources) \in Nat
      /\ L \in Nat /\ W \in Nat /\ K \in Nat
      /\ L' \in Nat /\ W' \in Nat /\ K' \in Nat
  <2>1. Cardinality(Sources) \in Nat
    BY FS_CardinalityType
  <2>2. L \in Nat /\ W \in Nat /\ Cardinality(left) \in Nat
    BY EffortIsFinite DEF DecoderTypeOK
  <2>3. L' \in Nat /\ W' \in Nat /\ Cardinality(left') \in Nat
    BY EffortIsFinite DEF DecoderTypeOK
  <2>4. QED
    BY <2>1, <2>2, <2>3
<1>2. A \in {0, 1} /\ V \in {0, 1} /\ A' \in {0, 1} /\ V' \in {0, 1}
  OBVIOUS
<1>3. Effort = K + 2 * L + W + A + V /\ Effort' = K' + 2 * L' + W' + A' + V'
  BY DEF Effort
<1>4. ASSUME NEW c \in Chunks, SkipDamaged(c)
      PROVE  Effort' < Effort
  <2>1. c \in left /\ left' = left \ {c} /\ UNCHANGED <<verdict, adding, edges, pending>>
    BY <1>4 DEF SkipDamaged, graphVars
  <2>2. K' = K - k
    BY <2>1, ChunkTaken DEF DecoderTypeOK
  <2>3. L' = L /\ W' = W /\ A' = A /\ V' = V
    BY <2>1 DEF Running
  <2> HIDE DEF K, L, W, A, V
  <2>4. QED
    BY <1>1, <1>2, <1>3, <2>2, <2>3
<1>5. ASSUME NEW c \in Chunks, AddSingle(c)
      PROVE  Effort' < Effort
  <2>1. c \in left /\ left' = left \ {c} /\ UNCHANGED <<verdict, adding, edges>>
    BY <1>5 DEF AddSingle
  <2>2. K' = K - k
    BY <2>1, ChunkTaken DEF DecoderTypeOK
  <2>3. L' = L /\ A' = A /\ V' = V
    BY <2>1 DEF Running
  <2>4. W' = 1
    <3>1. PICK n \in Sources : pending' = {<<n, code[c]>>}
      BY <1>5 DEF AddSingle
    <3>2. QED
      BY <3>1, FS_Singleton
  <2> HIDE DEF K, L, W, A, V
  <2>5. QED
    BY <1>1, <1>2, <1>3, <2>2, <2>3, <2>4
<1>6. ASSUME NEW c \in Chunks, AddBlock(c)
      PROVE  Effort' < Effort
  <2>1. /\ c \in left /\ left' = left \ {c} /\ adding = NoChunk
        /\ edges' = [edges EXCEPT ![c] = code[c]] /\ UNCHANGED <<verdict, pending>>
    BY <1>6 DEF AddBlock, Ready
  <2>2. K' = K - k
    BY <2>1, ChunkTaken DEF DecoderTypeOK
  <2>3. edges[c] = {}
    BY <2>1 DEF GraphInv
  <2>4. L' <= L + Cardinality(Sources)
    <3>1. edges \in [Chunks -> SUBSET Sources] /\ code[c] \in SUBSET Sources
      BY DEF DecoderTypeOK
    <3>2. QED
      BY <2>1, <2>3, <3>1, LinksAdded
  <2>5. W' = W /\ V' = V /\ A = 0
    BY <2>1 DEF Running
  <2> HIDE DEF K, L, W, A, V
  <2>6. QED
    BY <1>1, <1>2, <1>3, <2>2, <2>4, <2>5
<1>7. ASSUME NEW n \in Sources, PassMessage(n)
      PROVE  Effort' < Effort
  <2>1. /\ adding \in Chunks /\ n \in edges[adding]
        /\ edges' = [edges EXCEPT ![adding] = @ \ {n}]
        /\ UNCHANGED <<verdict, left, adding, pending>>
    BY <1>7 DEF PassMessage, DecoderTypeOK
  <2>2. L' = L - 1
    BY <2>1, LinkRemoved DEF DecoderTypeOK
  <2>3. K' = K /\ W' = W /\ A' = A /\ V' = V
    BY <2>1 DEF Running
  <2> HIDE DEF K, L, W, A, V
  <2>4. QED
    BY <1>1, <1>2, <1>3, <2>2, <2>3
<1>8. CASE ResolveAdded
  <2>1. PICK n \in Sources : edges[adding] = {n} /\ pending' = {<<n, residue[adding]>>}
    BY <1>8 DEF ResolveAdded
  <2>2. /\ adding \in Chunks /\ n \in edges[adding] /\ adding' = NoChunk
        /\ edges' = [edges EXCEPT ![adding] = @ \ {n}]
        /\ UNCHANGED <<verdict, left>>
    BY <1>8, <2>1 DEF ResolveAdded, DecoderTypeOK
  <2>3. L' = L - 1
    BY <2>2, LinkRemoved DEF DecoderTypeOK
  <2>4. K' = K /\ W' = 1 /\ A' = 0 /\ A = 1 /\ V' = V
    BY <2>1, <2>2, FS_Singleton DEF Running
  <2> HIDE DEF K, L, W, A, V
  <2>5. QED
    BY <1>1, <1>2, <1>3, <2>3, <2>4
<1>9. CASE AttachAdded
  <2>1. /\ adding # NoChunk /\ adding' = NoChunk
        /\ UNCHANGED <<verdict, left, edges, pending>>
    BY <1>9 DEF AttachAdded
  <2>2. K' = K /\ L' = L /\ W' = W /\ A' = 0 /\ A = 1 /\ V' = V
    BY <2>1 DEF Running
  <2> HIDE DEF K, L, W, A, V
  <2>3. QED
    BY <1>1, <1>2, <1>3, <2>2
<1>10. ASSUME NEW p \in pending, Eliminate(p[1], p[2])
       PROVE  Effort' < Effort
  <2>1. UNCHANGED <<verdict, left, adding>>
    BY <1>10 DEF Eliminate
  <2>2. 2 * L' + W' < 2 * L + W
    BY <1>10, EliminateShrinks
  <2>3. K' = K /\ A' = A /\ V' = V
    BY <2>1 DEF Running
  <2> HIDE DEF k, K, L, W, A, V
  <2>4. \A l, w, m, v, t, a, b \in Nat :
           2 * m + v < 2 * l + w => t + 2 * m + v + a + b < t + 2 * l + w + a + b
    OBVIOUS
  <2>5. A \in Nat /\ V \in Nat
    BY <1>2
  <2>6. K + 2 * L' + W' + A + V < K + 2 * L + W + A + V
    BY <1>1, <2>2, <2>4, <2>5, Zenon
  <2>7. QED
    BY <1>3, <2>3, <2>6
<1>11. CASE FinishDecoding
  <2>1. /\ verdict = "running" /\ verdict' \in {"decoded", "not_enough"}
        /\ UNCHANGED <<left, adding, edges, pending>>
    BY <1>11 DEF FinishDecoding, Ready, Running, graphVars
  <2>2. K' = K /\ L' = L /\ W' = W /\ A' = A /\ V' = 0 /\ V = 1
    BY <2>1 DEF Running
  <2> HIDE DEF K, L, W, A, V
  <2>3. QED
    BY <1>1, <1>2, <1>3, <2>2
<1>12. QED
  BY <1>4, <1>5, <1>6, <1>7, <1>8, <1>9, <1>10, <1>11 DEF DecoderStep

(***************************************************************************)
(* A decode call cannot loop, for any chunks and any order: each of its    *)
(* steps lowers a natural number, at first (2 |Sources| + 2) |given| + 1.  *)
(***************************************************************************)
THEOREM DecodingTerminates == DecoderSpec => DecodingShrinks
<1>1. DecoderInv /\ DecoderInv' /\ [DecoderNext]_decoderVars
         => [Running => Effort' < Effort]_decoderVars
  <2> SUFFICES ASSUME DecoderInv, DecoderInv', DecoderNext, Running
               PROVE  Effort' < Effort
    OBVIOUS
  <2>1. DecoderStep
    BY DEF DecoderNext, StartAny, StartDecoding
  <2>2. QED
    BY <2>1, EffortStep DEF DecoderInv
<1>2. QED
  BY <1>1, DecoderInvariant, PTL DEF DecoderSpec, DecodingShrinks

=============================================================================
