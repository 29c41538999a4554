---------------------------- MODULE LubyEncoder ----------------------------
(***************************************************************************)
(* encode, get_seeds and verify_blocks of luby.py: how an image is cut     *)
(* into source blocks, and how the linear congruential generator turns a   *)
(* seed into the degree and the source blocks of a chunk.                  *)
(*                                                                         *)
(* The data of a chunk is the set of source blocks it is the XOR of; a     *)
(* source block is its number, its padding is left out.  The floats of the *)
(* degree distribution are integers in units of 1 / (Modulus - 1).         *)
(***************************************************************************)
EXTENDS Integers, Sequences, FiniteSets

CONSTANTS
    ChunkSize,      \* Settings.CHUNKSIZE: header and body of a chunk
    HeaderLength,   \* 44
    Redundancy,     \* Settings.LUBY_REDUNDANCY_FACTOR
    Multiplier,     \* PRNG_A = 16807
    Modulus,        \* PRNG_M = 2^31 - 1
    Cdf,            \* cumulative degree distribution for each block count
    NoState         \* _PRNG.state before a seed is set: None

ASSUME EncoderAssumption ==
    /\ ChunkSize \in Nat /\ HeaderLength \in Nat /\ HeaderLength < ChunkSize
    /\ Redundancy \in Nat \ {0}
    /\ Multiplier \in Nat \ {0} /\ Modulus \in Nat \ {0, 1}
    /\ NoState \notin Nat

BlockSize == ChunkSize - HeaderLength

CeilDiv(a, b) == (a + b - 1) \div b

SourceCount(length) == CeilDiv(length, BlockSize)
ChunkCount(length)  == CeilDiv(Redundancy * length, BlockSize)

SourcesOf(length) == 0 .. SourceCount(length) - 1

-----------------------------------------------------------------------------
(* _get_next *)
NextState(state) == Multiplier * state % Modulus

(* the states after a seed *)
States(seed) == LET f[i \in 0 .. Modulus] ==
                        IF i = 0 THEN seed ELSE NextState(f[i - 1])
                IN  f

(* The first entry above the sample; the last degree when none is. *)
Degree(state, k) ==
    LET above == {d \in 1 .. k : Cdf[k][d] > state}
    IN  IF above = {} THEN k ELSE CHOOSE d \in above : \A e \in above : d <= e

(***************************************************************************)
(* The generator visits every state but zero before it comes back: 16807   *)
(* is a primitive root of the prime 2^31 - 1.                              *)
(***************************************************************************)
ASSUME GeneratorAssumption ==
    \A seed \in 1 .. Modulus - 1 :
        {States(seed)[i] : i \in 1 .. Modulus - 1} = 1 .. Modulus - 1

(* what `m' draws after the degree's have put into the set of blocks *)
Residues(s, k, m) == {s[1 + i] % k : i \in 1 .. m}

(* how many draws fill the set *)
Full(s, k) == {m \in 1 .. Modulus - 1 : Cardinality(Residues(s, k, m)) = Degree(s[1], k)}

(***************************************************************************)
(* get_src_blocks: `degree' different residues of the next states.  A zero *)
(* seed is not a seed (`if seed:'): the generator goes on from its state.  *)
(***************************************************************************)
Draw(seed, k) ==
    LET s == States(seed)
        full == Full(s, k)
        draws == CHOOSE m \in full : \A l \in full : m <= l
    IN  [seed |-> seed, nodes |-> Residues(s, k, draws), next |-> s[1 + draws]]

SeedOr(seed, state) == IF seed # 0 THEN seed ELSE state

-----------------------------------------------------------------------------
Block(length, draw) == [length |-> length, seed |-> draw.seed, nodes |-> draw.nodes]

(***************************************************************************)
(* encode without seeds: a random first seed, and each block starts from   *)
(* the state the block before it has left.                                 *)
(***************************************************************************)
NewDraws(length, first) ==
    LET draw[i \in 1 .. ChunkCount(length)] ==
            Draw(IF i = 1 THEN first ELSE draw[i - 1].next, SourceCount(length))
    IN  draw

EncodeNew(length, first) ==
    LET draws == NewDraws(length, first)
    IN  [i \in 1 .. ChunkCount(length) |-> Block(length, draws[i])]

(***************************************************************************)
(* encode with the seeds of a ticket raises when there are too few of them *)
(* or when the first one is zero (the state is None); otherwise each block *)
(* starts from its own seed, or goes on when that is zero.                 *)
(***************************************************************************)
EncodesAgain(length, seeds) ==
    /\ Len(seeds) >= ChunkCount(length)
    /\ SeedOr(seeds[1], NoState) # NoState

(* Mutant of EncodeAgain: the seeds are ignored, a new first one is drawn. *)
EncodeAgainNew(length, seeds) == EncodeNew(length, seeds[1] + 1)

SeededDraws(length, seeds) ==
    LET draw[i \in 1 .. ChunkCount(length)] ==
            Draw(IF i = 1 THEN seeds[1] ELSE SeedOr(seeds[i], draw[i - 1].next),
                 SourceCount(length))
    IN  draw

EncodeAgain(length, seeds) ==
    LET draws == SeededDraws(length, seeds)
    IN  [i \in 1 .. ChunkCount(length) |-> Block(length, draws[i])]

Seeds(chunks) == [i \in DOMAIN chunks |-> chunks[i].seed]

(* verify_blocks: as many seeds as blocks; the lengths agree. *)
VerifyBlocks(chunks) ==
    /\ \A i, j \in DOMAIN chunks : chunks[i].seed = chunks[j].seed => i = j
    /\ Cardinality({chunks[i].length : i \in DOMAIN chunks}) = 1

(***************************************************************************)
(* decode asks its generator for the blocks of a chunk by seed: the first  *)
(* chunk with seed zero finds no state and raises TypeError.               *)
(***************************************************************************)
DrawsAgain(chunks) == \A i \in DOMAIN chunks : chunks[i].seed # 0

(* The bytes decode returns: whole blocks, and what the last one holds. *)
DecodedLength(chunks) ==
    LET length == chunks[1].length
        last   == length % BlockSize
    IN  (SourceCount(length) - 1) * BlockSize + IF last = 0 THEN BlockSize ELSE last

=============================================================================
