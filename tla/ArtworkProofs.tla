---------------------------- MODULE ArtworkProofs ----------------------------
(***************************************************************************)
(* Proofs about Artwork for every length of an image, every number of      *)
(* chunks and blocks, every generator of full period, every ticket form,   *)
(* and every order of the decoder: the chunks MN0 places are the ones the  *)
(* ticket names, and what a node serves is the artist's image.             *)
(*                                                                         *)
(* The argument has two halves.  DraftInv is about chunks and tickets and  *)
(* rests on what the generator computes (LubyEncoderProofs).  It shows     *)
(* that the decoder is only ever started with chunks of one image, so that *)
(* Artwork runs FountainDecoder and what is proved of that holds here too  *)
(* (FountainDecoderProofs).  CheckedInv adds what the wallet's own         *)
(* decoding says about later ones.                                         *)
(***************************************************************************)
EXTENDS Artwork, LubyEncoderProofs, FountainDecoderProofs

-----------------------------------------------------------------------------
(* An image and the chunks drawn for it that its wallet may go on with. *)
Draft(size, chunks) ==
    /\ size \in Lengths
    /\ \E first \in FirstSeeds : chunks = EncodeNew(size, first)
    /\ ImageAccepted(size, chunks, "picture")
    /\ DrawsAgain(chunks)

(***************************************************************************)
(* Past the first step the wallet has such a draft, the ticket is made of  *)
(* it, what MN0 places is the draft again, and only then there are rows    *)
(* and answers.                                                            *)
(***************************************************************************)
DraftInv ==
    /\ phase \in Phases /\ answer \in Answers
    /\ length \in Lengths \cup {0}
    /\ Len(drafted) \in 0 .. Cardinality(Chunks)
    /\ phase \notin {"new", "refused"} => Draft(length, drafted)
    /\ phase \in {"signed", "accepted", "rejected", "placed", "lost"} =>
          \E form \in Forms : ticket = TicketDictionary(form, drafted)
    /\ ticket # NoTicket => Builds("RegistrationTicket", ticket)
    /\ placed = <<>> \/ placed = drafted
    /\ phase = "placed" => placed = drafted
    /\ phase = "new" => placed = <<>>
    /\ rows \in 0 .. Len(drafted)
    /\ phase # "placed" => rows = 0 /\ answer = "none"

(* The source blocks each chunk number stands for, as Decode passes them. *)
CodeOf(chunks) ==
    [c \in Chunks |-> IF c \in DOMAIN chunks THEN chunks[c].nodes ELSE {}]

(* No set of blocks stops the peeling of all chunks the wallet generated. *)
Recoverable ==
    \A U \in SUBSET SourcesOf(length) :
        (\A c \in DOMAIN drafted : \A n \in U : CodeOf(drafted)[c] \cap U # {n})
            => U = {}

(***************************************************************************)
(* The decoder works on the draft while the wallet checks it and while a   *)
(* node answers; a ticket is only made of chunks that decode; an answer    *)
(* repeats the decoder's verdict, and is the image.                        *)
(***************************************************************************)
CheckedInv ==
    /\ (phase = "checking" \/ answer \in {"decoding", "not_enough"}) =>
          blocks = SourcesOf(length) /\ code = CodeOf(drafted) /\ verdict # "idle"
    /\ phase = "checking" => intact = DOMAIN drafted
    /\ phase \notin {"new", "refused", "checking"} => Recoverable
    /\ answer = "not_enough" => verdict = "not_enough"
    /\ answer = "SUCCESS" => served = Original(length)

-----------------------------------------------------------------------------
(* What is accepted as an image is a picture with at least one chunk. *)
LEMMA AcceptedImage ==
    ASSUME NEW size, NEW chunks, NEW holds, ImageAccepted(size, chunks, holds)
    PROVE  holds = "picture" /\ DOMAIN chunks # {}
<1>1. holds = "picture"
  <2> DEFINE dict == ImageDictionary(size, chunks, holds)
  <2>1. "image" \in DOMAIN dict /\ dict["image"].holds = holds
    BY DEF ImageDictionary, Bytes, Value
  <2> HIDE DEF dict
  <2>2. Validates("ImageData", "image", dict["image"])
    BY <2>1 DEF ImageAccepted, Builds, dict
  <2>3. QED
    BY <2>1, <2>2 DEF Validates
<1>2. DOMAIN chunks # {}
  <2> SUFFICES ASSUME DOMAIN chunks = {} PROVE FALSE
    OBVIOUS
  <2>1. {chunks[i].length : i \in DOMAIN chunks} = {}
    OBVIOUS
  <2>2. Cardinality({chunks[i].length : i \in DOMAIN chunks}) = 1
    BY DEF ImageAccepted, VerifyBlocks
  <2>3. QED
    BY <2>1, <2>2, FS_EmptySet
<1>3. QED
  BY <1>1, <1>2

(***************************************************************************)
(* The chunks of a draft: numbered from 1, of one length, carrying blocks  *)
(* of the image only.                                                      *)
(***************************************************************************)
LEMMA DraftFacts ==
    ASSUME NEW size, NEW chunks, Draft(size, chunks)
    PROVE  /\ size \in Nat \ {0}
           /\ ChunkCount(size) \in Nat \ {0}
           /\ DOMAIN chunks = 1 .. ChunkCount(size)
           /\ Len(chunks) = ChunkCount(size)
           /\ chunks = [i \in 1 .. ChunkCount(size) |-> chunks[i]]
           /\ DOMAIN chunks \subseteq Chunks
           /\ chunks[1].length = size
           /\ SourcesOf(size) \in (SUBSET Sources) \ {{}}
           /\ CodeOf(chunks) \in [Chunks -> SUBSET SourcesOf(size)]
           /\ EncodesAgain(size, Seeds(chunks))
           /\ EncodeAgain(size, Seeds(chunks)) = chunks
<1>1. PICK first \in FirstSeeds : chunks = EncodeNew(size, first)
  BY DEF Draft
<1>2. size \in Nat \ {0} /\ first \in 0 .. Modulus - 1 /\ first \in Nat
  BY ArtworkAssumption DEF Draft
<1>3. DrawsAgain(chunks) /\ DOMAIN chunks # {}
  BY AcceptedImage DEF Draft
<1>4. /\ DOMAIN chunks = 1 .. ChunkCount(size)
      /\ Len(chunks) = ChunkCount(size)
      /\ chunks = [i \in 1 .. ChunkCount(size) |-> chunks[i]]
      /\ \A i \in 1 .. ChunkCount(size) : chunks[i].length = size
  BY <1>1, <1>2, NewChunks
<1>5. ChunkCount(size) \in Nat \ {0}
  BY <1>2, <1>3, <1>4, ChunkCountType
<1>6. DOMAIN chunks \subseteq Chunks
  <2>1. Cardinality(Chunks) \in Nat
    BY ArtworkAssumption, DecoderAssumption, FS_CardinalityType
  <2>2. ChunkCount(size) <= Cardinality(Chunks) /\ Chunks = 1 .. Cardinality(Chunks)
    BY ArtworkAssumption DEF Draft
  <2>3. QED
    BY <1>4, <1>5, <2>1, <2>2
<1>7. SourcesOf(size) \in (SUBSET Sources) \ {{}}
  <2>1. SourcesOf(size) \subseteq Sources
    BY ArtworkAssumption DEF Draft
  <2>2. 0 \in SourcesOf(size)
    BY <1>2, BlocksOfImage DEF SourcesOf
  <2>3. QED
    BY <2>1, <2>2
<1>8. CodeOf(chunks) \in [Chunks -> SUBSET SourcesOf(size)]
  <2>1. SourceCount(size) < Modulus
    BY ArtworkAssumption DEF Draft
  <2>2. \A i \in 1 .. ChunkCount(size) : chunks[i].nodes \in SUBSET SourcesOf(size)
    BY <1>1, <1>2, <1>3, <2>1, ChunksCarryTheImage
  <2>3. QED
    BY <1>4, <2>2 DEF CodeOf
<1>9. /\ EncodesAgain(size, Seeds(chunks))
      /\ EncodeAgain(size, Seeds(chunks)) = chunks
  BY <1>1, <1>2, <1>3, <1>5, SeedsAreEnough, SeedsGiveTheChunks
<1>10. QED
  BY <1>2, <1>4, <1>5, <1>6, <1>7, <1>8, <1>9

(* A ticket gives back the seeds and the chunks it was made of. *)
LEMMA TicketFacts ==
    ASSUME NEW size, NEW chunks, Draft(size, chunks), NEW form, NEW t,
           t = TicketDictionary(form, chunks)
    PROVE  /\ TicketSeeds(t) = Seeds(chunks)
           /\ TicketChunks(t) = chunks
           /\ TicketChunks(Unpackage(Package(t))) = chunks
<1> DEFINE n == ChunkCount(size)
<1>1. DOMAIN chunks = 1 .. n /\ chunks = [i \in 1 .. n |-> chunks[i]]
  BY DraftFacts
<1>2. t.lubyseeds.items = [i \in DOMAIN chunks |-> Number(Seeds(chunks)[i])]
  BY DEF TicketDictionary, ListOf, Value
<1>3. t.lubyhashes.items = [i \in DOMAIN chunks |-> Digest(chunks[i])]
  BY DEF TicketDictionary, ListOf, Value
<1>4. TicketSeeds(t) = [i \in DOMAIN chunks |-> Seeds(chunks)[i]]
  BY <1>2 DEF TicketSeeds, Number, Value
<1>5. TicketChunks(t) = [i \in DOMAIN chunks |-> chunks[i]]
  BY <1>3 DEF TicketChunks, Digest, Bytes, Value
<1>6. Unpackage(Package(t)) = t
  BY DEF Unpackage, Package
<1>7. QED
  BY <1>1, <1>4, <1>5, <1>6 DEF Seeds

(***************************************************************************)
(* Decoding chunks of a draft is a call the decoder's specification knows: *)
(* the blocks are those of the image, and each chunk carries some of them. *)
(***************************************************************************)
LEMMA DecodeStarts ==
    ASSUME NEW size, NEW chunks, Draft(size, chunks),
           NEW given \in SUBSET DOMAIN chunks, NEW good \in SUBSET given,
           Decode(chunks, given, good)
    PROVE  /\ DecoderNext
           /\ blocks' = SourcesOf(size) /\ code' = CodeOf(chunks) /\ intact' = good
<1>1. /\ chunks[1].length = size
      /\ DOMAIN chunks \subseteq Chunks
      /\ SourcesOf(size) \in (SUBSET Sources) \ {{}}
      /\ CodeOf(chunks) \in [Chunks -> SUBSET SourcesOf(size)]
  BY DraftFacts
<1>2. StartDecoding(SourcesOf(size), CodeOf(chunks), given, good)
  BY <1>1 DEF Decode, CodeOf
<1>3. given \in SUBSET Chunks
  BY <1>1
<1>4. StartAny
  <2> DEFINE b == SourcesOf(size)
             f == CodeOf(chunks)
  <2>1. b \in (SUBSET Sources) \ {{}} /\ f \in [Chunks -> SUBSET b]
    BY <1>1
  <2> HIDE DEF b, f
  <2>2. StartDecoding(b, f, given, good)
    BY <1>2 DEF b, f
  <2>3. QED
    BY <1>3, <2>1, <2>2 DEF StartAny
<1>5. blocks' = SourcesOf(size) /\ code' = CodeOf(chunks) /\ intact' = good
  BY <1>2 DEF StartDecoding
<1>6. QED
  BY <1>4, <1>5 DEF DecoderNext

(* The first step: what is drawn becomes a draft, or the image is refused. *)
LEMMA DraftImageStep ==
    ASSUME NEW size \in Lengths, NEW first \in FirstSeeds, NEW holds,
           DraftImage(size, first, holds)
    PROVE  /\ length' = size /\ Len(drafted') \in 0 .. Cardinality(Chunks)
           /\ \/ /\ phase' = "checking"
                 /\ Draft(size, drafted')
                 /\ Decode(drafted', DOMAIN drafted', DOMAIN drafted')
              \/ phase' = "refused" /\ UNCHANGED decoderVars
           /\ UNCHANGED <<ticket, placed, rows, answer, served>>
<1>1. size \in Nat
  BY ArtworkAssumption
<1>2. drafted' = EncodeNew(size, first)
  BY DEF DraftImage
<1>3. Len(drafted') = ChunkCount(size) /\ ChunkCount(size) \in Nat
  BY <1>1, <1>2, NewChunks, ChunkCountType
<1>4. ChunkCount(size) <= Cardinality(Chunks) /\ Cardinality(Chunks) \in Nat
  BY ArtworkAssumption, DecoderAssumption, FS_CardinalityType
<1>5. ASSUME ImageAccepted(size, drafted', holds), DrawsAgain(drafted')
      PROVE  Draft(size, drafted')
  <2>1. holds = "picture"
    BY <1>5, AcceptedImage
  <2>2. QED
    BY <1>2, <1>5, <2>1 DEF Draft
<1>6. \/ /\ phase' = "checking"
         /\ ImageAccepted(size, drafted', holds) /\ DrawsAgain(drafted')
         /\ Decode(drafted', DOMAIN drafted', DOMAIN drafted')
      \/ phase' = "refused" /\ UNCHANGED decoderVars
  BY DEF DraftImage
<1>7. QED
  BY <1>3, <1>4, <1>5, <1>6 DEF DraftImage

(* Chunks generated again from an accepted ticket are the wallet's. *)
LEMMA PlaceImageStep ==
    ASSUME DraftInv, NEW same, PlaceImage(same)
    PROVE  /\ phase = "accepted"
           /\ \/ phase' = "placed" /\ placed' = drafted
              \/ phase' = "lost" /\ placed' = <<>>
           /\ UNCHANGED <<length, drafted, ticket, rows, answer, served, decoderVars>>
<1>1. phase = "accepted" /\ Draft(length, drafted)
  BY DEF PlaceImage, DraftInv
<1>2. PICK form \in Forms : ticket = TicketDictionary(form, drafted)
  BY <1>1 DEF DraftInv
<1>3. EncodeAgain(length, TicketSeeds(ticket)) = drafted
  BY <1>1, <1>2, TicketFacts, DraftFacts
<1>4. QED
  BY <1>1, <1>3 DEF PlaceImage

-----------------------------------------------------------------------------
LEMMA DraftInvInit == ArtInit => DraftInv
<1> SUFFICES ASSUME ArtInit PROVE DraftInv
  OBVIOUS
<1>1. Len(<<>>) = 0 /\ Cardinality(Chunks) \in Nat
  BY ArtworkAssumption, DecoderAssumption, FS_CardinalityType
<1>2. QED
  BY <1>1 DEF ArtInit, DraftInv, Phases, Answers

(* Every step of the artwork keeps draft, ticket, files and rows together. *)
LEMMA DraftInvStep ==
    DraftInv /\ [ArtNext]_vars => DraftInv'
<1> SUFFICES ASSUME DraftInv, [ArtNext]_vars PROVE DraftInv'
  OBVIOUS
<1>1. ASSUME NEW size \in Lengths, NEW first \in FirstSeeds,
             NEW holds \in {"picture", "text"}, DraftImage(size, first, holds)
      PROVE  DraftInv'
  <2>1. phase = "new"
    BY <1>1 DEF DraftImage
  <2>2. /\ length' = size /\ Len(drafted') \in 0 .. Cardinality(Chunks)
        /\ \/ phase' = "checking" /\ Draft(size, drafted')
           \/ phase' = "refused"
        /\ UNCHANGED <<ticket, placed, rows, answer, served>>
    BY <1>1, DraftImageStep
  <2>3. placed = <<>> /\ rows = 0 /\ answer = "none"
    BY <2>1 DEF DraftInv
  <2>4. Cardinality(Chunks) \in Nat
    BY ArtworkAssumption, DecoderAssumption, FS_CardinalityType
  <2>5. QED
    BY <2>2, <2>3, <2>4 DEF DraftInv, Phases
<1>2. CASE CheckImage
  BY <1>2 DEF CheckImage, DraftInv, Phases
<1>3. ASSUME NEW form \in Forms, MakeTicket(form) PROVE DraftInv'
  BY <1>3 DEF MakeTicket, DraftInv, Phases
<1>4. ASSUME NEW age \in Ages, AcceptTicket(age) PROVE DraftInv'
  BY <1>4 DEF AcceptTicket, DraftInv, Phases
<1>5. ASSUME NEW same \in BOOLEAN, PlaceImage(same) PROVE DraftInv'
  BY <1>5, PlaceImageStep DEF DraftInv, Phases
<1>6. CASE ActivateRow
  <2>1. phase = "placed" /\ Draft(length, drafted)
    BY <1>6 DEF ActivateRow, DraftInv
  <2>2. PICK form \in Forms : ticket = TicketDictionary(form, drafted)
    BY <2>1 DEF DraftInv
  <2>3. TicketChunks(Unpackage(Package(ticket))) = drafted
    BY <2>1, <2>2, TicketFacts
  <2>4. Len(drafted) \in Nat
    BY <2>1, DraftFacts
  <2>5. rows' \in 0 .. Len(drafted)
    BY <1>6, <2>3, <2>4 DEF ActivateRow, DraftInv
  <2>6. QED
    BY <1>6, <2>1, <2>5 DEF ActivateRow, DraftInv
<1>7. ASSUME NEW missing, NEW damaged, Download(missing, damaged) PROVE DraftInv'
  BY <1>7 DEF Download, DraftInv, Answers
<1>8. CASE AnswerDownload
  BY <1>8 DEF AnswerDownload, DraftInv, Answers
<1>9. CASE RunDecoder \/ UNCHANGED vars
  BY <1>9 DEF RunDecoder, vars, artVars, DraftInv
<1>10. QED
  BY <1>1, <1>2, <1>3, <1>4, <1>5, <1>6, <1>7, <1>8, <1>9 DEF ArtNext

LEMMA DraftInvariant == ArtSpec => []DraftInv
<1>1. QED
  BY DraftInvInit, DraftInvStep, PTL DEF ArtSpec

-----------------------------------------------------------------------------
(* A node decodes chunks of the draft, those it has rows of. *)
LEMMA DownloadStep ==
    ASSUME DraftInv, NEW missing, NEW damaged, Download(missing, damaged)
    PROVE  /\ phase = "placed" /\ answer # "decoding" /\ Draft(length, drafted)
           /\ served' = Nothing /\ UNCHANGED <<phase, length, drafted>>
           /\ \/ /\ answer' = "decoding"
                 /\ (1 .. rows) \in SUBSET DOMAIN drafted
                 /\ Decode(drafted, 1 .. rows, (1 .. rows) \ damaged)
              \/ answer' \in {"no_chunks", "raised"} /\ UNCHANGED decoderVars
<1>1. phase = "placed" /\ Draft(length, drafted) /\ rows \in 0 .. Len(drafted)
  BY DEF Download, DraftInv
<1>2. PICK form \in Forms : ticket = TicketDictionary(form, drafted)
  BY <1>1 DEF DraftInv
<1>3. TicketChunks(ticket) = drafted
  BY <1>1, <1>2, TicketFacts
<1>4. (1 .. rows) \in SUBSET DOMAIN drafted
  <2>1. DOMAIN drafted = 1 .. Len(drafted) /\ Len(drafted) \in Nat
    BY <1>1, DraftFacts
  <2>2. QED
    BY <1>1, <2>1
<1>5. QED
  BY <1>1, <1>3, <1>4 DEF Download

(* The decoder's own steps leave the chunks it was given alone. *)
LEMMA StepKeepsInputs == DecoderStep => UNCHANGED inputVars
BY DEF DecoderStep, SkipDamaged, AddSingle, AddBlock, PassMessage, ResolveAdded,
       AttachAdded, Eliminate, FinishDecoding

(* Each step of the artwork is a step of the decoder, or none for it. *)
LEMMA ArtworkStepIsDecoderStep ==
    DraftInv /\ [ArtNext]_vars => [DecoderNext]_decoderVars
<1> SUFFICES ASSUME DraftInv, [ArtNext]_vars
             PROVE  DecoderNext \/ UNCHANGED decoderVars
  OBVIOUS
<1>1. ASSUME NEW size \in Lengths, NEW first \in FirstSeeds,
             NEW holds \in {"picture", "text"}, DraftImage(size, first, holds)
      PROVE  DecoderNext \/ UNCHANGED decoderVars
  BY <1>1, DraftImageStep, DecodeStarts
<1>2. ASSUME NEW missing, NEW damaged, Download(missing, damaged)
      PROVE  DecoderNext \/ UNCHANGED decoderVars
  BY <1>2, DownloadStep, DecodeStarts
<1>3. CASE RunDecoder
  BY <1>3 DEF RunDecoder, DecoderNext
<1>4. ASSUME \/ CheckImage \/ ActivateRow \/ AnswerDownload
             \/ \E form \in Forms : MakeTicket(form)
             \/ \E age \in Ages : AcceptTicket(age)
             \/ \E same \in BOOLEAN : PlaceImage(same)
      PROVE  UNCHANGED decoderVars
  BY <1>4 DEF CheckImage, ActivateRow, AnswerDownload, MakeTicket, AcceptTicket,
              PlaceImage
<1>5. CASE UNCHANGED vars
  BY <1>5 DEF vars
<1>6. QED
  BY <1>1, <1>2, <1>3, <1>4, <1>5 DEF ArtNext

(***************************************************************************)
(* The artwork runs the decoder as it is specified: each of its decodings  *)
(* is a call with the blocks of one image and chunks that carry some of    *)
(* them, and nothing else touches the decoder.  So what is proved about    *)
(* FountainDecoder holds in Artwork.                                       *)
(***************************************************************************)
THEOREM ArtworkRunsDecoder == ArtSpec => DecoderSpec
<1>1. ArtInit => DecoderInit
  BY DEF ArtInit
<1>2. QED
  BY <1>1, DraftInvariant, ArtworkStepIsDecoderStep, PTL DEF ArtSpec, DecoderSpec

(***************************************************************************)
(* decode of luby.py is exact, keeps its promise and does not loop in      *)
(* every decoding of an artwork, the wallet's and the serving nodes'.      *)
(***************************************************************************)
THEOREM ArtworkDecodesExactly ==
    ArtSpec => ([]DecodesExactly) /\ KeepsPromise /\ DecodingShrinks
<1>1. QED
  BY ArtworkRunsDecoder, DecodingIsExact, DecoderImplements, DecodingTerminates, PTL

-----------------------------------------------------------------------------
(* The decoder only works while decode runs; no step makes it unused. *)
LEMMA StepOfRunning ==
    ASSUME GraphInv, DecoderStep
    PROVE  Running /\ verdict' # "idle"
<1>1. Running
  BY DEF DecoderStep, GraphInv, Ready, SkipDamaged, AddSingle, AddBlock, PassMessage,
         ResolveAdded, AttachAdded, Eliminate, FinishDecoding
<1>2. verdict' \in {verdict, "decoded", "not_enough"}
  BY DEF DecoderStep, SkipDamaged, AddSingle, AddBlock, PassMessage,
         ResolveAdded, AttachAdded, Eliminate, FinishDecoding
<1>3. QED
  BY <1>1, <1>2 DEF Running

(* What the decoder holds of the draft's blocks when it is done is the image. *)
LEMMA DecodedIsOriginal ==
    ASSUME DecoderInv, verdict = "decoded", Draft(length, drafted),
           blocks = SourcesOf(length)
    PROVE  Decoded(drafted) = Original(length)
<1>1. drafted[1].length = length /\ length \in Nat \ {0}
  BY DraftFacts
<1>2. DecodedLength(drafted) = length
  BY <1>1, BlocksOfImage DEF DecodedLength
<1>3. \A n \in blocks : value[n] = {n}
  BY DEF DecoderInv, VerdictInv, DataInv, Done
<1>4. [n \in blocks |-> value[n]] = [n \in SourcesOf(length) |-> {n}]
  BY <1>3
<1>5. QED
  BY <1>2, <1>4 DEF Decoded, Original

(* A decoding of all intact chunks succeeds exactly when they are enough. *)
LEMMA AllChunksDecode ==
    ASSUME blocks = SourcesOf(length), code = CodeOf(drafted), intact = DOMAIN drafted
    PROVE  Promise!Decodable <=> Recoverable
BY DEF Promise!Decodable, Promise!Stopping, Recoverable

LEMMA CheckedInvInit == ArtInit => CheckedInv
BY DEF ArtInit, CheckedInv

(* Every step keeps what the wallet's check has found out about the draft. *)
LEMMA CheckedInvStep ==
    DraftInv /\ DecoderInv /\ DecodesExactly /\ CheckedInv /\ [ArtNext]_vars
        => CheckedInv'
<1> SUFFICES ASSUME DraftInv, DecoderInv, DecodesExactly, CheckedInv, [ArtNext]_vars
             PROVE  CheckedInv'
  OBVIOUS
<1>a. ASSUME UNCHANGED <<length, drafted>>
      PROVE  Recoverable' <=> Recoverable
  BY <1>a DEF Recoverable, CodeOf, SourcesOf
<1>1. ASSUME NEW size \in Lengths, NEW first \in FirstSeeds,
             NEW holds \in {"picture", "text"}, DraftImage(size, first, holds)
      PROVE  CheckedInv'
  <2>1. phase = "new" /\ answer = "none"
    BY <1>1 DEF DraftImage, DraftInv
  <2>2. /\ length' = size
        /\ \/ /\ phase' = "checking" /\ Draft(size, drafted')
              /\ Decode(drafted', DOMAIN drafted', DOMAIN drafted')
           \/ phase' = "refused" /\ UNCHANGED decoderVars
        /\ answer' = answer
    BY <1>1, DraftImageStep
  <2>3. CASE phase' = "refused"
    BY <2>1, <2>2, <2>3 DEF CheckedInv
  <2>4. CASE /\ phase' = "checking" /\ Draft(size, drafted')
             /\ Decode(drafted', DOMAIN drafted', DOMAIN drafted')
    <3>1. /\ blocks' = SourcesOf(size) /\ code' = CodeOf(drafted')
          /\ intact' = DOMAIN drafted'
      BY <2>4, DecodeStarts
    <3>2. verdict' = "running"
      BY <2>4 DEF Decode, StartDecoding
    <3>3. (blocks = SourcesOf(length) /\ code = CodeOf(drafted))'
      BY <2>2, <3>1 DEF SourcesOf, CodeOf
    <3>4. QED
      BY <2>1, <2>2, <2>4, <3>1, <3>2, <3>3 DEF CheckedInv
  <2>5. QED
    BY <2>2, <2>3, <2>4
<1>2. CASE CheckImage
  <2>1. phase = "checking" /\ UNCHANGED <<length, drafted, answer>> /\ answer = "none"
    BY <1>2 DEF CheckImage, DraftInv
  <2>2. CASE phase' = "refused"
    BY <2>1, <2>2 DEF CheckedInv
  <2>3. CASE phase' = "checked" /\ verdict = "decoded"
    <3>1. Promise!Decodable
      BY <2>3 DEF DecodesExactly
    <3>2. Recoverable
      BY <2>1, <3>1, AllChunksDecode DEF CheckedInv
    <3>3. QED
      BY <1>a, <2>1, <2>3, <3>2 DEF CheckedInv
  <2>4. QED
    BY <1>2, <2>2, <2>3 DEF CheckImage
<1>3. ASSUME \/ \E form \in Forms : MakeTicket(form)
             \/ \E age \in Ages : AcceptTicket(age)
             \/ \E same \in BOOLEAN : PlaceImage(same)
      PROVE  CheckedInv'
  <2>1. /\ phase \in {"checked", "signed", "accepted"}
        /\ phase' \in {"signed", "refused", "accepted", "rejected", "placed", "lost"}
        /\ UNCHANGED <<length, drafted, answer>>
    BY <1>3 DEF MakeTicket, AcceptTicket, PlaceImage
  <2>2. answer = "none" /\ Recoverable
    BY <2>1 DEF DraftInv, CheckedInv
  <2>3. QED
    BY <1>a, <2>1, <2>2 DEF CheckedInv
<1>4. CASE ActivateRow \/ UNCHANGED vars
  <2>1. UNCHANGED <<phase, length, drafted, answer, served, decoderVars>>
    BY <1>4 DEF ActivateRow, vars, artVars
  <2>2. (SourcesOf(length) = SourcesOf(length)' /\ CodeOf(drafted) = CodeOf(drafted)')
    BY <2>1 DEF SourcesOf, CodeOf
  <2>3. Original(length)' = Original(length)
    BY <2>1, <2>2 DEF Original
  <2>4. QED
    BY <1>a, <2>1, <2>2, <2>3 DEF CheckedInv, decoderVars, inputVars
<1>5. ASSUME NEW missing, NEW damaged, Download(missing, damaged)
      PROVE  CheckedInv'
  <2>1. /\ phase = "placed" /\ Draft(length, drafted)
        /\ UNCHANGED <<phase, length, drafted>>
        /\ \/ /\ answer' = "decoding"
              /\ (1 .. rows) \in SUBSET DOMAIN drafted
              /\ Decode(drafted, 1 .. rows, (1 .. rows) \ damaged)
           \/ answer' \in {"no_chunks", "raised"}
    BY <1>5, DownloadStep
  <2>2. Recoverable'
    BY <1>a, <2>1 DEF CheckedInv
  <2>3. CASE answer' \in {"no_chunks", "raised"}
    BY <2>1, <2>2, <2>3 DEF CheckedInv
  <2>4. CASE /\ answer' = "decoding"
             /\ (1 .. rows) \in SUBSET DOMAIN drafted
             /\ Decode(drafted, 1 .. rows, (1 .. rows) \ damaged)
    <3>1. blocks' = SourcesOf(length) /\ code' = CodeOf(drafted)
      BY <2>1, <2>4, DecodeStarts
    <3>2. verdict' = "running"
      BY <2>4 DEF Decode, StartDecoding
    <3>3. (blocks = SourcesOf(length) /\ code = CodeOf(drafted))'
      BY <2>1, <3>1 DEF SourcesOf, CodeOf
    <3>4. QED
      BY <2>1, <2>2, <2>4, <3>2, <3>3 DEF CheckedInv
  <2>5. QED
    BY <2>1, <2>3, <2>4
<1>6. CASE AnswerDownload
  <2>1. /\ answer = "decoding" /\ ~Running
        /\ UNCHANGED <<phase, length, drafted, ticket, decoderVars>>
    BY <1>6 DEF AnswerDownload
  <2>2. phase = "placed" /\ Draft(length, drafted) /\ Recoverable
    BY <2>1 DEF DraftInv, CheckedInv
  <2>3. blocks = SourcesOf(length) /\ code = CodeOf(drafted) /\ verdict # "idle"
    BY <2>1 DEF CheckedInv
  <2>4. PICK form \in Forms : ticket = TicketDictionary(form, drafted)
    BY <2>2 DEF DraftInv
  <2>5. TicketChunks(ticket) = drafted
    BY <2>2, <2>4, TicketFacts
  <2>6. /\ (blocks = SourcesOf(length) /\ code = CodeOf(drafted))'
        /\ verdict' = verdict
    BY <2>1, <2>3 DEF SourcesOf, CodeOf, decoderVars, inputVars
  <2>7. CASE verdict = "decoded"
    <3>1. answer' = "SUCCESS" /\ served' = Decoded(drafted)
      BY <1>6, <2>5, <2>7 DEF AnswerDownload
    <3>2. served' = Original(length)
      BY <2>2, <2>3, <2>7, <3>1, DecodedIsOriginal
    <3>3. Original(length)' = Original(length)
      BY <2>1 DEF Original, SourcesOf
    <3>4. QED
      BY <1>a, <2>1, <2>2, <3>1, <3>2, <3>3 DEF CheckedInv
  <2>8. CASE verdict # "decoded"
    <3>1. answer' = "not_enough"
      BY <1>6, <2>8 DEF AnswerDownload
    <3>2. verdict = "not_enough"
      BY <2>1, <2>3, <2>8 DEF DecoderInv, DecoderTypeOK, Running
    <3>3. QED
      BY <1>a, <2>1, <2>2, <2>6, <3>1, <3>2 DEF CheckedInv
  <2>9. QED
    BY <2>7, <2>8
<1>7. CASE RunDecoder
  <2>1. UNCHANGED <<phase, length, drafted, answer, served>>
    BY <1>7 DEF RunDecoder, artVars
  <2>2. UNCHANGED <<blocks, code, intact>> /\ Running /\ verdict' # "idle"
    BY <1>7, StepKeepsInputs, StepOfRunning DEF RunDecoder, inputVars, DecoderInv
  <2>3. SourcesOf(length)' = SourcesOf(length) /\ CodeOf(drafted)' = CodeOf(drafted)
    BY <2>1 DEF SourcesOf, CodeOf
  <2>4. Original(length)' = Original(length)
    BY <2>1, <2>3 DEF Original
  <2>5. answer # "not_enough"
    BY <2>2 DEF CheckedInv, Running
  <2>6. QED
    BY <1>a, <2>1, <2>2, <2>3, <2>4, <2>5 DEF CheckedInv
<1>8. QED
  BY <1>1, <1>2, <1>3, <1>4, <1>5, <1>6, <1>7 DEF ArtNext

(* What the artwork's decoder and its data satisfy together. *)
LEMMA CheckedInvariant == ArtSpec => [](DraftInv /\ DecoderInv /\ CheckedInv)
<1>1. ArtSpec => []DecoderInv /\ []DecodesExactly
  BY ArtworkRunsDecoder, DecoderInvariant, DecodingIsExact, PTL
<1>2. QED
  BY <1>1, DraftInvariant, CheckedInvInit, CheckedInvStep, PTL DEF ArtSpec

-----------------------------------------------------------------------------
(***************************************************************************)
(* The types of the artwork: a ticket that exists satisfies the validators *)
(* of its model, and no node has more rows than there are chunks.          *)
(***************************************************************************)
THEOREM ArtTypeCorrect == ArtSpec => []ArtTypeOK
<1>1. DraftInv /\ DecoderInv => ArtTypeOK
  BY DEF DraftInv, DecoderInv, ArtTypeOK
<1>2. QED
  BY <1>1, CheckedInvariant, PTL

(***************************************************************************)
(* The files MN0 places carry the digests of the ticket, for every image,  *)
(* first seed and form: encode with the ticket's seeds draws the wallet's  *)
(* chunks again, and cannot raise for an accepted ticket.                  *)
(***************************************************************************)
THEOREM PlacedChunksMatch == ArtSpec => []PlacedMatchesTicket
<1>1. DraftInv => PlacedMatchesTicket
  <2> SUFFICES ASSUME DraftInv, phase \in {"placed", "accepted"}
               PROVE  PlacedMatchesTicket
    BY DEF PlacedMatchesTicket
  <2>1. Draft(length, drafted) /\ (phase = "placed" => placed = drafted)
    BY DEF DraftInv
  <2>2. PICK form \in Forms : ticket = TicketDictionary(form, drafted)
    BY DEF DraftInv
  <2>3. TicketSeeds(ticket) = Seeds(drafted) /\ TicketChunks(ticket) = drafted
    BY <2>1, <2>2, TicketFacts
  <2>4. /\ EncodesAgain(length, Seeds(drafted))
        /\ EncodeAgain(length, Seeds(drafted)) = drafted
    BY <2>1, DraftFacts
  <2>5. ImageAccepted(length, drafted, "picture")
    BY <2>1 DEF Draft
  <2>6. QED
    BY <2>1, <2>3, <2>4, <2>5 DEF PlacedMatchesTicket
<1>2. QED
  BY <1>1, DraftInvariant, PTL

(***************************************************************************)
(* A SUCCESS of image_download is the artist's image, byte for byte, from  *)
(* whatever rows and undamaged files the node had when it was asked.       *)
(***************************************************************************)
THEOREM ServedImageIsOriginal == ArtSpec => []ServedIsImage
<1>1. CheckedInv => ServedIsImage
  BY DEF CheckedInv, ServedIsImage
<1>2. QED
  BY <1>1, CheckedInvariant, PTL

(***************************************************************************)
(* Once the wallet has decoded its own chunks, a node with all of them     *)
(* intact never answers "Not enough chunks to reconstruct given image".    *)
(***************************************************************************)
THEOREM FullSetIsServed == ArtSpec => []FullSetServes
<1>1. DraftInv /\ CheckedInv /\ DecodesExactly => FullSetServes
  <2> SUFFICES ASSUME DraftInv, CheckedInv, DecodesExactly,
                      answer = "not_enough", intact = DOMAIN drafted
               PROVE  FALSE
    BY DEF FullSetServes
  <2>1. phase = "placed"
    BY DEF DraftInv
  <2>2. /\ Recoverable /\ blocks = SourcesOf(length) /\ code = CodeOf(drafted)
        /\ verdict = "not_enough"
    BY <2>1 DEF CheckedInv
  <2>3. Promise!Decodable
    BY <2>2, AllChunksDecode
  <2>4. QED
    BY <2>2, <2>3 DEF DecodesExactly
<1>2. QED
  BY <1>1, CheckedInvariant, ArtworkRunsDecoder, DecodingIsExact, PTL

=============================================================================
