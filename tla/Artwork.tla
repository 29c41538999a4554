------------------------------- MODULE Artwork -------------------------------
(***************************************************************************)
(* The data of one artwork, end to end: the wallet encodes the image,      *)
(* decodes the chunks again to check them, and builds the registration     *)
(* ticket; masternodes rebuild and validate the ticket; MN0 encodes the    *)
(* uploaded image again with the seeds of the ticket and places the        *)
(* chunks; other nodes learn the chunk rows from the ticket of the         *)
(* blockchain and fetch the files; and a wallet downloads the image from   *)
(* one of them.                                                            *)
(*                                                                         *)
(* Both decodings run on FountainDecoder, whose variables this module      *)
(* extends.  How chunks travel and get lost is ChunkStore's subject; how   *)
(* the masternodes agree on the ticket is Registration's.                  *)
(***************************************************************************)
EXTENDS FountainDecoder, LubyEncoder, TicketModel

CONSTANTS
    Lengths,      \* lengths of images the artist may post
    FirstSeeds,   \* random.randint(0, 2 ** 30)
    Forms,        \* what the artist fills in: a text's size and total_copies
    Ages,         \* blocks between the ticket and its validation
    MaxDistance,  \* Settings.MAX_REGISTRATION_BLOCK_DISTANCE
    NoTicket      \* no registration ticket yet

ASSUME ArtworkAssumption ==
    /\ Lengths \subseteq Nat \ {0}
    /\ FirstSeeds \subseteq 0 .. Modulus - 1
    /\ MaxDistance \in Nat
    /\ MaxChunkSize = ChunkSize
    /\ Chunks = 1 .. Cardinality(Chunks)
    /\ \A l \in Lengths : /\ ChunkCount(l) <= Cardinality(Chunks)
                          /\ SourcesOf(l) \subseteq Sources
                          /\ SourceCount(l) < Modulus

VARIABLES
    phase,    \* how far the artwork has come
    length,   \* bytes of the image
    drafted,  \* the chunks the wallet generated
    ticket,   \* the registration ticket, as a dictionary
    placed,   \* the chunks MN0 generated again
    rows,     \* how many Chunk rows of the image a serving node has
    answer,   \* the state of a download from it
    served    \* bytes and blocks of the image it sent

artVars == <<phase, length, drafted, ticket, placed, rows, answer, served>>
vars == <<artVars, decoderVars>>

Phases == {"new", "checking", "checked", "signed", "accepted", "placed",
           "refused", "rejected", "lost"}

Answers == {"none", "no_chunks", "raised", "decoding", "SUCCESS", "not_enough"}

Nothing == [length |-> 0, image |-> <<>>]

Original(size) == [length |-> size, image |-> [n \in SourcesOf(size) |-> {n}]]

(* The blocks in the order of their numbers, the last one cut to its bytes. *)
Decoded(chunks) == [length |-> DecodedLength(chunks),
                    image |-> [n \in blocks |-> value[n]]]

-----------------------------------------------------------------------------
(* The decoder is given the chunks numbered by `given'. *)
Decode(chunks, given, good) ==
    StartDecoding(SourcesOf(chunks[1].length),
                  [c \in Chunks |-> IF c \in DOMAIN chunks THEN chunks[c].nodes
                                                           ELSE {}],
                  given, good)

ChunkBytes(chunk) == Bytes(HeaderLength + BlockSize, chunk)
Digest(chunk)     == Bytes(64, chunk)

ImageDictionary(size, chunks, holds) ==
    [image |-> Bytes(size, holds),
     lubychunks |-> ListOf([i \in DOMAIN chunks |-> ChunkBytes(chunks[i])]),
     thumbnail |-> Bytes(1, holds)]

(***************************************************************************)
(* The dictionary of generate_regticket.  The texts have the size the form *)
(* gives them; pastelid and txid come from the cNode in their sizes.       *)
(***************************************************************************)
TicketDictionary(form, chunks) ==
    LET text == Text(form.text, "text")
    IN  [author |-> Text(86, "artist"),
         order_block_txid |-> Text(64, "block"),
         blocknum |-> Number(0),
         imagedata_hash |-> Bytes(64, "image"),
         artist_name |-> text, artist_website |-> text,
         artist_written_statement |-> text, artwork_title |-> text,
         artwork_series_name |-> text,
         artwork_creation_video_youtube_url |-> text,
         artwork_keyword_set |-> text,
         total_copies |-> Number(form.copies),
         fingerprints |-> ListOf([i \in 1 .. FingerprintSize |-> Float(0)]),
         lubyhashes |-> ListOf([i \in DOMAIN chunks |-> Digest(chunks[i])]),
         lubyseeds |-> ListOf([i \in DOMAIN chunks |-> Number(Seeds(chunks)[i])]),
         thumbnailhash |-> Bytes(64, "thumbnail")]

TicketSeeds(t)  == [i \in DOMAIN t.lubyseeds.items |-> t.lubyseeds.items[i].holds]
TicketChunks(t) == [i \in DOMAIN t.lubyhashes.items |-> t.lubyhashes.items[i].holds]

-----------------------------------------------------------------------------
ArtInit ==
    /\ DecoderInit
    /\ phase = "new" /\ length = 0 /\ drafted = <<>> /\ ticket = NoTicket
    /\ placed = <<>> /\ rows = 0 /\ answer = "none" /\ served = Nothing

(***************************************************************************)
(* generate_luby_chunks verifies what it generated, the thumbnail is made  *)
(* from the picture, and ImageData validates its three fields.             *)
(***************************************************************************)
ImageAccepted(size, chunks, holds) ==
    /\ VerifyBlocks(chunks)
    /\ Builds("ImageData", ImageDictionary(size, chunks, holds))

(***************************************************************************)
(* generate_regticket up to image.validate(), which decodes all chunks.    *)
(* Every exception of it ends step 2 of the registration.                  *)
(***************************************************************************)
DraftImage(size, first, holds) ==
    /\ phase = "new"
    /\ length' = size
    /\ drafted' = EncodeNew(size, first)
    /\ IF ImageAccepted(size, drafted', holds) /\ DrawsAgain(drafted')
         THEN /\ phase' = "checking"
              /\ Decode(drafted', DOMAIN drafted', DOMAIN drafted')
         ELSE /\ phase' = "refused"
              /\ UNCHANGED decoderVars
    /\ UNCHANGED <<ticket, placed, rows, answer, served>>

(* Mutant of CheckImage: the reconstructed image is not compared. *)
CheckNothing ==
    /\ phase = "checking"
    /\ ~Running
    /\ phase' = "checked"
    /\ UNCHANGED <<length, drafted, ticket, placed, rows, answer, served, decoderVars>>

(* NotEnoughChunks, or require_true(reconstructed == self.image) *)
CheckImage ==
    /\ phase = "checking"
    /\ ~Running
    /\ phase' = IF verdict = "decoded" /\ Decoded(drafted) = Original(length)
                  THEN "checked" ELSE "refused"
    /\ UNCHANGED <<length, drafted, ticket, placed, rows, answer, served, decoderVars>>

MakeTicket(form) ==
    /\ phase = "checked"
    /\ IF Builds("RegistrationTicket", TicketDictionary(form, drafted))
         THEN ticket' = TicketDictionary(form, drafted) /\ phase' = "signed"
         ELSE ticket' = NoTicket /\ phase' = "refused"
    /\ UNCHANGED <<length, drafted, placed, rows, answer, served, decoderVars>>

(***************************************************************************)
(* masternode_validate_registration_ticket: the ticket and the signature   *)
(* are built again from what was sent, the signature is by the author and  *)
(* over the package of the ticket, and the ticket is not too old.          *)
(***************************************************************************)
Signature == [signature |-> Text(152, Package(ticket)),
              pastelid |-> Text(86, "artist")]

TicketAccepted(signature, age) ==
    /\ Builds("RegistrationTicket", ticket)
    /\ Builds("Signature", signature)
    /\ signature.pastelid = ticket.author
    /\ signature.signature.holds = Package(ticket)
    /\ ticket.lubyhashes.size = ticket.lubyseeds.size
    /\ age <= MaxDistance

AcceptTicket(age) ==
    /\ phase = "signed"
    /\ phase' = IF TicketAccepted(Signature, age) THEN "accepted" ELSE "rejected"
    /\ UNCHANGED <<length, drafted, ticket, placed, rows, answer, served, decoderVars>>

(***************************************************************************)
(* masternode_place_image_data_in_chunkstorage.  The thumbnail is made     *)
(* again, and storing it raises when another version of the image library  *)
(* writes other bytes.  The decoder is not run again.  In this commit only *)
(* callers outside it reach this handler: see Registration.                *)
(***************************************************************************)
PlaceImage(sameThumbnail) ==
    /\ phase = "accepted"
    /\ LET seeds == TicketSeeds(ticket)
           again == EncodeAgain(length, seeds)
       IN  IF /\ EncodesAgain(length, seeds)
              /\ ImageAccepted(length, again, "picture")
              /\ sameThumbnail
             THEN placed' = again /\ phase' = "placed"
             ELSE placed' = <<>> /\ phase' = "lost"
    /\ UNCHANGED <<length, drafted, ticket, rows, answer, served, decoderVars>>

-----------------------------------------------------------------------------
(* Mutant of ActivateRow: the loop runs once too often. *)
ActivateRowTooFar ==
    /\ phase = "placed"
    /\ rows <= Len(TicketChunks(Unpackage(Package(ticket))))
    /\ rows' = rows + 1
    /\ UNCHANGED <<phase, length, drafted, ticket, placed, answer, served, decoderVars>>

(***************************************************************************)
(* The serving node creates the next Chunk row of the image from the       *)
(* ticket it reads on the blockchain; it may be asked at any time between. *)
(***************************************************************************)
ActivateRow ==
    /\ phase = "placed"
    /\ rows < Len(TicketChunks(Unpackage(Package(ticket))))
    /\ rows' = rows + 1
    /\ UNCHANGED <<phase, length, drafted, ticket, placed, answer, served, decoderVars>>

(***************************************************************************)
(* receive_rpc_download_image reads the file of every row: one missing     *)
(* file raises, a damaged one is skipped by the decoder.  A file exists    *)
(* under the digest of its content, so only placed chunks have one.        *)
(***************************************************************************)
Downloadable == {i \in 1 .. rows :
                    \E j \in DOMAIN placed : placed[j] = TicketChunks(ticket)[i]}

Download(missing, damaged) ==
    /\ phase = "placed" /\ answer # "decoding"
    /\ answer' = IF rows = 0 THEN "no_chunks"
                 ELSE IF missing \cup ((1 .. rows) \ Downloadable) # {} THEN "raised"
                 ELSE "decoding"
    /\ IF answer' = "decoding"
         THEN Decode(TicketChunks(ticket), 1 .. rows, (1 .. rows) \ damaged)
         ELSE UNCHANGED decoderVars
    /\ served' = Nothing
    /\ UNCHANGED <<phase, length, drafted, ticket, placed, rows>>

(* the image, or "Not enough chunks to reconstruct given image" *)
AnswerDownload ==
    /\ answer = "decoding" /\ ~Running
    /\ IF verdict = "decoded"
         THEN /\ answer' = "SUCCESS"
              /\ served' = Decoded(TicketChunks(ticket))
         ELSE answer' = "not_enough" /\ served' = Nothing
    /\ UNCHANGED <<phase, length, drafted, ticket, placed, rows, decoderVars>>

RunDecoder == DecoderStep /\ UNCHANGED artVars

ArtNext ==
    \/ \E size \in Lengths, first \in FirstSeeds, holds \in {"picture", "text"} :
          DraftImage(size, first, holds)
    \/ CheckImage
    \/ \E form \in Forms : MakeTicket(form)
    \/ \E age \in Ages : AcceptTicket(age)
    \/ \E same \in BOOLEAN : PlaceImage(same)
    \/ ActivateRow
    \/ \E missing \in {{}} \cup {{i} : i \in 1 .. rows}, damaged \in SUBSET (1 .. rows) :
          Download(missing, damaged)
    \/ AnswerDownload
    \/ RunDecoder

(* decode runs to its end without an await; nothing else has to happen. *)
ArtSpec == ArtInit /\ [][ArtNext]_vars /\ WF_vars(RunDecoder)

-----------------------------------------------------------------------------
(* The values of the wallet, the nodes and the decoder. *)
ArtTypeOK ==
    /\ DecoderTypeOK
    /\ phase \in Phases
    /\ length \in Lengths \cup {0}
    /\ Len(drafted) \in 0 .. Cardinality(Chunks)
    /\ ticket # NoTicket => Builds("RegistrationTicket", ticket)
    /\ placed = <<>> \/ Len(placed) = Len(drafted)
    /\ rows \in 0 .. Len(drafted)
    /\ answer \in Answers

(***************************************************************************)
(* Chunks generated again from the seeds of the ticket are the ones the    *)
(* wallet hashed ("then and only then chunk set will be identical to what  *)
(* wallet generated"): the files MN0 places answer to the lubyhashes other *)
(* nodes ask for, and placing an accepted ticket fails only over the       *)
(* thumbnail.                                                              *)
(***************************************************************************)
PlacedMatchesTicket ==
    /\ phase = "placed" => placed = TicketChunks(ticket) /\ placed = drafted
    /\ phase = "accepted" => /\ EncodesAgain(length, TicketSeeds(ticket))
                             /\ ImageAccepted(length, EncodeAgain(length, TicketSeeds(ticket)), "picture")

(***************************************************************************)
(* What a node sends as SUCCESS is the artist's image: as many bytes, and  *)
(* every block the one that was encoded, though it decodes from its own    *)
(* rows, damaged files included, in its own order.                         *)
(***************************************************************************)
ServedIsImage == answer = "SUCCESS" => served = Original(length)

(***************************************************************************)
(* An image the wallet has checked can be downloaded: a node with all rows *)
(* and intact files never answers that it has not enough chunks.           *)
(***************************************************************************)
FullSetServes ==
    answer = "not_enough" => intact # DOMAIN drafted

=============================================================================
