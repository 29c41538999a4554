---------------------------- MODULE TicketModel ----------------------------
(***************************************************************************)
(* The ticket models and their field validators (ticket_models.py and      *)
(* model_validators.py).  A value is its type, its size (the value of a    *)
(* number, the length of the others, for a text in UTF-8), and the         *)
(* elements of a list; `holds' is what the bytes or the text say, where    *)
(* somebody reads them.                                                    *)
(***************************************************************************)
EXTENDS Integers, Sequences

CONSTANTS
    FingerprintSize,  \* Settings.DUPE_DETECTION_FINGERPRINT_SIZE
    ImageMaxSize,     \* Settings.IMAGE_MAX_SIZE
    ThumbnailMaxSize, \* Settings.THUMBNAIL_MAX_SIZE
    MaxChunkSize,     \* Settings.CHUNKSIZE
    MaxLubyChunks,    \* Settings.MAX_LUBY_CHUNKS
    MaxInteger        \* 2^32 - 1 for a seed, 9999999999999 for a block number

ASSUME ModelAssumption ==
    /\ FingerprintSize \in Nat /\ ImageMaxSize \in Nat
    /\ ThumbnailMaxSize \in Nat /\ MaxChunkSize \in Nat /\ MaxLubyChunks \in Nat
    /\ MaxInteger \in Nat

-----------------------------------------------------------------------------
Value(type, size, items, holds) ==
    [type |-> type, size |-> size, items |-> items, holds |-> holds]

Text(size, holds)   == Value("str", size, <<>>, holds)
Bytes(size, holds)  == Value("bytes", size, <<>>, holds)
Number(n)           == Value("int", n, <<>>, n)
Float(n)            == Value("float", n, <<>>, n)
ListOf(items)       == Value("list", Len(items), items, "items")

(* What an entry of a `methods' table accepts. *)
Field(type, min, max) == [type |-> type, min |-> min, max |-> max]

TextField(min, max)  == Field("str", min, max)
BytesField(min, max) == Field("bytes", min, max)
IntegerField(min, max) == Field("int", min, max)
PastelIDField  == TextField(86, 86)
TXIDField      == TextField(64, 64)
SignatureField == TextField(152, 152)
SHA3512Field   == BytesField(64, 64)
ImageField     == BytesField(1, ImageMaxSize)
ThumbnailField == BytesField(1, ThumbnailMaxSize)
ChunkField     == BytesField(1, MaxChunkSize)
SeedField      == IntegerField(0, MaxInteger)
FingerprintValueField == Field("float", -1000, 1000)

(***************************************************************************)
(* The fields of a model, and the element field of those that are lists.   *)
(***************************************************************************)
Methods(model) ==
    CASE model = "ImageData" ->
            [image      |-> ImageField,
             lubychunks |-> Field("list", 1, MaxLubyChunks),
             thumbnail  |-> ThumbnailField]
      [] model = "RegistrationTicket" ->
            [author         |-> PastelIDField,
             order_block_txid |-> TXIDField,
             blocknum       |-> IntegerField(0, MaxInteger),
             imagedata_hash |-> SHA3512Field,
             artist_name    |-> TextField(0, 120),
             artist_website |-> TextField(0, 120),
             artist_written_statement |-> TextField(0, 120),
             artwork_title  |-> TextField(0, 120),
             artwork_series_name |-> TextField(0, 120),
             artwork_creation_video_youtube_url |-> TextField(0, 120),
             artwork_keyword_set |-> TextField(0, 120),
             total_copies   |-> IntegerField(0, 120),
             fingerprints   |-> Field("list", FingerprintSize, FingerprintSize),
             lubyhashes     |-> Field("list", 1, MaxLubyChunks),
             lubyseeds      |-> Field("list", 1, MaxLubyChunks),
             thumbnailhash  |-> SHA3512Field]
      [] model = "Signature" ->
            [signature |-> SignatureField,
             pastelid  |-> PastelIDField]

ElementField(name) ==
    CASE name = "fingerprints" -> FingerprintValueField
      [] name = "lubyhashes"   -> SHA3512Field
      [] name = "lubyseeds"    -> SeedField
      [] name = "lubychunks"   -> ChunkField

-----------------------------------------------------------------------------
(* LengthValidator, NumberValidator and StringField *)
InBounds(field, value) ==
    /\ value.type = field.type
    /\ value.size >= field.min
    /\ value.size <= field.max

(***************************************************************************)
(* ContainerWithElementValidator also validates each element, and pictures *)
(* are opened.                                                             *)
(***************************************************************************)
Validates(model, name, value) ==
    /\ InBounds(Methods(model)[name], value)
    /\ name \in {"image", "thumbnail"} => value.holds = "picture"
    /\ value.type = "list" =>
          \A i \in DOMAIN value.items : InBounds(ElementField(name), value.items[i])

(***************************************************************************)
(* TicketModelBase.__init__ raises unless the dictionary has exactly the   *)
(* fields of the model and each of them validates; nobody can change the   *)
(* object afterwards.                                                      *)
(***************************************************************************)
Builds(model, dictionary) ==
    /\ DOMAIN dictionary = DOMAIN Methods(model)
    /\ \A name \in DOMAIN dictionary : Validates(model, name, dictionary[name])

(***************************************************************************)
(* get_cnode_package_dict: four fields are repeated for the cNode, and the *)
(* ticket itself travels in app_ticket, the only part that is read back.   *)
(***************************************************************************)
Package(ticket) ==
    [version |-> 1,
     author |-> ticket.author, blocknum |-> ticket.blocknum,
     data_hash |-> ticket.imagedata_hash, copies |-> ticket.total_copies,
     app_ticket |-> ticket]

Unpackage(package) == package.app_ticket

=============================================================================
