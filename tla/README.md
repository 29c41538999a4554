# Stovacore in TLA+

Stovacore is the Python layer of the Pastel network. It runs as two programs: a
*pynode* beside each masternode's cNode (the blockchain daemon), and a *wallet* that
artists and collectors use. An artist registers an image with three masternodes; the
image is cut into fountain-coded *chunks*; each chunk is kept by the masternodes whose
ids are nearest to it in the XOR metric.

This directory holds TLA+ modules translated from `src/`, TLC configurations that check
them on small instances, and TLAPS proofs of the most important invariants for every
value of the constants. All file names and line numbers below are relative to the
repository's `src/` directory (so `pynode/tasks.py` is `src/pynode/tasks.py` of the
working tree this directory sits in); `PROJECT.json` maps every definition to its lines.

## 1. The system

### Components

| component | code | state | operations |
|---|---|---|---|
| Owner directory | `pynode/tasks.py` 29-140, 229-268; `core_modules/database.py` | tables Masternode, Chunk, ChunkMnDistance, ChunkMnRanked | refresh the masternode list, measure new masternodes and new chunks, recalculate the ranking, get the owners of a chunk |
| Chunk storage | `pynode/tasks.py` 142-226, 271-409; `core_modules/chunkmanager.py`, `chunk_storage.py`; `pynode/rpc_handlers.py` | table Chunk and ActivationTicket, temporary and persistent directory | place, activate, move to persistent storage, fetch from owners, serve, clear `stored` |
| Registration on masternodes | `core_modules/masternode_ticketing.py`, `database.py` (Regticket) | table Regticket, sleeping handlers | REGTICKET, IMAGE_UPLOAD(_MN0), TXID_10, MN1_CONFIRM, write to the blockchain |
| Registration in the wallet | `wallet/pastel_client.py`, `art_registration_client.py`, `http_server.py` | RegticketDB | steps 2 and 3, retry |
| Event loop and scheduling | `pynode/masternode_daemon.py`, `pynode/tasks.py` | one asyncio loop per process | periodic task bodies |
| RPC transport | `core_modules/rpc_client.py`, `pynode/rpc_server.py`, `rpc_serialization.py` | none between calls | signed msgpack messages over HTTPS |
| Serving images | `pynode/rpc_handlers.py` 52-107 | none | download an image or a thumbnail |
| Fountain code | `core_modules/blackbox_modules/luby.py` | decoder graph | encode, decode |
| Ticket models | `core_modules/ticket_models.py`, `model_validators.py` | locked attributes | validation, serialisation, hashes |
| cNode client | `core_modules/blockchain.py`, `cnode_connection.py` | connection | JSON-RPC calls |
| Wallet: artworks and trading | `wallet/http_server.py`, `wallet/tasks.py`, `wallet/database.py` | Artwork, SellTicketDB | cache of artworks, sell and buy tickets, downloads |
| NSFW, duplicate detection | `core_modules/blackbox_modules/` | trained networks | verdicts about images |
| Settings, logging, helpers | `core_modules/settings.py`, `helpers.py`, `logger.py` | none | |
| Deployment and demos | `ansible/`, `demos/`, shell scripts | none | kill and restart of a pynode |

### How they interact

- *Shared tables.* The owner directory reads the Chunk rows that the chunk storage
  creates; the fetcher of the chunk storage reads the owners that the directory ranks,
  and writes whole Chunk rows back (`save()` of peewee 3.9.6 writes every column, the
  database is in autocommit mode: each statement is its own transaction).
- *Calls.* A wallet calls MN0, MN1 and MN2; nodes fetch chunks from each other. MN1 and MN2
  are to confirm to MN0, but fail before they call it (finding 4). There is no retry in the
  transport and no deduplication.
- *Callbacks.* The second confirmation at MN0 places the chunks (registration -> storage):
  its handler is registered, and waits for a call that no host of this commit makes. The
  activation ticket, which the wallet publishes in the blockchain, makes every node
  create the rows of the chunks (blockchain -> storage).
- *Scheduling.* All handlers and tasks of a node share one thread and one event loop.
  Code between two `await`s runs alone, but the process may be killed in it at any
  statement.

### What is hard here

1. Rows that are read, kept across an `await`, and written back with every column (the
   fetcher, and the TXID_10 handler).
2. A masternode refresh between the creation and the indexing of a chunk, and crashes
   between statements that belong together (distances and `indexed`; DELETE and INSERT of
   the ranking; file and row; chunks and their activation ticket).
3. A move between directories made of get, put and delete, over files that are truncated
   before they are written.
4. A protocol of four parties without transactions, where calls and answers are lost, the
   wallet tries again, and MN0 finds its row by image rather than by attempt.
5. Unbounded waits: an RPC without a read timeout, a sleep loop whose counter is never
   incremented.
6. A fountain code that must give the same chunks again from the seeds in a ticket, and
   whose decoder resolves blocks in an order that sets, the database and lost chunks choose.
7. A wallet that fills its list of artworks across awaits, with two lists at once, files
   and rows written one after the other, a cNode call that is repeated when the connection
   breaks, and a process that may be killed in all of it.

`PROJECT.json` lists each of these under "hazards" with its line and the properties that
watch it, or the reason why none does yet.

### What makes each component correct

- *Owner directory*: an indexed chunk has a distance to each known masternode; the
  ranking follows the distances; the owners are the nearest masternodes; every chunk is
  measured in the end; a reported masternode is listed.
- *Chunk storage*: a row that says `stored` has a file; only a crash damages a file; the
  move of a complete temporary file keeps a complete copy at each step; nothing is persistent without a ticket; a ticket
  counts as processed only after its chunks; the temporary directory drains.
- *Registration*: the fee is burned only for an image that all three masternodes hold; what
  MN0 marks as valid was paid for and is of the attempt that asks; a validation that passes
  is answered as passed; a node registers an image once.
- *Fountain code*: decoding succeeds exactly when the chunks allow it, and then gives the
  image; it ends; encoding again with the seeds of a ticket gives the chunks of the ticket.
- *Artwork data*: what a node serves is the artist's image, and an image that the wallet
  checked can be served by every node with intact chunks.
- *RPC*: an answer comes from the host that was asked.
- *Wallet artworks*: a listed artwork has a thumbnail file; a list is complete, and a ticket
  that cannot be read is recorded and passed over; a sale of the wallet's own has a ticket,
  and one that was promised is shown; an image is called missing only when every masternode
  has said so; a call ends unless a masternode stays silent.

## 2. The modules

### `ChunkIndex`: the owner directory of one node

| TLA+ | code |
|---|---|
| `masternode`, `chunk`, `indexed`, `distance`, `ranked` | the tables; `distance[c][m]` counts the rows of a pair, because nothing makes a pair unique |
| `section`, `batch`, `todo` | the synchronous body in progress, its selected chunks, the pairs it still has to insert |
| `copy` | the `indexed` column in a row the fetcher holds across its `await` |
| `RefreshMasternodes`, `IndexNewChunks` | the two bodies up to their first INSERT |
| `InsertDistance`, `MarkIndexed`, `RefreshMeasured`, `DeleteRanking`, `InsertRanking` | one SQL statement each (or the call between two) |
| `FetchRead`, `FetchSave` | the fetcher's stale save |
| `Crash` | `kill` of the process: tables stay, memory goes |

Distances are a constant order `Key[c]` on masternodes: the order of the strings that SQL
compares. `row_number()` numbers *rows*, so a pair with two rows takes two ranks; rows of
a pair are counted up to `ReplicationFactor`, beyond which more rows change no rank that
is kept. `cutShort` and `ranksDue` are history variables: the masternodes whose refresh a
crash cut short, and whether a ranking is due since a crash.

`OwnerDirectory` is the abstract specification: masternodes are listed, chunks measured
against listed masternodes, owners withdrawn, and published for all chunks together, each
time the nearest of the masternodes measured by then, at most `ReplicationFactor`. No
bodies, rows or crashes. `KeepsDirectory` says that `ChunkIndex` implements it under
`measured <- ` the pairs with a positive `distance` and `owners <- Owners`: what a crash or a
repeated body does is invisible, or is one of these steps.

### `ChunkStore`: the life of a chunk on one node

| TLA+ | code |
|---|---|
| `row`, `processed`, `rejected`, `owned` | tables Chunk (`confirmed`, `stored`, `attempts_to_load`), ActivationTicket (with height -1: rejected), ChunkMnRanked for this node |
| `tmp`, `pers` | the directories; a file is absent, torn (opened for writing, so truncated) or good |
| `section`, `step`, `todo`, `actor` | the synchronous body in progress and where it stands |
| `job` | coroutines of `fetch_chunk_and_store_it`, with the row each of them holds; those the current `gather` waits for, and those left behind by a `gather` that raised |
| `PlaceImage`, `PlaceRow`, `PlaceRejected` | `masternode_place_image_data_in_chunkstorage`, in the handler of MN1_CONFIRM (called from outside only, see `Registration`) |
| `ActivateTicket`, `ActivateCreates`, `ActivateConfirms`, `ActivateRecords`, `RejectTicket` | `get_and_proccess_new_activation_tickets` |
| `RemoveOrphan`, `MoveChunk`, `MoveUnlinks` | the scan of the temporary directory |
| `OpenFile`, `WriteFile` | `ChunkStorage.put` |
| `StartRound`, `SkipAttempt`, `AskOwners`, `GiveUp`, `ReceiveChunk`, `SaveRow`, `FetchRaises` | the fetcher |
| `ServeChunk` | the handler of FETCHCHUNK |
| `Crash` | `kill` of the process |

`MoveKeepsChunk` is about complete temporary files, and says nothing of a torn one, because
nothing can be said: `move_to_persistant_storage` reads whatever is in the file, truncates the
persistent file, writes that and unlinks (`core_modules/chunkmanager.py:52-55`). A temporary
file that a kill has left torn is so moved over a persistent one even when that was complete
(fetched from an owner, say), and the node's last complete copy is gone. No check of the
digest stands in the way. The model does all of this; the property leaves exactly these moves
out, and `KeepsChunks` counts a torn file as a file.

What peers answer is a choice; the digest of a fetched chunk is checked by the code, so
data of the wrong digest is one of the ways not to answer. `published` is the blockchain.
The loops of two tasks over tickets and files handle one item per section here, which only
adds interleavings between items. (`proccess_tmp_storage` lists the directory once per
scan; the list holds ids, and each is looked up anew.)

`ChunkKeeper` is the abstract specification: a node takes note of a chunk when it has its file
or a ticket announces it, says `stored` only with a file, `confirmed` only with a ticket, and
never gives up the file of a chunk it has noted. `KeepsChunks` says that `ChunkStore`
implements it, with the two directories seen as one (`filed`) and the columns of the rows as
sets. Moves, writes, fetches and stale saves are steps of it or nothing; that a stale save
takes a confirmation back (finding 3) is allowed there, as the code does it.

### `Registration`: an artist's wallet, the masternodes and the blockchain

| TLA+ | code |
|---|---|
| `phase`, `block`, `first`, `code`, `burn`, `upload`, `answer` | the wallet's row of a registration attempt, and the calls in progress |
| `rows[n]` | the Regticket rows of node n, in the order of their ids: whose attempt, whether image and local fee are there, `is_valid_mn0`, the two that have confirmed |
| `handler` | TXID_10 handlers; MN0's holds the row it read |
| `placed`, `chain` | nodes that have the thumbnail's unique Chunk row; tickets of the image in the blockchain |
| `GenerateTicket`, `Upload`, `FinishStep2` | step 2: REGTICKET and IMAGE_UPLOAD_MN0 |
| `StartStep3`, `Upload`, `StopStep3`, `BurnFee`, `FinishStep3` | step 3 of the wallet |
| `UnknownCode`, `ReadRow`, `CheckFails`, `SaveValidMN0` | the handler of TXID_10 at MN0 |
| `CheckFails`, `SigningFails` | the same at MN1 and MN2: it never gets past `generate_signed_ticket(regticket)` |
| `FirstConfirmation`, `PlacingFails`, `WritingFails`, `TicketRegistered` | the handler of MN1_CONFIRM |
| `Activate` | an activation ticket places the chunks on a node |
| `ConnectionLost`, and `Failed` in the others | a lost call or answer; aiohttp 3.5.4 cancels a handler whose client is gone |

`core_modules/masternode_ticketing.py:201` defines `generate_signed_ticket(self, ticket)` at
module level, line 235 calls it with one argument. The TypeError comes after all checks of
MN1 and MN2 and before REGTICKET_MN1_CONFIRM_REQ, whose only sender is line 238. So between
hosts of this commit no confirmation is ever sent, no ticket written and no SUCCESS reported,
and in the model no attempt succeeds. The handler of confirmations is nevertheless registered
(line 315) and answers whoever calls it, without a look at who that is. It is modelled as it
stands, with callers from outside: `Confirmers` may call it at the nodes of `Called` at any
time. Only `OneTicketPerNode` is about it; the other properties are about what the hosts of
this code do by themselves, whatever confirmations come in between.

Abstractions:
- one image of one artist, so every row of a node is a candidate of the look-up by artist
  and image (the case that matters: rows of other images are never selected);
- the verdicts about fees, heights and images are a choice (`CheckFails`); the columns
  `status` and `error`, which are never written, are left out;
- REGTICKET and the image upload that follows it are one step; what others do in between
  to a row without image they may also do before the step that leaves such a row;
- `faults` counts the calls and checks that fail although they need not.

Left out: the wallet killed in the middle of a step, and `cancel` of a registration.

### `ImageDecoder` and `FountainDecoder`: decoding

`ImageDecoder` is the abstract specification of `decode` in `luby.py`: from the intact
chunks it goes in one step to the image, or to `NotEnoughChunks` if some set of source
blocks *stops* the peeling (no chunk meets it in exactly one block). `FountainDecoder` is
the code's block graph, and `KeepsPromise` says that it implements `ImageDecoder`
(`Promise == INSTANCE ImageDecoder WITH image <- ...`).

| TLA+ | code |
|---|---|
| `blocks`, `code`, `intact`, `left` | the argument of `decode`: number of source blocks, the blocks each chunk's seed selects, the chunks that parse and match their hash, those not looked at |
| `edges`, `residue` | `src_nodes` and `check` of a chunk's check node |
| `known`, `value`, `pending` | `eliminated` and `to_eliminate` |
| `adding` | the chunk that is passed the blocks resolved before it |
| `SkipDamaged`, `AddSingle`, `AddBlock`, `PassMessage`, `ResolveAdded`, `AttachAdded`, `Eliminate`, `FinishDecoding` | one iteration of one loop of `decode`, `add_block` or `eliminate` each |

Data is symbolic: a chunk holds the *set* of source blocks whose XOR it is, and XOR is the
symmetric difference. A wrong or missing message shows up as a wrong set. The order of
chunks, of sets and of the list is a choice everywhere, which covers the order of the code.

`Effort` measures the work a call has left: chunks not looked at, links between blocks and
checks, blocks on the list, the chunk being added. `DecodingShrinks` says that every step of
a running call makes it smaller, although `Eliminate` may put several blocks on the list at
once; `DecodingEnds` is the same promise as a liveness property.

### `LubyEncoder` and `TicketModel`: pure operators

`LubyEncoder` has the generator (`States`, `Degree`, `Draw`), `EncodeNew` (without seeds)
and `EncodeAgain` (with the seeds of a ticket), `VerifyBlocks`, and `DecodedLength`. Modulus,
multiplier and degree distribution are constants; degrees are compared in integers. A zero
seed is no seed, as in `if seed:`. `get_src_blocks` draws until it has enough different
blocks, a loop that ends because the generator has its full period: `GeneratorAssumption`
says so of the constants (16807 is a primitive root of the prime 2^31 - 1, the values in
`luby.py`; TLC evaluates it for the modulus of the run).

`TicketModel` has the fields of `ImageData`,
`RegistrationTicket` and `Signature` with their validators: a value is its type, its size
and, for a list, its elements. `Builds` is what the constructor accepts.

### `Artwork`: one artwork, end to end

It extends the three modules above. The wallet drafts an image (`DraftImage`, `CheckImage`
after a run of the decoder, `MakeTicket`), a masternode accepts or rejects the ticket
(`AcceptTicket`), MN0 encodes again (`PlaceImage`, like that of `ChunkStore` the body of a
handler that is called from outside only), a serving node creates rows from the
ticket one by one (`ActivateRow`), and is asked for the image at any time, with any files
damaged and one missing (`Download`, `RunDecoder`, `AnswerDownload`).

Abstractions: a digest is the chunk itself (no collisions); the picture is a picture or not;
pastelid and signature are right in size; a serving node has all files of placed chunks but
the missing and the damaged ones (how files come is `ChunkStore`'s subject).

### `RpcTransport`: one remote call

Pure operators for a message with receiver and time (`Packet`), its reception
(`Reconstruct`), the server (`Process`) and the client (`Receive`). Clocks differ by
`Skew`, messages take `Delays`, the limit of 60 seconds is `Window`.

### `Gallery`: artworks, sales and downloads in the wallet

| TLA+ | code |
|---|---|
| `table`, `artwork`, `sellRows`, `file` | the wallet's tables `masternode`, `artwork`, `sellticket`, and its thumbnail files |
| `activated`, `mined`, `sales` | what the cNode's lists and searches of tickets answer |
| `call[c]` | handlers of `/artworks_data` with their local variables: tickets still to fetch, the current one, whom it waits for, the masternodes left to try, the thumbnail |
| `seller`, `download` | handlers of `/create_sell_ticket` and `/download_image` |
| `busy` | the handler in the middle of synchronous code, where only a kill can come between |
| `shown`, `promised` | the last list answered; sales answered without an error (history) |
| `BeginCall`, `AskFirst`, `BrokenTicket`, `FirstAnswer`, `AskRecommended`, `RecommendedAnswer`, `NoneLeft`, `OpenThumbnail`, `WriteThumbnail`, `CreateArtwork`, `ListArtworks`, `SaleUnknown` | `get_artworks_data`, await by await and write by write |
| `CancelCall` | aiohttp 3.5.4 cancels the handler of a client that is gone; while the recommended masternodes are asked the cancellation is swallowed by `except Exception` |
| `Sell`, `CnodeRegisters`, `CnodeRefuses`, `CnodeDisconnects`, `CnodeAnswers`, `SaveSale` | `register_sell_ticket` over a JSON-RPC call that is repeated (a request with the `image_hash` that `wallet/http_server.py:123` expects is a TypeError and changes nothing) |
| `BeginDownload`, `AskForImage`, `ImageNotFound` | `download_image` |
| `RefreshMasternodes`, `Crash` | the periodic refresh, which only adds; a kill, after which the start empties the masternode table |

`Outcomes` composes `Gallery` with `RpcTransport`: the host at a masternode's address may be
any masternode. A call and its answer are one step where the handler reads nothing others
write. `MaxSales` and `MaxCrashes` are the only bounds. `mined` has sell tickets of anyone, as
`find_ticket('sell', ...)` finds them: of a sale shown from the blockchain nothing is claimed,
`OfferBacked` is about the wallet's own record.

## 3. The runs

Two workers; every run ends within three minutes.

| run | configuration | states | shows |
|---|---|---|---|
| `index_safe` | 2 chunks with opposite orders, 3 masternodes, replication 2, 2 crashes | 997,824 | `TypeOK`, `DistancesComplete`, `RankingIsCurrent`, `OwnersAreNearest`, `KeepsDirectory` |
| `index_live` | 2 chunks, 2 masternodes, 1 crash | 18,847 | `EventuallyMeasured`, `EventuallyListed` |
| `index_owners` | as `index_safe`, no crash | | violation of `EnoughOwners` |
| `index_clash` | 1 chunk, 3 masternodes, two with one address | | violation of `EventuallyListed` |
| `store_safe` | 2 chunks of one ticket, 1 placement, 1 crash, 2 attempts | 3,495,284 | `TypeOK`, `StoredHasFile`, `DamageOnlyByCrash`, `ProcessedTicketKnown`, `ConfirmedIsPublished`, `MoveKeepsChunk` (of complete temporary files), `KeepsChunks` |
| `store_live` | 1 chunk of two tickets, 2 placements, 1 crash | 34,790 | `TempDrained` |
| `store_confirm` | 1 chunk, 1 ticket, 1 placement, no crash | | violation of `ConfirmationsKept` |
| `reg_safe` | 2 attempts, 3 masternodes, 2 blocks with different orders, 1 fault, 2 outside confirmers at one node | 955,288 | `TypeOK`, `UploadedBeforeBurn`, `MN0Vouches`, `OneTicketPerNode` |
| `reg_passed` | 1 attempt, no fault | | violation of `PassedIsAnswered` |
| `artwork_safe` | 3 source blocks, 6 chunks, 8 lengths, 7 seeds modulo 31 | 46,532 | `ArtTypeOK`, `DecodesExactly`, `PlacedMatchesTicket`, `ServedIsImage`, `FullSetServes`, `KeepsPromise`, `DecodingShrinks`, `DecodingEnds` |
| `gallery_safe` | 1 artwork and 1 broken ticket, 2 masternodes, 2 lists at once, 2 sell tickets, 1 crash | 425,090 | `GalleryTypeOK`, `RowHasThumbnail`, `OfferBacked`, `AnsweredByAsked`, `DownloadVerdict`, `ListComplete`, `SalesShown`, `ThumbnailFinal`, `CallsAnswered` |
| `gallery_broken` | the same tickets, 1 list, no crash | | violation of `BrokenTicketStored` |

### Why these bounds

- *ChunkIndex.* A wrong owner needs two masternodes that one chunk orders one way and
  another chunk the other way, and a third outside the two ranks. Repeated rows need one
  refresh in the window before indexing, and a crash in a batch; two crashes allow a crash
  in the recovery from a crash. `index_live` needs a masternode besides the node itself
  and one crash.
- *ChunkStore.* Bodies handle chunks one after another, so two chunks give a "done" and a
  "not yet done" one at each crash; two attempts with `RetryPoints = {0}` make one attempt
  that asks and one that only counts, and the cut-off after them; `Parallelism = 2` lets
  two coroutines run at once, and a coroutine left behind meet a new one for the same
  chunk. `FetchRaises` leaves at most one coroutine behind per chunk.
- *Registration.* Two attempts are needed for rows to be mixed up and for a second ticket;
  two blocks for MN0 to change between the ticket and the upload; `MaxDistance = 0` makes
  a ticket late within one block. Node n2 takes two rows of the image, so step 3 is
  run twice altogether (two attempts, or one and its retry); n0 and n1 take three, the case
  in which the look-up takes the last row. One fault makes every retry possible. Confirmations
  come to n0, which is MN0 of one block and MN1 of the other; two confirmers are what a row
  takes. Attempts are symmetric, and so are confirmers; masternodes are not (`Top` tells them
  apart).

- *Artwork.* Three source blocks are the least with degrees 1, 2 and 3, so with checks that
  cascade; twice as many chunks as blocks give spare ones, and every set of them may be
  damaged. The lengths are one byte, a block less one, a full block, one more, and so on to
  the largest image, whose chunks are more than a ticket may have. Modulo 31 and with
  multiplier 3 the generator has its full period, and seven first seeds give sets that
  decode and sets that do not, and zero. The form's texts are at their limit and beyond.
- *Gallery.* Two calls are needed to overwrite each other's files and rows; one ticket and a
  broken one make lists that succeed before the broken one is activated and none after it.
  Two masternodes with opposite roles in the ranking, a window of two and a clock one ahead
  put a message inside, at and outside the window. Two sell tickets are a repeated call.

Deadlock is not checked (`CHECK_DEADLOCK FALSE`) in any run: with every ticket processed,
every file moved and the bounds of the environment used up, the system has nothing to do
until the next ticket comes. A registration ends; an artwork ends refused, rejected, lost
or served; a gallery with its calls answered waits for the next one.

### Fairness

- `ChunkIndex!Spec`: weak fairness of the steps of a body that has begun (synchronous
  code runs on unless it is killed) and of `IndexNewChunks` (a task that wakes every
  second; the event loop serves ready callbacks in turn). `EventuallyListed` is about
  `ReportedSpec`, which adds that the cNode reports `Reported` again and again when the
  loop is free (strong fairness, since other bodies take the loop in between;
  `masternodes_refresh_task` asks once a second). Fetches and crashes are not fair.
- `ChunkStore!Spec`: weak fairness of a begun body, and for every chunk strong fairness of
  removing or moving its temporary file: the task scans the *whole* directory every five
  seconds, whatever else uses the loop between scans. Peers, tickets and the fetcher are not fair.
- `Registration!Spec` states no fairness; no liveness is claimed of it: a TXID_10 handler
  whose burn transaction never appears sleeps for ever.
- `Artwork!ArtSpec`: weak fairness of the decoder's steps, since `decode` has no await.
- `Gallery!Spec`: weak fairness of the steps a list takes in its synchronous body
  (`BodyStep`), which holds the event loop and may call the cNode beside the wallet. Nothing
  is assumed of a masternode, because the client limits the time to connect and not the time
  to answer (`core_modules/rpc_client.py:57`), nor of the cNode's answer to a sale, which
  stops the whole loop until it comes. `CallsAnswered` therefore says that a list ends, or
  waits for one silent masternode without end; with each answer it gets nearer to its end.

### Findings

1. *Repeated distances* (`index_owners`, `pynode/tasks.py:91`). A refresh measures chunks
   that are not indexed yet, and the indexer measures them again; `row_number()` then
   gives one masternode two ranks and a chunk has fewer than `REPLICATION_FACTOR` owners.
2. *An address clash blocks the list* (`index_clash`, `pynode/tasks.py:59`). One multi-row
   INSERT, a unique `ext_address` and masternodes that are never removed: one clash keeps
   every new masternode out, each second again.
3. *A confirmation is lost* (`store_confirm`, `pynode/tasks.py:382`). The fetcher saves all
   columns of a row it read before the ticket was activated.
4. *A validation that passed is answered with an error* (`reg_passed`,
   `core_modules/masternode_ticketing.py:235`). MN1 and MN2 check the burned fee and the image,
   and then call `generate_signed_ticket(regticket)` without its first argument. They never
   confirm to MN0; no registration completes, and the fee is burned each time the user tries.
5. *A broken ticket is not recorded* (`gallery_broken`, `wallet/pastel_client.py:182`). The row
   with height -1 that is to keep a ticket from being read again leaves out columns that are
   NOT NULL; the INSERT raises, and every list fails from then on. `ListComplete` holds of the
   lists that are given, and leaves broken tickets out.

What the runs show beside these and is a finding in no document: a torn temporary file moved
over a complete persistent one (`MoveKeepsChunk` leaves it out, §2); a masternode known by a
refresh that was killed before it was measured is never measured for indexed chunks
(`cutShort`, left out of `DistancesComplete`); a kill between DELETE and INSERT of the ranking
leaves it empty until the next change (`ranksDue`); MN0 saves a row it read before it slept
and erases confirmations received meanwhile (`core_modules/masternode_ticketing.py:75`).

In spite of 3 to 5 the safety invariants of the passing runs hold: a stale save breaks
none of `StoredHasFile`, `MN0Vouches`, `OneTicketPerNode`.

## 4. The proofs

All are in modules of their own (`...Proofs.tla`), for every value of the constants that
satisfies the module's assumption, any number of chunks, tickets, nodes and crashes. Every
invariant and every action property that a passing run checks is proved, and so are the
three refinements.

| module | theorem | states |
|---|---|---|
| `ChunkIndexProofs` | `TypeCorrect` | types of `ChunkIndex` |
| | `IndexedIsMeasured` | `DistancesComplete` |
| | `RankingFollowsDistances` | `RankingIsCurrent` |
| | `OwnersAreTheNearest` | `OwnersAreNearest` |
| | `DirectoryImplements` | `KeepsDirectory`: `ChunkIndex` implements `OwnerDirectory` |
| `ChunkStoreProofs` | `TypeCorrect` | types and control of `ChunkStore` |
| | `StoredChunkHasFile` | `StoredHasFile` |
| | `DamageComesFromCrash` | `DamageOnlyByCrash` |
| | `MoveKeepsWholeChunk` | `MoveKeepsChunk`, an action property, about complete temporary files |
| | `ProcessedTicketHasRows` | `ProcessedTicketKnown` |
| | `ConfirmedHasTicket` | `ConfirmedIsPublished` |
| | `StoreImplements` | `KeepsChunks`: `ChunkStore` implements `ChunkKeeper` |
| `RegistrationProofs` | `TypeCorrect` | types and control of `Registration` |
| | `BurnedAfterUploads` | `UploadedBeforeBurn` |
| | `ValidIsPaid` | `MN0Vouches` |
| | `RegisteredOnce` | `OneTicketPerNode` |
| `FountainDecoderProofs` | `DecoderInvariant`, `DecoderTypeCorrect` | the invariant and the types of `FountainDecoder` |
| | `DecodingIsExact` | `DecodesExactly` |
| | `DecoderImplements` | `KeepsPromise`: `FountainDecoder` implements `ImageDecoder` |
| | `DecodingTerminates` | `DecodingShrinks`, an action property |
| `LubyEncoderProofs` | `SeedSelectsDegree` | a seed's draws end, with as many different blocks of the image as its degree |
| | `SeedsGiveTheChunks` | encoding again with the seeds of the chunks gives the chunks |
| | `ChunksCarryTheImage` | a chunk carries blocks of the image, as many as its own seed's degree |
| `ArtworkProofs` | `ArtworkRunsDecoder` | `Artwork` implements `DecoderSpec` |
| | `ArtworkDecodesExactly` | `DecodesExactly`, `KeepsPromise` and `DecodingShrinks` in `Artwork` |
| | `ArtTypeCorrect` | `ArtTypeOK` |
| | `PlacedChunksMatch` | `PlacedMatchesTicket` |
| | `ServedImageIsOriginal` | `ServedIsImage` |
| | `FullSetIsServed` | `FullSetServes` |
| `GalleryProofs` | `RoundTripBound` | two accepted messages take less than twice the window together |
| | `GalleryInvariant`, `GalleryTypeCorrect` | the invariant and the types of `Gallery` |
| | `RowsHaveThumbnails`, `OffersAreBacked`, `AnswersAreByTheAsked` | `RowHasThumbnail`, `OfferBacked`, `AnsweredByAsked` |
| | `DownloadVerdictHolds`, `ListsAreComplete`, `SalesAreShown`, `ThumbnailsAreFinal` | the action properties `DownloadVerdict`, `ListComplete`, `SalesShown`, `ThumbnailFinal` |

The arguments:

- *ChunkIndex* (`IndexInv`). `DistancesComplete` alone is not inductive: a chunk becomes
  indexed by the batch of the indexer, or by a stale save. `CompleteInv` states it for
  every chunk that *will count* as indexed: those of the batch, and those a coroutine has
  read as indexed. `SectionInv` says which pairs may be pending: a refresh pairs its
  masternodes with *every* chunk, so a batch that is overtaken loses nothing.
  `OwnersAreNearest` follows from complete distances, a current ranking and
  `RankingPicksTheNearest`, a lemma about the query alone: the rows before a masternode are
  counted, a nearer one with a row has strictly fewer before it, and among finitely many
  there is a nearest, with none. `DirectoryImplements` uses the same lemma for the chunks
  that are not indexed too, and `PickedFit`: a masternode that is picked has a first rank of
  its own, so that at most `ReplicationFactor` are.
- *ChunkStore* (`FileInv`). `StoredHasFile` strengthened to the rows held by coroutines
  (a stale row that says `stored` is harmless only because files never disappear from
  under it), and to what the body in progress has written: a temporary file is removed
  only after the persistent one exists. `DamageInv` says which file may be torn at which
  step. `MoveKeepsChunk` follows from `FileInv` and `CopyInv`: before the temporary file is
  unlinked, the persistent one is a copy of it. `AnnouncedInv` extends `ConfirmedIsPublished` to
  the rows held by coroutines and to the chunks an activation has yet to confirm. Both
  together give `StoreImplements`: whatever row is written, the invariants hold the file and
  the ticket behind it (`NoteSeen`), and the temporary file a move removes has its copy.
- *Registration* (`HeldInv`, `ValidRows`, `ChainInv`). `HeldInv` says what the three
  masternodes hold of an attempt as long as the wallet counts on it: at MN0 the row of the
  upload code, with image and fee, and at MN1 and MN2 a row with the image from the upload to
  the burning on. It survives stale saves because the row a handler of MN0 holds agrees with
  the row in the table (`Same`) but for the confirmations and the validity; rows are only
  appended to or changed in other columns (`RowsKeep`). `ValidRows` adds that only a paid
  attempt has a valid row, also in a handler's copy. `OneTicketPerNode` rests on the unique
  row of the thumbnail: who wrote a ticket has placed the image, and `CanPlace` refuses to
  place it again; who confirms, and how often, does not matter.
- *FountainDecoder* (`DecoderInv`). The data of a check is the XOR of exactly the blocks it
  still has, and pending data is a block of its own, so each resolved block is the encoded
  one. Success gives the other half of `DecodesExactly`: a set of blocks that stops the
  peeling has no known or pending block, because the first of them would need a chunk that
  meets the set in one block. Failure: with nothing left and nothing pending, the unknown
  blocks are such a set. The proof is about every number of blocks and chunks, every code
  and every order. `DecoderSpec` takes any arguments for a call, those of `Artwork` included.
  That a call ends (`DecodingTerminates`) is shown by the measure `Effort`: a chunk weighs more
  than the links it can bring, and a link, when removed, more than the block it may put on
  the list.
- *LubyEncoder*. Its functions are recursive over Nat, and what they compute is proved by
  induction, stated over the *set* of numbers for which it holds (`InductionOnNat`, from the
  well-foundedness of Nat), since a rule with an operator as parameter cannot be instantiated
  here. `FullExists` is the loop of `get_src_blocks`: with full period the residues fill up,
  and they grow by at most one per draw, so there is a draw at which they are as many as the
  degree. `SeedsGiveTheChunks` follows since a chunk records the state it was drawn from.
- *Artwork* (`DraftInv`, `CheckedInv`). `DraftInv` says what the wallet drafted, what the
  ticket says and what MN0 placed, and that these agree; it gives `PlacedMatchesTicket` by
  `SeedsGiveTheChunks`. It also shows that the decoder is only started with chunks of one
  image, so `ArtSpec => DecoderSpec`, and all that is proved of the decoder holds here.
  `CheckedInv` then carries the outcome of the wallet's own decoding to the node's: no set of
  blocks stops the peeling of *all* chunks (`Recoverable`), so a node with all of them
  decodes, and whatever is decoded is the image.
- *Gallery* (`GalleryInv`). `CallInv` says what a handler's local variables mean although
  others ran while it waited: what was due is a row or still to do, the ticket in hand is
  not broken, before the row is created the file exists. Rows never disappear, so a stale
  list of tickets to fetch does no more than fetch one again. `AcceptedAnswer` shows that
  whatever comes back is an exception or the asked host's own answer; no clock enters.
  `SaleInv` orders cNode, row and promise: a row is written after the cNode has answered.

The assumptions are those of the constants: types; finitely many masternodes with distinct
distances to a chunk; a positive replication factor; tickets with at least one chunk; three
different masternodes in the list of each block; finitely many source blocks and chunks; a
generator of full period (`GeneratorAssumption`); and images with fewer source blocks than the
modulus: `core_modules/settings.py:87` allows images of about a hundred blocks, and the modulus of
`luby.py` is 2^31 - 1.

Only model-checked: the liveness properties (`EventuallyMeasured`, `EventuallyListed`,
`TempDrained`, `DecodingEnds`, `CallsAnswered`). They rest on fairness and so on ENABLED,
which are out of the prover's reach; for `DecodingEnds` the measure that makes it true is
proved (`DecodingTerminates`). The properties of the five runs that expect a violation are
refuted by TLC's counterexamples.

## 5. Plan

Done, in the order of what the system stands on: who owns a chunk (`ChunkIndex`), whether
a node keeps it (`ChunkStore`), how it gets in (`Registration`), what it holds (`Artwork`
over `FountainDecoder`, `LubyEncoder` and `TicketModel`), and how people see it (`Gallery`
over `RpcTransport`).

Next, in this order:

1. Lemmas about `RpcTransport` that `Registration` could use: which messages `Reconstruct`
   lets through, and what a caller may conclude from an answer.
2. Several nodes: a MN0 that placed an image and does not own its chunks is never asked by
   the others (`pynode/tasks.py:327`). `OwnerDirectory` and `ChunkKeeper` are small enough to
   be composed, one of each per node.

## 6. Not modelled

- Settings, logging and helpers have no behaviour of their own; the settings that matter
  are CONSTANTS.
- Numerical code around trained networks (NSFW, duplicate detection) gives verdicts, which
  are choices. So is whether a real degree distribution lets most sets of chunks decode.
- The format of an RPC container and the size limit of a message: hosts of this code send
  well-formed containers. With the limit equal to `IMAGE_MAX_SIZE` the largest images are
  refused. Signatures of messages are made, and `verify` is called by nobody.
- PING and SQL requests and the synchronous RPC client, used for debugging.
- `register_buy_ticket`, which passes a call on; `cancel` of a registration.
- The cNode itself: what its lists answer is a choice of the environment.
- Deployment scripts and demos are not part of the running system, but for the kill of a
  pynode.
- The order of the decimal strings of distances (`pynode/tasks.py:112`), and
  `utils/mn_ordering.py:16` with exactly three workers.
