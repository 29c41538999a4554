----------------------------- MODULE ChunkStore -----------------------------
(***************************************************************************)
(* The life of a chunk on one pynode: the Chunk rows of its database, the  *)
(* temporary and the persistent directory, and everything that moves a     *)
(* chunk between them.                                                     *)
(*                                                                         *)
(*  - MN0 places the chunks of an accepted image in the temporary storage  *)
(*    (masternode_place_image_data_in_chunkstorage);                       *)
(*  - the ticket task creates and confirms the rows of activated tickets   *)
(*    (get_and_proccess_new_activation_tickets);                           *)
(*  - the temporary storage task moves confirmed chunks                    *)
(*    (move_confirmed_chunks_to_persistant_storage);                       *)
(*  - the fetcher asks the other owners for missing chunks;                *)
(*  - the FETCHCHUNK handler clears `stored' when it finds no file.        *)
(*                                                                         *)
(* The event loop runs one callback at a time.  `section' names the        *)
(* synchronous body in progress, and its statements and file operations    *)
(* are separate steps, because the process may be killed between any two.  *)
(* The loops of the two tasks handle their items one by one; an item is a  *)
(* section of its own here, which only adds interleavings between items.   *)
(***************************************************************************)
EXTENDS Integers, Sequences, FiniteSets

CONSTANTS
    Chunks,        \* chunk ids
    Tickets,       \* artworks: their registration and activation tickets
    TicketChunks,  \* thumbnail and luby chunks of a ticket, in order
    Parallelism,   \* Settings.CHUNK_FETCH_PARALLELISM
    MaxAttempts,   \* 1000, the limit of get_missing_chunk_ids
    RetryPoints,   \* FIBONACHI_ROW
    NoRow,         \* no row in the Chunk table
    MaxPlaced,     \* bound: how often an image is placed
    MaxCrashes     \* bound: how often the process is killed

ASSUME StoreAssumption ==
    /\ TicketChunks \in [Tickets -> Seq(Chunks) \ {<<>>}]
    /\ Parallelism \in Nat \ {0}
    /\ MaxAttempts \in Nat
    /\ RetryPoints \subseteq Nat
    /\ MaxPlaced \in Nat
    /\ MaxCrashes \in Nat
    /\ NoRow \notin [confirmed : BOOLEAN, stored : BOOLEAN, attempts : Nat]

VARIABLES
    row,        \* the Chunk table
    tmp,        \* files of the temporary storage
    pers,       \* files of the persistent storage
    published,  \* external: activation tickets on the blockchain
    processed,  \* act_ticket rows written after a ticket's chunks
    rejected,   \* act_ticket rows with height -1
    owned,      \* chunks ChunkMnRanked gives to this node
    job,        \* coroutines of fetch_chunk_and_store_it
    section,    \* the synchronous body in progress
    step,       \* where it stands with the file it writes
    todo,       \* chunks it still has to handle, the current one first
    actor,      \* the ticket or coroutine it works for
    placed,     \* how many images were placed
    crashes,    \* how often the process was killed
    cut         \* history: chunks with a write cut short by a crash

vars == <<row, tmp, pers, published, processed, rejected, owned, job, section,
          step, todo, actor, placed, crashes, cut>>

disk    == <<row, tmp, pers, processed, rejected, owned>>
body    == <<section, step, todo, actor>>
outside == <<published, placed, crashes, cut>>

Rows     == [confirmed : BOOLEAN, stored : BOOLEAN, attempts : Nat]
Files    == {"absent", "torn", "good"}
Sections == {"idle", "place", "activate", "move", "save"}
Steps    == {"open", "write", "commit"}

(***************************************************************************)
(* A fetch coroutine is queued until it has read its row; then it holds    *)
(* its copy of the row while it asks the owners.  The gather of the        *)
(* current round waits for the "gathered" ones.  When one of them raises,  *)
(* the gather ends and the others run on: they are "left".                 *)
(***************************************************************************)
Kinds == {"gathered", "left"}
Jobs  == [at : {"none", "queued", "asking"}, copy : Rows \cup {NoRow}]

NoJob     == [at |-> "none", copy |-> NoRow]
QueuedJob == [at |-> "queued", copy |-> NoRow]

Exists(c)  == row[c] # NoRow
HasFile(c) == tmp[c] # "absent" \/ pers[c] # "absent"
Good(c)    == tmp[c] = "good" \/ pers[c] = "good"
ChunksOf(t) == {TicketChunks[t][i] : i \in DOMAIN TicketChunks[t]}
Current    == Head(todo)

(* Mutant of NewRow: the counter of a new row starts below zero. *)
NewRowBelowZero(stored) == [confirmed |-> FALSE, stored |-> stored, attempts |-> -1]

NewRow(stored) == [confirmed |-> FALSE, stored |-> stored, attempts |-> 0]

NoJobs == [k \in Kinds |-> [c \in Chunks |-> NoJob]]

-----------------------------------------------------------------------------
Init ==
    /\ row = [c \in Chunks |-> NoRow]
    /\ tmp = [c \in Chunks |-> "absent"]
    /\ pers = [c \in Chunks |-> "absent"]
    /\ published = {} /\ processed = {} /\ rejected = {} /\ owned = {}
    /\ job = NoJobs
    /\ section = "idle" /\ step = "open" /\ todo = <<>> /\ actor = "none"
    /\ placed = 0 /\ crashes = 0 /\ cut = {}

Begin(name, chunks, for) ==
    /\ section = "idle"
    /\ section' = name
    /\ step' = "open"
    /\ todo' = chunks
    /\ actor' = for

Finish == /\ section' = "idle"
          /\ step' = "open"
          /\ todo' = <<>>
          /\ actor' = "none"

(* The body goes on with the next chunk, or ends after the last one. *)
Continue == IF Len(todo) > 1
              THEN /\ todo' = Tail(todo)
                   /\ step' = "open"
                   /\ UNCHANGED <<section, actor>>
              ELSE Finish

-----------------------------------------------------------------------------
(***************************************************************************)
(* ChunkStorage.put: open(.., "wb") truncates the file, the data is there  *)
(* when it is closed.  Placing writes to the temporary storage; moving and *)
(* fetching write to the persistent one, and moving copies what it read.   *)
(***************************************************************************)
OpenFile ==
    /\ section \in {"place", "move", "save"}
    /\ step = "open"
    /\ step' = "write"
    /\ IF section = "place"
         THEN tmp' = [tmp EXCEPT ![Current] = "torn"] /\ UNCHANGED pers
         ELSE pers' = [pers EXCEPT ![Current] = "torn"] /\ UNCHANGED tmp
    /\ UNCHANGED <<row, processed, rejected, owned, job, section, todo, actor,
                   outside>>

WriteFile ==
    /\ section \in {"place", "move", "save"}
    /\ step = "write"
    /\ step' = "commit"
    /\ CASE section = "place" -> tmp' = [tmp EXCEPT ![Current] = "good"]
                                 /\ UNCHANGED pers
         [] section = "move"  -> pers' = [pers EXCEPT ![Current] = tmp[Current]]
                                 /\ UNCHANGED tmp
         [] section = "save"  -> pers' = [pers EXCEPT ![Current] = "good"]
                                 /\ UNCHANGED tmp
    /\ UNCHANGED <<row, processed, rejected, owned, job, section, todo, actor,
                   outside>>

-----------------------------------------------------------------------------
(* The second confirmation of image t arrives at this node, its MN0; in    *)
(* this commit it can only come from outside the code, see Registration.   *)
PlaceImage(t) ==
    /\ placed < MaxPlaced
    /\ Begin("place", TicketChunks[t], t)
    /\ placed' = placed + 1
    /\ UNCHANGED <<disk, job, published, crashes, cut>>

(* Mutant of PlaceRow: the row of a placed chunk counts as confirmed. *)
PlaceRowConfirmed ==
    /\ section = "place"
    /\ step = "commit"
    /\ ~Exists(Current)
    /\ row' = [row EXCEPT ![Current] = [NewRow(TRUE) EXCEPT !.confirmed = TRUE]]
    /\ Continue
    /\ UNCHANGED <<tmp, pers, processed, rejected, owned, job, outside>>

(* Chunk.create_from_hash(stored=True) after the file was written *)
PlaceRow ==
    /\ section = "place"
    /\ step = "commit"
    /\ ~Exists(Current)
    /\ row' = [row EXCEPT ![Current] = NewRow(TRUE)]
    /\ Continue
    /\ UNCHANGED <<tmp, pers, processed, rejected, owned, job, outside>>

(* Mutant of PlaceRejected: the row is created while the file is open. *)
PlaceRejectedEarly ==
    /\ section = "place"
    /\ step = "write"
    /\ Exists(Current)
    /\ Finish
    /\ UNCHANGED <<disk, job, outside>>

(* chunk_id is unique: the IntegrityError ends the handler. *)
PlaceRejected ==
    /\ section = "place"
    /\ step = "commit"
    /\ Exists(Current)
    /\ Finish
    /\ UNCHANGED <<disk, job, outside>>

-----------------------------------------------------------------------------
(* external: the wallet's activation ticket enters the blockchain *)
PublishTicket(t) ==
    /\ t \notin published
    /\ published' = published \cup {t}
    /\ UNCHANGED <<disk, job, body, placed, crashes, cut>>

(* get_ticket(txid) raised: the ticket is never looked at again *)
RejectTicket(t) ==
    /\ section = "idle"
    /\ t \in published \ (processed \cup rejected)
    /\ rejected' = rejected \cup {t}
    /\ UNCHANGED <<row, tmp, pers, processed, owned, job, body, outside>>

ActivateTicket(t) ==
    /\ t \in published \ (processed \cup rejected)
    /\ Begin("activate", TicketChunks[t], t)
    /\ UNCHANGED <<disk, job, outside>>

(* a chunk this node has not heard of *)
ActivateCreates ==
    /\ section = "activate"
    /\ todo # <<>>
    /\ ~Exists(Current)
    /\ row' = [row EXCEPT ![Current] = NewRow(FALSE)]
    /\ UNCHANGED <<tmp, pers, processed, rejected, owned, job, body, outside>>

ActivateConfirms ==
    /\ section = "activate"
    /\ todo # <<>>
    /\ Exists(Current)
    /\ row' = [row EXCEPT ![Current].confirmed = TRUE]
    /\ todo' = Tail(todo)
    /\ UNCHANGED <<tmp, pers, processed, rejected, owned, job, section, step,
                   actor, outside>>

(* Mutant of ActivateRecords: the ticket is recorded before its chunks. *)
ActivateRecordsEarly ==
    /\ section = "activate"
    /\ processed' = processed \cup {actor}
    /\ Finish
    /\ UNCHANGED <<row, tmp, pers, rejected, owned, job, outside>>

ActivateRecords ==
    /\ section = "activate"
    /\ todo = <<>>
    /\ processed' = processed \cup {actor}
    /\ Finish
    /\ UNCHANGED <<row, tmp, pers, rejected, owned, job, outside>>

-----------------------------------------------------------------------------
(* Mutant of RemoveOrphan: a chunk that is not confirmed counts as orphan. *)
RemoveUnconfirmed(c) ==
    /\ section = "idle"
    /\ tmp[c] # "absent"
    /\ Exists(c) => ~row[c].confirmed
    /\ tmp' = [tmp EXCEPT ![c] = "absent"]
    /\ UNCHANGED <<row, pers, processed, rejected, owned, job, body, outside>>

(* a file of the temporary storage without a row is removed *)
RemoveOrphan(c) ==
    /\ section = "idle"
    /\ tmp[c] # "absent"
    /\ ~Exists(c)
    /\ tmp' = [tmp EXCEPT ![c] = "absent"]
    /\ UNCHANGED <<row, pers, processed, rejected, owned, job, body, outside>>

(* Mutant of MoveChunk: chunks already marked as stored are not moved. *)
MoveUnstored(c) ==
    /\ tmp[c] # "absent"
    /\ Exists(c) /\ row[c].confirmed /\ ~row[c].stored
    /\ Begin("move", <<c>>, "none")
    /\ UNCHANGED <<disk, job, outside>>

(* ChunkManager.move_to_persistant_storage *)
MoveChunk(c) ==
    /\ tmp[c] # "absent"
    /\ Exists(c) /\ row[c].confirmed
    /\ Begin("move", <<c>>, "none")
    /\ UNCHANGED <<disk, job, outside>>

(* Mutant of MoveUnlinks: the temporary file is deleted before the copy. *)
MoveUnlinksFirst ==
    /\ section = "move"
    /\ step = "open"
    /\ tmp' = [tmp EXCEPT ![Current] = "absent"]
    /\ Finish
    /\ UNCHANGED <<row, pers, processed, rejected, owned, job, outside>>

MoveUnlinks ==
    /\ section = "move"
    /\ step = "commit"
    /\ tmp' = [tmp EXCEPT ![Current] = "absent"]
    /\ Finish
    /\ UNCHANGED <<row, pers, processed, rejected, owned, job, outside>>

-----------------------------------------------------------------------------
(* get_missing_chunk_ids *)
Missing == {c \in owned : /\ Exists(c)
                          /\ ~row[c].stored
                          /\ row[c].attempts < MaxAttempts}

(***************************************************************************)
(* chunk_fetcher_task_body: a new round starts when no gather is waiting   *)
(* and takes the first Parallelism missing chunks, in the database's order *)
(***************************************************************************)
StartRound ==
    /\ section = "idle"
    /\ \A c \in Chunks : job["gathered"][c] = NoJob
    /\ \E S \in SUBSET Missing \ {{}} :
          /\ \/ S = Missing /\ Cardinality(S) <= Parallelism
             \/ Cardinality(S) = Parallelism
          /\ job' = [job EXCEPT !["gathered"] =
                        [c \in Chunks |-> IF c \in S THEN QueuedJob ELSE NoJob]]
    /\ UNCHANGED <<disk, body, outside>>

EndJob(k, c) == job' = [job EXCEPT ![k][c] = NoJob]

(* an attempt that is not in FIBONACHI_ROW is counted and skipped *)
SkipAttempt(k, c) ==
    /\ section = "idle"
    /\ job[k][c].at = "queued"
    /\ row[c].attempts \notin RetryPoints
    /\ row' = [row EXCEPT ![c].attempts = @ + 1]
    /\ EndJob(k, c)
    /\ UNCHANGED <<tmp, pers, processed, rejected, owned, body, outside>>

(* the coroutine keeps the row it read across the await *)
AskOwners(k, c) ==
    /\ section = "idle"
    /\ job[k][c].at = "queued"
    /\ row[c].attempts \in RetryPoints
    /\ job' = [job EXCEPT ![k][c] = [at |-> "asking", copy |-> row[c]]]
    /\ UNCHANGED <<disk, body, outside>>

Asking(k, c) == job[k][c].at = "asking"

(* nobody has the chunk: every column of the copy is written back *)
GiveUp(k, c) ==
    /\ section = "idle"
    /\ Asking(k, c)
    /\ row' = [row EXCEPT ![c] = [job[k][c].copy EXCEPT !.attempts = @ + 1]]
    /\ EndJob(k, c)
    /\ UNCHANGED <<tmp, pers, processed, rejected, owned, body, outside>>

(* an owner answered with data of the right digest *)
ReceiveChunk(k, c) ==
    /\ Asking(k, c)
    /\ Begin("save", <<c>>, k)
    /\ UNCHANGED <<disk, job, outside>>

SaveRow ==
    /\ section = "save"
    /\ step = "commit"
    /\ row' = [row EXCEPT ![Current] =
                  [job[actor][Current].copy EXCEPT !.stored = TRUE,
                                                   !.attempts = @ + 1]]
    /\ EndJob(actor, Current)
    /\ Finish
    /\ UNCHANGED <<tmp, pers, processed, rejected, owned, outside>>

(***************************************************************************)
(* A coroutine raises, for example on a malformed ext_address.  The gather *)
(* passes the exception on and leaves its other coroutines behind.  Bound: *)
(* one coroutine left behind per chunk.                                    *)
(***************************************************************************)
FetchRaises(c) ==
    /\ section = "idle"
    /\ Asking("gathered", c)
    /\ \A d \in Chunks \ {c} : job["gathered"][d] # NoJob => job["left"][d] = NoJob
    /\ job' = [job EXCEPT
                 !["gathered"] = [d \in Chunks |-> NoJob],
                 !["left"] = [d \in Chunks |->
                    IF d # c /\ job["gathered"][d] # NoJob THEN job["gathered"][d]
                                                           ELSE @[d]]]
    /\ UNCHANGED <<disk, body, outside>>

-----------------------------------------------------------------------------
(***************************************************************************)
(* receive_rpc_fetchchunk: a row that claims the chunk is stored while the *)
(* persistent storage has no file is corrected.  The other answers change  *)
(* nothing.                                                                *)
(***************************************************************************)
ServeChunk(c) ==
    /\ section = "idle"
    /\ Exists(c) /\ row[c].stored
    /\ pers[c] = "absent"
    /\ row' = [row EXCEPT ![c].stored = FALSE]
    /\ UNCHANGED <<tmp, pers, processed, rejected, owned, job, body, outside>>

(***************************************************************************)
(* recalculate_mn_chunk_ranking_table gives this node a chunk or takes one *)
(* away; only chunks with a row are ranked.                                *)
(***************************************************************************)
Rank(c) ==
    /\ section = "idle"
    /\ Exists(c)
    /\ owned' = IF c \in owned THEN owned \ {c} ELSE owned \cup {c}
    /\ UNCHANGED <<row, tmp, pers, processed, rejected, job, body, outside>>

(* The process is killed: the tables and the files stay. *)
Crash ==
    /\ crashes < MaxCrashes
    /\ crashes' = crashes + 1
    /\ cut' = IF step = "write" THEN cut \cup {Current} ELSE cut
    /\ job' = NoJobs
    /\ Finish
    /\ UNCHANGED <<disk, published, placed>>

Fetch(k, c) == SkipAttempt(k, c) \/ AskOwners(k, c) \/ GiveUp(k, c) \/ ReceiveChunk(k, c)

SectionStep == \/ OpenFile \/ WriteFile \/ PlaceRow \/ PlaceRejected
               \/ ActivateCreates \/ ActivateConfirms \/ ActivateRecords
               \/ MoveUnlinks \/ SaveRow

Next == \/ SectionStep
        \/ \E t \in Tickets : PlaceImage(t) \/ PublishTicket(t)
                              \/ RejectTicket(t) \/ ActivateTicket(t)
        \/ \E c \in Chunks : \/ RemoveOrphan(c) \/ MoveChunk(c)
                             \/ FetchRaises(c) \/ ServeChunk(c) \/ Rank(c)
                             \/ \E k \in Kinds : Fetch(k, c)
        \/ StartRound
        \/ Crash

(***************************************************************************)
(* A body that has begun runs on, and proccess_tmp_storage scans the whole *)
(* directory every five seconds.  Nothing is assumed of peers, tickets or  *)
(* the fetcher: an RPC may stay unanswered for ever.                       *)
(***************************************************************************)
Fairness == /\ WF_vars(SectionStep)
            /\ \A c \in Chunks : SF_vars(RemoveOrphan(c) \/ MoveChunk(c))

Spec == Init /\ [][Next]_vars /\ Fairness

-----------------------------------------------------------------------------
(* The values of the tables, the files and the memory of the tasks. *)
TypeOK ==
    /\ row \in [Chunks -> Rows \cup {NoRow}]
    /\ tmp \in [Chunks -> Files]
    /\ pers \in [Chunks -> Files]
    /\ published \subseteq Tickets
    /\ processed \subseteq Tickets
    /\ rejected \subseteq Tickets
    /\ owned \subseteq Chunks
    /\ job \in [Kinds -> [Chunks -> Jobs]]
    /\ section \in Sections
    /\ step \in Steps
    /\ todo \in Seq(Chunks)
    /\ section = "activate" => actor \in Tickets
    /\ section = "save" => actor \in Kinds
    /\ placed \in 0 .. MaxPlaced
    /\ crashes \in 0 .. MaxCrashes
    /\ cut \subseteq Chunks

(***************************************************************************)
(* `stored' is never a lie about both directories: a row that says stored  *)
(* has a file in the temporary or the persistent one, at every point of    *)
(* every body, after every crash, and whatever stale rows the fetcher      *)
(* writes back.                                                            *)
(***************************************************************************)
StoredHasFile == \A c \in Chunks : Exists(c) /\ row[c].stored => HasFile(c)

(***************************************************************************)
(* A damaged file comes from a crash during its own write: between bodies  *)
(* every other file is complete, however often it was moved or rewritten.  *)
(***************************************************************************)
DamageOnlyByCrash ==
    section = "idle" =>
        \A c \in Chunks \ cut : tmp[c] # "torn" /\ pers[c] # "torn"

(***************************************************************************)
(* An activation ticket is recorded only when each of its chunks has a     *)
(* row: a crash in the middle leaves the ticket to be processed again.     *)
(***************************************************************************)
ProcessedTicketKnown ==
    \A t \in processed : \A c \in ChunksOf(t) : Exists(c)

(***************************************************************************)
(* Art reaches the persistent storage by way of a ticket only: a confirmed *)
(* row, also one written back from a stale copy, belongs to a published    *)
(* activation ticket.                                                      *)
(***************************************************************************)
ConfirmedIsPublished ==
    \A c \in Chunks : Exists(c) /\ row[c].confirmed =>
        \E t \in published : c \in ChunksOf(t)

(***************************************************************************)
(* move_to_persistant_storage (chunkmanager.py:52-55) copies before it     *)
(* deletes: moving a complete temporary file leaves a complete copy at     *)
(* each step and wherever it is killed, also over a torn persistent file.  *)
(* It does not look at what it copies, though: a torn temporary file is    *)
(* moved over the persistent one even when that was complete, and the last *)
(* complete copy is lost.  The second conjunct leaves those moves out.     *)
(***************************************************************************)
MoveKeepsChunk ==
    [][\A c \in Chunks : /\ section = "move"
                         /\ c = Current => tmp[c] # "torn"
                         /\ Good(c)
                         => Good(c)']_vars

(***************************************************************************)
(* What the node promises, whatever is placed, fetched, moved or written   *)
(* back from a stale row, and wherever it is killed: no file of a chunk    *)
(* with a row is given up, a row appears, says stored or says confirmed    *)
(* only with a file or a ticket behind it.                                 *)
(***************************************************************************)
Promise == INSTANCE ChunkKeeper WITH
    announced <- UNION {ChunksOf(t) : t \in published},
    filed <- {c \in Chunks : HasFile(c)},
    noted <- {c \in Chunks : Exists(c)},
    stored <- {c \in Chunks : Exists(c) /\ row[c].stored},
    confirmed <- {c \in Chunks : Exists(c) /\ row[c].confirmed}

KeepsChunks == Promise!Spec

(***************************************************************************)
(* The temporary storage drains: a file whose row is confirmed, or missing *)
(* altogether, does not stay there.  (A stale save may take the            *)
(* confirmation away first; see ConfirmationsKept.)                        *)
(***************************************************************************)
Removable(c) == tmp[c] # "absent" /\ (Exists(c) => row[c].confirmed)

TempDrained == \A c \in Chunks : Removable(c) ~> ~Removable(c)

(***************************************************************************)
(* "Store chunks from these registration tickets in local DB, marking them *)
(* confirmed" (get_and_proccess_new_activation_tickets, pynode/tasks.py:   *)
(* 144): the chunks of a processed ticket are confirmed.                   *)
(***************************************************************************)
ConfirmationsKept ==
    \A t \in processed : \A c \in ChunksOf(t) : Exists(c) /\ row[c].confirmed

=============================================================================
