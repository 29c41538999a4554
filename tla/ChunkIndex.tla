----------------------------- MODULE ChunkIndex -----------------------------
(***************************************************************************)
(* The owner directory of one pynode: which masternodes are expected to    *)
(* store which chunk.  Five SQLite tables are involved; the tasks          *)
(* masternodes_refresh_task and index_new_chunks_task of pynode/tasks.py   *)
(* fill them.                                                              *)
(*                                                                         *)
(* Every task body is synchronous: while one runs, no other callback of    *)
(* the event loop does.  Each statement is committed on its own, so a      *)
(* killed process can leave the tables between any two of them.  `section' *)
(* is the synchronous body in progress, a step of it is one SQL statement, *)
(* and Crash may fall between any two steps.  Only the chunk fetcher keeps *)
(* a row across an await; the part of it that matters here is the stale    *)
(* `indexed' column it writes back.                                        *)
(***************************************************************************)
EXTENDS Integers, FiniteSets

CONSTANTS
    Chunks,              \* chunk ids that may ever enter the Chunk table
    Masternodes,         \* PastelIDs the cNode may ever report
    Self,                \* PastelID of this pynode
    ReplicationFactor,   \* Settings.REPLICATION_FACTOR
    Key,                 \* Key[c][m]: place of the distance text in `order by'
    Addr,                \* ext_address the cNode reports for a PastelID
    Reported,            \* masternodes the cNode goes on reporting
    MaxCrashes           \* bound: how often the process is killed

ASSUME IndexAssumption ==
    /\ IsFiniteSet(Masternodes)
    /\ Self \in Masternodes
    /\ Reported \subseteq Masternodes
    /\ ReplicationFactor \in Nat \ {0}
    /\ Key \in [Chunks -> [Masternodes -> Nat]]
    /\ \A c \in Chunks : \A m, n \in Masternodes :
          Key[c][m] = Key[c][n] => m = n       \* XOR with distinct digests
    /\ MaxCrashes \in Nat

VARIABLES
    masternode,   \* PastelIDs in the Masternode table
    chunk,        \* chunk ids in the Chunk table
    indexed,      \* those with Chunk.indexed = True
    distance,     \* rows per (chunk, masternode) in ChunkMnDistance
    ranked,       \* rows <<chunk, masternode, rank>> of ChunkMnRanked
    section,      \* the synchronous body in progress
    batch,        \* chunk_qs of index_new_chunks
    todo,         \* (chunk, masternode) pairs still to be inserted
    copy,         \* `indexed' as read by the coroutine fetching the chunk
    crashes,      \* how often the process was killed
    cutShort,     \* history: masternodes whose refresh a crash interrupted
    ranksDue      \* history: a crash interrupted a body; no ranking since

vars == <<masternode, chunk, indexed, distance, ranked, section, batch, todo,
          copy, crashes, cutShort, ranksDue>>

tables  == <<masternode, chunk, indexed, distance, ranked>>
history == <<crashes, cutShort, ranksDue>>

Sections == {"idle", "refresh", "index", "delete", "insert"}
Copies   == {"none", "not_indexed", "indexed"}

(***************************************************************************)
(* A pair is only ever counted up to ReplicationFactor rows: more copies   *)
(* of a row cannot change which rows have rank <= ReplicationFactor.       *)
(***************************************************************************)
RowCount == 0 .. ReplicationFactor

AddRow(d, c, m) ==
    [d EXCEPT ![c][m] = IF @ < ReplicationFactor THEN @ + 1 ELSE @]

(* The rows of chunk c, counted as pairs of a masternode and a number. *)
RowsOf(d, c) ==
    {row \in Masternodes \X (1 .. ReplicationFactor) : row[2] <= d[c][row[1]]}

(* Mutant of RowsBefore: `order by distance desc'. *)
RowsBeforeDescending(d, c, m) ==
    Cardinality({row \in RowsOf(d, c) : Key[c][row[1]] > Key[c][m]})

(***************************************************************************)
(* row_number() over (partition by chunk_id order by distance): the k rows *)
(* of one masternode take k consecutive numbers after all nearer rows.     *)
(* The query keeps the numbers up to ReplicationFactor.                    *)
(***************************************************************************)
RowsBefore(d, c, m) ==
    Cardinality({row \in RowsOf(d, c) : Key[c][row[1]] < Key[c][m]})

(* Mutant of Ranking: one rank too many is kept. *)
RankingOneMore(d) ==
    {row \in Chunks \X Masternodes \X (1 .. ReplicationFactor + 1) :
        \E k \in 1 .. d[row[1]][row[2]] :
            row[3] = RowsBefore(d, row[1], row[2]) + k}

Ranking(d) ==
    {row \in Chunks \X Masternodes \X (1 .. ReplicationFactor) :
        \E k \in 1 .. d[row[1]][row[2]] :
            row[3] = RowsBefore(d, row[1], row[2]) + k}

(* get_chunk_owners(c) *)
Owners(c) == {m \in Masternodes :
                 \E r \in 1 .. ReplicationFactor : <<c, m, r>> \in ranked}

(* ext_address is unique: one clash makes the whole INSERT fail *)
AddressesFree(added) ==
    \A m \in added : \A n \in (masternode \cup added) \ {m} : Addr[m] # Addr[n]

-----------------------------------------------------------------------------
Init ==
    /\ masternode = {} /\ chunk = {} /\ indexed = {} /\ ranked = {}
    /\ distance = [c \in Chunks |-> [m \in Masternodes |-> 0]]
    /\ section = "idle" /\ batch = {} /\ todo = {}
    /\ copy = [c \in Chunks |-> "none"]
    /\ crashes = 0 /\ cutShort = {} /\ ranksDue = FALSE

(***************************************************************************)
(* A new row of the Chunk table, written by the activation ticket task or  *)
(* by the confirmation handler of MN0.                                     *)
(***************************************************************************)
CreateChunk(c) ==
    /\ section = "idle"
    /\ c \notin chunk
    /\ chunk' = chunk \cup {c}
    /\ UNCHANGED <<masternode, indexed, distance, ranked, section, batch, todo,
                   copy, history>>

(* Mutant of RefreshMasternodes: only chunks that are not indexed are measured. *)
RefreshSkipsIndexed(fresh) ==
    LET added == fresh \ masternode
    IN  /\ section = "idle"
        /\ added # {}
        /\ AddressesFree(added)
        /\ masternode' = masternode \cup added
        /\ todo' = (chunk \ indexed) \X added
        /\ section' = "refresh"
        /\ UNCHANGED <<chunk, indexed, distance, ranked, batch, copy, history>>

(* Mutant of RefreshMasternodes: the list is only read into an empty table. *)
RefreshOnlyOnce(fresh) ==
    LET added == fresh \ masternode
    IN  /\ section = "idle"
        /\ masternode = {}
        /\ added # {}
        /\ AddressesFree(added)
        /\ masternode' = masternode \cup added
        /\ todo' = chunk \X added
        /\ section' = "refresh"
        /\ UNCHANGED <<chunk, indexed, distance, ranked, batch, copy, history>>

(***************************************************************************)
(* refresh_masternode_list up to the INSERT of update_masternode_list: the *)
(* cNode reports `fresh', masternodes it no longer reports stay.  With a   *)
(* clash of addresses the INSERT raises and nothing has happened.          *)
(***************************************************************************)
RefreshMasternodes(fresh) ==
    LET added == fresh \ masternode
    IN  /\ section = "idle"
        /\ added # {}
        /\ AddressesFree(added)
        /\ masternode' = masternode \cup added
        /\ todo' = chunk \X added
        /\ section' = "refresh"
        /\ UNCHANGED <<chunk, indexed, distance, ranked, batch, copy, history>>

(* Mutant of IndexNewChunks: only the distance to this node is calculated. *)
IndexOwnDistance ==
    /\ section = "idle"
    /\ chunk \ indexed # {}
    /\ batch' = chunk \ indexed
    /\ todo' = (chunk \ indexed) \X (masternode \cap {Self})
    /\ section' = "index"
    /\ UNCHANGED <<tables, copy, history>>

(***************************************************************************)
(* index_new_chunks: select the chunks that are not indexed and pair each  *)
(* of them with every known masternode.                                    *)
(***************************************************************************)
IndexNewChunks ==
    /\ section = "idle"
    /\ chunk \ indexed # {}
    /\ batch' = chunk \ indexed
    /\ todo' = (chunk \ indexed) \X masternode
    /\ section' = "index"
    /\ UNCHANGED <<tables, copy, history>>

(***************************************************************************)
(* One ChunkMnDistance.create of either body.  The outer loop of a refresh *)
(* runs over masternodes, that of index_new_chunks over chunks; a begun    *)
(* element of the outer loop is finished first, the rest of the order is   *)
(* the database's.                                                         *)
(***************************************************************************)
Begun(p) == IF section = "refresh" THEN ~(chunk \X {p[2]} \subseteq todo)
                                   ELSE ~({p[1]} \X masternode \subseteq todo)

InsertDistance ==
    /\ \E p \in todo :
          /\ Begun(p) \/ \A q \in todo : ~Begun(q)
          /\ todo' = todo \ {p}
          /\ distance' = AddRow(distance, p[1], p[2])
    /\ UNCHANGED <<masternode, chunk, indexed, ranked, section, batch, copy,
                   history>>

(* The refresh has no rows left and calls for the new ranking. *)
RefreshMeasured ==
    /\ section = "refresh"
    /\ todo = {}
    /\ section' = "delete"
    /\ UNCHANGED <<tables, batch, todo, copy, history>>

(* Mutant of MarkIndexed: the ranking is not recalculated afterwards. *)
MarkWithoutRanking ==
    /\ section = "index"
    /\ todo = {}
    /\ indexed' = indexed \cup batch
    /\ batch' = {}
    /\ section' = "idle"
    /\ UNCHANGED <<masternode, chunk, distance, ranked, todo, copy, history>>

(* Chunk.bulk_update: one statement marks the whole batch. *)
MarkIndexed ==
    /\ section = "index"
    /\ todo = {}
    /\ indexed' = indexed \cup batch
    /\ batch' = {}
    /\ section' = "delete"
    /\ UNCHANGED <<masternode, chunk, distance, ranked, todo, copy, history>>

(* Mutant of DeleteRanking: the old rows are not deleted. *)
DeleteNothing ==
    /\ section = "delete"
    /\ section' = "insert"
    /\ UNCHANGED <<tables, batch, todo, copy, history>>

(* recalculate_mn_chunk_ranking_table, first statement *)
DeleteRanking ==
    /\ section = "delete"
    /\ ranked' = {}
    /\ section' = "insert"
    /\ UNCHANGED <<masternode, chunk, indexed, distance, batch, todo, copy,
                   history>>

(* recalculate_mn_chunk_ranking_table, second statement *)
InsertRanking ==
    /\ section = "insert"
    /\ ranked' = ranked \cup Ranking(distance)
    /\ section' = "idle"
    /\ ranksDue' = FALSE
    /\ UNCHANGED <<masternode, chunk, indexed, distance, batch, todo, copy,
                   crashes, cutShort>>

(***************************************************************************)
(* The fetcher reads the row of a chunk this node owns, waits for the      *)
(* peers, and then saves every column of the row it read.                  *)
(***************************************************************************)
FetchRead(c) ==
    /\ section = "idle"
    /\ c \in chunk
    /\ copy[c] = "none"
    /\ Self \in Owners(c)
    /\ copy' = [copy EXCEPT ![c] = IF c \in indexed THEN "indexed"
                                                   ELSE "not_indexed"]
    /\ UNCHANGED <<tables, section, batch, todo, history>>

FetchSave(c) ==
    /\ section = "idle"
    /\ copy[c] # "none"
    /\ indexed' = IF copy[c] = "indexed" THEN indexed \cup {c}
                                         ELSE indexed \ {c}
    /\ copy' = [copy EXCEPT ![c] = "none"]
    /\ UNCHANGED <<masternode, chunk, distance, ranked, section, batch, todo,
                   history>>

(***************************************************************************)
(* The process is killed: the tables stay, everything in memory goes.      *)
(***************************************************************************)
Crash ==
    /\ crashes < MaxCrashes
    /\ crashes' = crashes + 1
    /\ cutShort' = IF section = "refresh" THEN cutShort \cup {p[2] : p \in todo}
                                          ELSE cutShort
    /\ ranksDue' = (ranksDue \/ section # "idle")
    /\ section' = "idle" /\ batch' = {} /\ todo' = {}
    /\ copy' = [c \in Chunks |-> "none"]
    /\ UNCHANGED tables

(* the steps of a body that has begun *)
SectionStep == \/ InsertDistance \/ RefreshMeasured \/ MarkIndexed
               \/ DeleteRanking  \/ InsertRanking

Next == \/ \E c \in Chunks : CreateChunk(c) \/ FetchRead(c) \/ FetchSave(c)
        \/ \E fresh \in SUBSET Masternodes : RefreshMasternodes(fresh)
        \/ IndexNewChunks
        \/ SectionStep
        \/ Crash

(***************************************************************************)
(* A body that has begun runs on; index_new_chunks_task wakes every second *)
(* and the event loop serves what is ready in turn.  Neither the cNode     *)
(* reporting masternodes nor a peer answering a fetch is assumed.          *)
(***************************************************************************)
Fairness == WF_vars(SectionStep) /\ WF_vars(IndexNewChunks)

Spec == Init /\ [][Next]_vars /\ Fairness

(***************************************************************************)
(* The same with a cNode that reports `Reported' again and again: the task *)
(* masternodes_refresh_task asks for the list once a second, so a refresh  *)
(* that is possible whenever the loop is free is carried out.              *)
(***************************************************************************)
ReportedSpec == Spec /\ SF_vars(RefreshMasternodes(Reported))

-----------------------------------------------------------------------------
(* The values the tables and the memory of the tasks can take. *)
TypeOK ==
    /\ masternode \subseteq Masternodes
    /\ chunk \subseteq Chunks
    /\ indexed \subseteq Chunks
    /\ distance \in [Chunks -> [Masternodes -> RowCount]]
    /\ ranked \subseteq Chunks \X Masternodes \X (1 .. ReplicationFactor)
    /\ section \in Sections
    /\ batch \subseteq Chunks
    /\ todo \subseteq Chunks \X Masternodes
    /\ copy \in [Chunks -> Copies]
    /\ crashes \in 0 .. MaxCrashes
    /\ cutShort \subseteq Masternodes
    /\ ranksDue \in BOOLEAN

(***************************************************************************)
(* `indexed' means what index_new_chunks says it does: the chunk has a     *)
(* distance to every known masternode, or the row is still to be written   *)
(* by the body in progress.  The exceptions are exactly the masternodes    *)
(* whose refresh was cut short by a crash.  Stale saves of the fetcher,    *)
(* refreshes between chunks and crashes of the other body do not break it. *)
(***************************************************************************)
DistancesComplete ==
    \A c \in indexed : \A m \in masternode \ cutShort :
        distance[c][m] > 0 \/ <<c, m>> \in todo

(***************************************************************************)
(* Between the task bodies the ranking is the one the distances give,      *)
(* unless a crash interrupted a body and no ranking has completed since:   *)
(* each body that writes distances recalculates before it ends.            *)
(***************************************************************************)
RankingIsCurrent ==
    section = "idle" /\ ~ranksDue => ranked = Ranking(distance)

(***************************************************************************)
(* The owners of an indexed chunk are the nearest masternodes: the nearest *)
(* one holds rank 1 and no masternode outside the owners is nearer than    *)
(* one inside, whatever the order in which chunks and masternodes came.    *)
(***************************************************************************)
OwnersAreNearest ==
    section = "idle" /\ ~ranksDue =>
        \A c \in indexed : \A n \in masternode \ cutShort :
            /\ \E m \in Owners(c) : <<c, m, 1>> \in ranked /\ Key[c][m] <= Key[c][n]
            /\ n \notin Owners(c) => \A m \in Owners(c) : Key[c][m] < Key[c][n]

(***************************************************************************)
(* What the fetcher is promised: each step, those of a killed and of a     *)
(* repeated body included, lists or measures masternodes, withdraws all    *)
(* owners, publishes the nearest of those measured, or changes nothing     *)
(* that get_chunk_owners and the next ranking can see.                     *)
(***************************************************************************)
Promise == INSTANCE OwnerDirectory WITH
    Limit <- ReplicationFactor,
    listed <- masternode,
    measured <- [c \in Chunks |-> {m \in Masternodes : distance[c][m] > 0}],
    owners <- [c \in Chunks |-> Owners(c)]

KeepsDirectory == Promise!Spec

(***************************************************************************)
(* A chunk in the table gets its distance to each masternode in the table, *)
(* in spite of crashes, unless the crash cut short the refresh that added  *)
(* the masternode (then nothing writes the missing rows).                  *)
(***************************************************************************)
EventuallyMeasured ==
    \A c \in Chunks : \A m \in Masternodes :
        c \in chunk /\ m \in masternode
            ~> distance[c][m] > 0 \/ m \in cutShort

(***************************************************************************)
(* update_masternode_list ("Fetch current masternode list from cNode ...   *)
(* and update database Masternode table accordingly", pynode/tasks.py:     *)
(* 29-30): under ReportedSpec every reported masternode enters the table.  *)
(***************************************************************************)
EventuallyListed == \A m \in Reported : <>(m \in masternode)

(***************************************************************************)
(* "Table for keeping top REPLICATION_FACTOR masternodes for each chunk"   *)
(* (ChunkMnRanked, core_modules/database.py:151-152): between the task     *)
(* bodies an indexed chunk has that many owners, or all there are.         *)
(***************************************************************************)
EnoughOwners ==
    section = "idle" /\ ~ranksDue /\ cutShort = {} =>
        \A c \in indexed :
            \/ Cardinality(Owners(c)) >= ReplicationFactor
            \/ masternode \subseteq Owners(c)

=============================================================================
