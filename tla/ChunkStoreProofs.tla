-------------------------- MODULE ChunkStoreProofs --------------------------
(***************************************************************************)
(* Proofs about ChunkStore for every set of chunks and tickets, every      *)
(* retry schedule and any number of crashes.                               *)
(***************************************************************************)
EXTENDS ChunkStore, TLAPS

(***************************************************************************)
(* The control of the bodies and coroutines: a body that writes a file has *)
(* a current chunk, the body that saves a fetched chunk works for a        *)
(* coroutine that has its copy, and coroutines exist for known rows only.  *)
(***************************************************************************)
ControlInv ==
    /\ section \in {"place", "move", "save"} => todo # <<>>
    /\ step # "open" => section \in {"place", "move", "save"}
    /\ section = "save" => job[actor][Current].at = "asking"
    /\ \A k \in Kinds : \A c \in Chunks :
          /\ job[k][c].at # "none" => Exists(c)
          /\ job[k][c].at = "asking" => job[k][c].copy \in Rows

(***************************************************************************)
(* StoredHasFile strengthened to the copies in memory, and to what the     *)
(* body in progress has written so far.                                    *)
(***************************************************************************)
CopiesHaveFile ==
    \A k \in Kinds : \A c \in Chunks :
        job[k][c].at = "asking" /\ job[k][c].copy.stored => HasFile(c)

BodyHasFile ==
    /\ section = "place" /\ step # "open" => tmp[Current] # "absent"
    /\ section = "move" => tmp[Current] # "absent" /\ Exists(Current)
    /\ section \in {"move", "save"} /\ step # "open" => pers[Current] # "absent"

FileInv == StoredHasFile /\ CopiesHaveFile /\ BodyHasFile

-----------------------------------------------------------------------------
(* Head and Tail of a non-empty sequence of chunks. *)
LEMMA CurrentIsChunk ==
    ASSUME NEW s \in Seq(Chunks), s # <<>>
    PROVE  Head(s) \in Chunks /\ Tail(s) \in Seq(Chunks)
OBVIOUS

(* Going on with the next chunk keeps the body well formed. *)
LEMMA ContinueFacts ==
    ASSUME TypeOK, section # "idle", todo # <<>>, Continue
    PROVE  /\ todo' \in Seq(Chunks) /\ step' = "open"
           /\ \/ section' = section /\ actor' = actor /\ todo' # <<>>
              \/ section' = "idle"
<1>1. Tail(todo) \in Seq(Chunks)
  BY CurrentIsChunk DEF TypeOK
<1>2. CASE Len(todo) > 1
  <2>1. Len(Tail(todo)) = Len(todo) - 1 /\ Len(todo) \in Nat
    BY DEF TypeOK
  <2>2. QED
    BY <1>1, <1>2, <2>1 DEF Continue
<1>3. CASE ~(Len(todo) > 1)
  BY <1>3 DEF Continue, Finish
<1>4. QED
  BY <1>2, <1>3

(* A row of the right shape is written: no row disappears. *)
LEMMA RowWritten ==
    ASSUME TypeOK, NEW c \in Chunks, NEW r \in Rows,
           row' = [row EXCEPT ![c] = r]
    PROVE  /\ row' \in [Chunks -> Rows \cup {NoRow}]
           /\ \A b \in Chunks : Exists(b) \/ b = c => Exists(b)'
<1>1. NoRow \notin Rows
  BY StoreAssumption DEF Rows
<1>2. QED
  BY <1>1 DEF TypeOK, Exists

(* Setting columns of a row gives a row. *)
LEMMA ColumnsSet ==
    ASSUME NEW r \in Rows
    PROVE  /\ [r EXCEPT !.confirmed = TRUE] \in Rows
           /\ [r EXCEPT !.stored = FALSE] \in Rows
           /\ [r EXCEPT !.attempts = @ + 1] \in Rows
           /\ [r EXCEPT !.stored = TRUE, !.attempts = @ + 1] \in Rows
<1>1. /\ r.confirmed \in BOOLEAN /\ r.stored \in BOOLEAN
      /\ r.attempts \in Nat /\ r.attempts + 1 \in Nat
  BY DEF Rows
<1>2. r = [confirmed |-> r.confirmed, stored |-> r.stored,
           attempts |-> r.attempts]
  BY DEF Rows
<1>3. QED
  BY <1>1, <1>2 DEF Rows

-----------------------------------------------------------------------------
(* The step of TypeCorrect. *)
LEMMA TypeStep ==
    TypeOK /\ ControlInv /\ [Next]_vars => TypeOK' /\ ControlInv'
<1> SUFFICES ASSUME TypeOK, ControlInv, [Next]_vars
             PROVE  TypeOK' /\ ControlInv'
  OBVIOUS
<1> USE DEF TypeOK, ControlInv, disk, body, outside, Exists, Current
<1>1. CASE OpenFile
  BY <1>1, CurrentIsChunk DEF OpenFile, Files, Steps, Current
<1>2. CASE WriteFile
  BY <1>2, CurrentIsChunk DEF WriteFile, Files, Steps, Current
<1>3. CASE PlaceRow
  BY <1>3, CurrentIsChunk, ContinueFacts
     DEF PlaceRow, Steps, Sections, Current, NewRow, Rows
<1>4. CASE PlaceRejected
  BY <1>4 DEF PlaceRejected, Finish, Steps, Sections
<1>5. CASE ActivateCreates
  BY <1>5, CurrentIsChunk DEF ActivateCreates, NewRow, Rows, Current
<1>6. CASE ActivateConfirms
  <2>1. Current \in Chunks /\ row[Current] \in Rows /\ Tail(todo) \in Seq(Chunks)
    BY <1>6, CurrentIsChunk DEF ActivateConfirms
  <2>2. row' = [row EXCEPT ![Current] = [row[Current] EXCEPT !.confirmed = TRUE]]
    BY <1>6 DEF ActivateConfirms
  <2>3. /\ row' \in [Chunks -> Rows \cup {NoRow}]
        /\ \A b \in Chunks : Exists(b) => Exists(b)'
    BY <2>1, <2>2, RowWritten, ColumnsSet
  <2>4. QED
    BY <1>6, <2>1, <2>3 DEF ActivateConfirms
<1>7. CASE ActivateRecords
  BY <1>7 DEF ActivateRecords, Finish, Steps, Sections
<1>8. CASE MoveUnlinks
  BY <1>8, CurrentIsChunk DEF MoveUnlinks, Finish, Steps, Sections, Files, Current
<1>9. CASE SaveRow
  <2> DEFINE copy == job[actor][Current].copy
  <2>1. Current \in Chunks /\ actor \in Kinds /\ copy \in Rows
    BY <1>9, CurrentIsChunk DEF SaveRow
  <2>2. row' = [row EXCEPT ![Current] =
                  [copy EXCEPT !.stored = TRUE, !.attempts = @ + 1]]
    BY <1>9 DEF SaveRow
  <2>3. /\ row' \in [Chunks -> Rows \cup {NoRow}]
        /\ \A b \in Chunks : Exists(b) => Exists(b)'
    BY <2>1, <2>2, RowWritten, ColumnsSet
  <2>4. job' = [job EXCEPT ![actor][Current] = NoJob]
    BY <1>9 DEF SaveRow, EndJob
  <2>5. QED
    BY <1>9, <2>1, <2>3, <2>4
       DEF SaveRow, Finish, Steps, Sections, Jobs, NoJob
<1>10. ASSUME NEW t \in Tickets, PlaceImage(t) PROVE TypeOK' /\ ControlInv'
  BY <1>10, StoreAssumption DEF PlaceImage, Begin, Steps, Sections
<1>11. ASSUME NEW t \in Tickets, PublishTicket(t) PROVE TypeOK' /\ ControlInv'
  BY <1>11 DEF PublishTicket
<1>12. ASSUME NEW t \in Tickets, RejectTicket(t) PROVE TypeOK' /\ ControlInv'
  BY <1>12 DEF RejectTicket
<1>13. ASSUME NEW t \in Tickets, ActivateTicket(t) PROVE TypeOK' /\ ControlInv'
  BY <1>13, StoreAssumption DEF ActivateTicket, Begin, Steps, Sections
<1>14. ASSUME NEW c \in Chunks, RemoveOrphan(c) PROVE TypeOK' /\ ControlInv'
  BY <1>14 DEF RemoveOrphan, Files
<1>15. ASSUME NEW c \in Chunks, MoveChunk(c) PROVE TypeOK' /\ ControlInv'
  BY <1>15 DEF MoveChunk, Begin, Steps, Sections
<1>16. ASSUME NEW c \in Chunks, FetchRaises(c) PROVE TypeOK' /\ ControlInv'
  BY <1>16 DEF FetchRaises, Jobs, NoJob, Kinds
<1>17. ASSUME NEW c \in Chunks, ServeChunk(c) PROVE TypeOK' /\ ControlInv'
  <2>1. row[c] \in Rows
    BY <1>17 DEF ServeChunk
  <2>2. row' = [row EXCEPT ![c] = [row[c] EXCEPT !.stored = FALSE]]
    BY <1>17 DEF ServeChunk
  <2>3. /\ row' \in [Chunks -> Rows \cup {NoRow}]
        /\ \A b \in Chunks : Exists(b) => Exists(b)'
    BY <2>1, <2>2, RowWritten, ColumnsSet
  <2>4. QED
    BY <1>17, <2>3 DEF ServeChunk
<1>18. ASSUME NEW c \in Chunks, Rank(c) PROVE TypeOK' /\ ControlInv'
  BY <1>18 DEF Rank
<1>19. ASSUME NEW k \in Kinds, NEW c \in Chunks, SkipAttempt(k, c)
       PROVE  TypeOK' /\ ControlInv'
  <2>1. row[c] \in Rows
    BY <1>19 DEF SkipAttempt
  <2>2. row' = [row EXCEPT ![c] = [row[c] EXCEPT !.attempts = @ + 1]]
    BY <1>19 DEF SkipAttempt
  <2>3. /\ row' \in [Chunks -> Rows \cup {NoRow}]
        /\ \A b \in Chunks : Exists(b) => Exists(b)'
    BY <2>1, <2>2, RowWritten, ColumnsSet
  <2>4. QED
    BY <1>19, <2>3 DEF SkipAttempt, EndJob, Jobs, NoJob
<1>20. ASSUME NEW k \in Kinds, NEW c \in Chunks, AskOwners(k, c)
       PROVE  TypeOK' /\ ControlInv'
  BY <1>20 DEF AskOwners, Rows, Jobs
<1>21. ASSUME NEW k \in Kinds, NEW c \in Chunks, GiveUp(k, c)
       PROVE  TypeOK' /\ ControlInv'
  <2>1. job[k][c].copy \in Rows
    BY <1>21 DEF GiveUp, Asking
  <2>2. row' = [row EXCEPT ![c] = [job[k][c].copy EXCEPT !.attempts = @ + 1]]
    BY <1>21 DEF GiveUp
  <2>3. /\ row' \in [Chunks -> Rows \cup {NoRow}]
        /\ \A b \in Chunks : Exists(b) => Exists(b)'
    BY <2>1, <2>2, RowWritten, ColumnsSet
  <2>4. QED
    BY <1>21, <2>3 DEF GiveUp, EndJob, Jobs, NoJob
<1>22. ASSUME NEW k \in Kinds, NEW c \in Chunks, ReceiveChunk(k, c)
       PROVE  TypeOK' /\ ControlInv'
  BY <1>22 DEF ReceiveChunk, Asking, Begin, Steps, Sections, Current
<1>23. CASE StartRound
  BY <1>23 DEF StartRound, Missing, Jobs, NoJob, QueuedJob, Kinds
<1>24. CASE Crash
  <2>1. crashes' \in 0 .. MaxCrashes
    BY <1>24, StoreAssumption DEF Crash
  <2>2. cut' \subseteq Chunks
    BY <1>24, CurrentIsChunk DEF Crash
  <2>3. job' \in [Kinds -> [Chunks -> Jobs]]
    BY <1>24 DEF Crash, NoJobs, NoJob, Jobs
  <2>4. \A k \in Kinds : \A c \in Chunks : job'[k][c].at = "none"
    BY <1>24 DEF Crash, NoJobs, NoJob
  <2>5. QED
    BY <1>24, <2>1, <2>2, <2>3, <2>4 DEF Crash, Finish, Steps, Sections
<1>25. CASE UNCHANGED vars
  BY <1>25 DEF vars, Current
<1>26. QED
  BY <1>1, <1>2, <1>3, <1>4, <1>5, <1>6, <1>7, <1>8, <1>9, <1>10, <1>11, <1>12,
     <1>13, <1>14, <1>15, <1>16, <1>17, <1>18, <1>19, <1>20, <1>21, <1>22,
     <1>23, <1>24, <1>25 DEF Next, SectionStep, Fetch

(***************************************************************************)
(* Type correctness.  It is not inductive on its own: that a row stays a   *)
(* row needs the control of the coroutines that write it back.             *)
(***************************************************************************)
THEOREM TypeCorrect == Spec => [](TypeOK /\ ControlInv)
<1>1. Init => TypeOK /\ ControlInv
  <2> SUFFICES ASSUME Init PROVE TypeOK /\ ControlInv
    OBVIOUS
  <2>1. placed \in 0 .. MaxPlaced /\ crashes \in 0 .. MaxCrashes
    BY StoreAssumption DEF Init
  <2>2. QED
    BY <2>1 DEF Init, TypeOK, ControlInv, NoJobs, NoJob, Jobs, Files, Sections,
                Steps
<1>2. QED
  BY <1>1, TypeStep, PTL DEF Spec

-----------------------------------------------------------------------------
(***************************************************************************)
(* A step that touches no file, begins no write and only writes rows and   *)
(* copies that were there before, or say `not stored', keeps FileInv.      *)
(***************************************************************************)
LEMMA FilesUntouched ==
    ASSUME TypeOK, FileInv, UNCHANGED <<tmp, pers>>,
           \A c \in Chunks : Exists(c)' /\ row'[c].stored =>
               \/ Exists(c) /\ row[c].stored
               \/ \E k \in Kinds : job[k][c].at = "asking" /\ job[k][c].copy.stored,
           \A k \in Kinds : \A c \in Chunks :
               job'[k][c].at = "asking" /\ job'[k][c].copy.stored =>
                  \/ Exists(c) /\ row[c].stored
                  \/ \E i \in Kinds : job[i][c].at = "asking"
                                      /\ job[i][c].copy.stored
    PROVE  StoredHasFile' /\ CopiesHaveFile'
BY DEF FileInv, StoredHasFile, CopiesHaveFile, HasFile

(* A step that adds files and removes none keeps the rows and copies true. *)
LEMMA FilesAdded ==
    ASSUME TypeOK, FileInv, UNCHANGED <<row, job>>,
           \A c \in Chunks : HasFile(c) => HasFile(c)'
    PROVE  StoredHasFile' /\ CopiesHaveFile'
BY DEF FileInv, StoredHasFile, CopiesHaveFile, Exists

(* The step of StoredChunkHasFile. *)
LEMMA FileStep ==
    TypeOK /\ ControlInv /\ FileInv /\ [Next]_vars => FileInv'
<1> SUFFICES ASSUME TypeOK, ControlInv, FileInv, [Next]_vars PROVE FileInv'
  OBVIOUS
<1> USE DEF disk, body, outside, Current
<1>t. /\ tmp \in [Chunks -> Files] /\ pers \in [Chunks -> Files]
      /\ todo \in Seq(Chunks) /\ job \in [Kinds -> [Chunks -> Jobs]]
      /\ row \in [Chunks -> Rows \cup {NoRow}]
  BY DEF TypeOK
<1>c. section \in {"place", "move", "save"} => todo # <<>> /\ Current \in Chunks
  BY <1>t, CurrentIsChunk DEF ControlInv
<1>1. CASE OpenFile
  <2>1. \A c \in Chunks : HasFile(c) => HasFile(c)'
    BY <1>1, <1>t, <1>c DEF OpenFile, HasFile
  <2>2. BodyHasFile'
    BY <1>1, <1>t, <1>c DEF OpenFile, FileInv, BodyHasFile, Exists
  <2>3. QED
    BY <1>1, <2>1, <2>2, FilesAdded DEF OpenFile, FileInv
<1>2. CASE WriteFile
  <2>1. \A c \in Chunks : HasFile(c) => HasFile(c)'
    BY <1>2, <1>t, <1>c DEF WriteFile, HasFile, FileInv, BodyHasFile
  <2>2. BodyHasFile'
    BY <1>2, <1>t, <1>c DEF WriteFile, FileInv, BodyHasFile, Exists
  <2>3. QED
    BY <1>2, <2>1, <2>2, FilesAdded DEF WriteFile, FileInv
<1>3. CASE PlaceRow
  <2>1. \A c \in Chunks \ {Current} : row'[c] = row[c]
    BY <1>3, <1>t, <1>c DEF PlaceRow
  <2>2. HasFile(Current)
    BY <1>3 DEF PlaceRow, FileInv, BodyHasFile, HasFile
  <2>3. StoredHasFile' /\ CopiesHaveFile'
    BY <1>3, <2>1, <2>2
       DEF PlaceRow, FileInv, StoredHasFile, CopiesHaveFile, HasFile, Exists
  <2>4. step' = "open" /\ section' # "move"
    BY <1>3 DEF PlaceRow, Continue, Finish
  <2>5. QED
    BY <2>3, <2>4 DEF FileInv, BodyHasFile
<1>4. CASE PlaceRejected
  BY <1>4, FilesUntouched
     DEF PlaceRejected, Finish, FileInv, BodyHasFile, Exists
<1>5. CASE ActivateCreates
  <2>1. \A c \in Chunks : Exists(c)' /\ row'[c].stored => Exists(c) /\ row[c].stored
    BY <1>5, <1>t, CurrentIsChunk DEF ActivateCreates, NewRow, Exists
  <2>2. BodyHasFile'
    BY <1>5 DEF ActivateCreates, BodyHasFile, ControlInv
  <2>3. QED
    BY <1>5, <2>1, <2>2, FilesUntouched DEF ActivateCreates, FileInv
<1>6. CASE ActivateConfirms
  <2>1. \A c \in Chunks : Exists(c)' /\ row'[c].stored => Exists(c) /\ row[c].stored
    BY <1>6, <1>t, CurrentIsChunk DEF ActivateConfirms, Exists, Rows
  <2>2. BodyHasFile'
    BY <1>6 DEF ActivateConfirms, BodyHasFile, ControlInv
  <2>3. QED
    BY <1>6, <2>1, <2>2, FilesUntouched DEF ActivateConfirms, FileInv
<1>7. CASE ActivateRecords
  BY <1>7, FilesUntouched
     DEF ActivateRecords, Finish, FileInv, BodyHasFile, Exists
<1>8. CASE MoveUnlinks
  <2>1. \A c \in Chunks : HasFile(c) => HasFile(c)'
    BY <1>8, <1>t, <1>c DEF MoveUnlinks, HasFile, FileInv, BodyHasFile
  <2>2. QED
    BY <1>8, <2>1, FilesAdded DEF MoveUnlinks, Finish, FileInv, BodyHasFile
<1>9. CASE SaveRow
  <2>1. HasFile(Current)
    BY <1>9 DEF SaveRow, FileInv, BodyHasFile, HasFile
  <2>2. \A c \in Chunks \ {Current} : row'[c] = row[c]
    BY <1>9, <1>t, <1>c DEF SaveRow
  <2>3. \A k \in Kinds : \A c \in Chunks :
           job'[k][c] = job[k][c] \/ job'[k][c] = NoJob
    BY <1>9, <1>t, <1>c DEF SaveRow, EndJob
  <2>4. StoredHasFile' /\ CopiesHaveFile'
    BY <1>9, <2>1, <2>2, <2>3
       DEF SaveRow, FileInv, StoredHasFile, CopiesHaveFile, HasFile, Exists, NoJob
  <2>5. QED
    BY <1>9, <2>4 DEF SaveRow, Finish, FileInv, BodyHasFile
<1>10. ASSUME NEW t \in Tickets, PlaceImage(t) PROVE FileInv'
  BY <1>10, FilesUntouched DEF PlaceImage, Begin, FileInv, BodyHasFile, Exists
<1>11. ASSUME NEW t \in Tickets, PublishTicket(t) PROVE FileInv'
  BY <1>11, FilesUntouched DEF PublishTicket, FileInv, BodyHasFile, Exists
<1>12. ASSUME NEW t \in Tickets, RejectTicket(t) PROVE FileInv'
  BY <1>12, FilesUntouched DEF RejectTicket, FileInv, BodyHasFile, Exists
<1>13. ASSUME NEW t \in Tickets, ActivateTicket(t) PROVE FileInv'
  BY <1>13, FilesUntouched DEF ActivateTicket, Begin, FileInv, BodyHasFile, Exists
<1>14. ASSUME NEW c \in Chunks, RemoveOrphan(c) PROVE FileInv'
  <2>1. \A b \in Chunks \ {c} : HasFile(b) => HasFile(b)'
    BY <1>14, <1>t DEF RemoveOrphan, HasFile
  <2>2. ~Exists(c) /\ \A k \in Kinds : job[k][c].at = "none"
    BY <1>14 DEF RemoveOrphan, ControlInv
  <2>3. QED
    BY <1>14, <2>1, <2>2 DEF RemoveOrphan, FileInv, StoredHasFile,
       CopiesHaveFile, BodyHasFile, Exists, ControlInv
<1>15. ASSUME NEW c \in Chunks, MoveChunk(c) PROVE FileInv'
  BY <1>15, FilesUntouched DEF MoveChunk, Begin, FileInv, BodyHasFile, Exists
<1>16. ASSUME NEW c \in Chunks, FetchRaises(c) PROVE FileInv'
  <2>1. \A k \in Kinds : \A d \in Chunks :
           \/ job'[k][d] = NoJob
           \/ \E i \in Kinds : job'[k][d] = job[i][d]
    BY <1>16, <1>t DEF FetchRaises, Kinds
  <2>2. \A k \in Kinds : \A d \in Chunks :
           job'[k][d].at = "asking" /\ job'[k][d].copy.stored =>
              \E i \in Kinds : job[i][d].at = "asking" /\ job[i][d].copy.stored
    BY <2>1 DEF NoJob
  <2>3. StoredHasFile' /\ CopiesHaveFile'
    BY <1>16, <2>2, FilesUntouched DEF FetchRaises, Exists
  <2>4. QED
    BY <1>16, <2>3 DEF FetchRaises, FileInv, BodyHasFile
<1>17. ASSUME NEW c \in Chunks, ServeChunk(c) PROVE FileInv'
  <2>1. \A b \in Chunks : Exists(b)' /\ row'[b].stored => Exists(b) /\ row[b].stored
    BY <1>17, <1>t DEF ServeChunk, Exists, Rows
  <2>2. QED
    BY <1>17, <2>1, FilesUntouched DEF ServeChunk, FileInv, BodyHasFile, ControlInv
<1>18. ASSUME NEW c \in Chunks, Rank(c) PROVE FileInv'
  BY <1>18, FilesUntouched DEF Rank, FileInv, BodyHasFile, Exists
<1>19. ASSUME NEW k \in Kinds, NEW c \in Chunks, SkipAttempt(k, c) PROVE FileInv'
  <2>1. \A b \in Chunks : Exists(b)' /\ row'[b].stored => Exists(b) /\ row[b].stored
    BY <1>19, <1>t DEF SkipAttempt, Exists, Rows, ControlInv
  <2>2. \A i \in Kinds : \A b \in Chunks :
           job'[i][b] = job[i][b] \/ job'[i][b] = NoJob
    BY <1>19, <1>t DEF SkipAttempt, EndJob
  <2>3. QED
    BY <1>19, <2>1, <2>2, FilesUntouched
       DEF SkipAttempt, FileInv, BodyHasFile, NoJob, ControlInv
<1>20. ASSUME NEW k \in Kinds, NEW c \in Chunks, AskOwners(k, c) PROVE FileInv'
  <2>1. \A i \in Kinds : \A b \in Chunks :
           \/ job'[i][b] = job[i][b]
           \/ b = c /\ job'[i][b].copy = row[c] /\ Exists(c)
    BY <1>20, <1>t DEF AskOwners, ControlInv
  <2>2. QED
    BY <1>20, <2>1, FilesUntouched
       DEF AskOwners, FileInv, BodyHasFile, Exists
<1>21. ASSUME NEW k \in Kinds, NEW c \in Chunks, GiveUp(k, c) PROVE FileInv'
  <2>1. \A b \in Chunks \ {c} : row'[b] = row[b]
    BY <1>21, <1>t DEF GiveUp
  <2>2. row'[c].stored = job[k][c].copy.stored
    BY <1>21, <1>t DEF GiveUp, Asking, ControlInv, Rows
  <2>3. \A i \in Kinds : \A b \in Chunks :
           job'[i][b] = job[i][b] \/ job'[i][b] = NoJob
    BY <1>21, <1>t DEF GiveUp, EndJob
  <2>4. \A b \in Chunks : Exists(b)' /\ row'[b].stored =>
           \/ Exists(b) /\ row[b].stored
           \/ \E i \in Kinds : job[i][b].at = "asking" /\ job[i][b].copy.stored
    BY <1>21, <2>1, <2>2 DEF GiveUp, Asking, Exists
  <2>5. QED
    BY <1>21, <2>3, <2>4, FilesUntouched
       DEF GiveUp, FileInv, BodyHasFile, NoJob, ControlInv
<1>22. ASSUME NEW k \in Kinds, NEW c \in Chunks, ReceiveChunk(k, c) PROVE FileInv'
  BY <1>22, FilesUntouched DEF ReceiveChunk, Begin, FileInv, BodyHasFile, Exists
<1>23. CASE StartRound
  <2>1. \A k \in Kinds : \A c \in Chunks :
           job'[k][c] = job[k][c] \/ job'[k][c].at # "asking"
    BY <1>23, <1>t DEF StartRound, QueuedJob, NoJob
  <2>2. QED
    BY <1>23, <2>1, FilesUntouched DEF StartRound, FileInv, BodyHasFile, Exists
<1>24. CASE Crash
  <2>1. \A k \in Kinds : \A c \in Chunks : job'[k][c].at # "asking"
    BY <1>24 DEF Crash, NoJobs, NoJob
  <2>2. QED
    BY <1>24, <2>1, FilesUntouched
       DEF Crash, Finish, FileInv, BodyHasFile, Exists
<1>25. CASE UNCHANGED vars
  BY <1>25, FilesUntouched DEF vars, FileInv, BodyHasFile, Exists
<1>26. QED
  BY <1>1, <1>2, <1>3, <1>4, <1>5, <1>6, <1>7, <1>8, <1>9, <1>10, <1>11, <1>12,
     <1>13, <1>14, <1>15, <1>16, <1>17, <1>18, <1>19, <1>20, <1>21, <1>22,
     <1>23, <1>24, <1>25 DEF Next, SectionStep, Fetch

(***************************************************************************)
(* A row that says `stored' has a file, for every retry schedule, every    *)
(* number of overlapping fetches and any number of crashes.                *)
(***************************************************************************)
THEOREM StoredChunkHasFile == Spec => []StoredHasFile
<1>1. Init => FileInv
  BY DEF Init, FileInv, StoredHasFile, CopiesHaveFile, BodyHasFile, Exists,
         NoJobs, NoJob
<1>2. FileInv => StoredHasFile
  BY DEF FileInv
<1>3. QED
  BY <1>1, <1>2, FileStep, TypeCorrect, PTL DEF Spec

-----------------------------------------------------------------------------
(***************************************************************************)
(* DamageOnlyByCrash strengthened to the points inside a body: a torn file *)
(* is the one being written, unless a crash cut its writing short.         *)
(***************************************************************************)
DamageInv ==
    \A c \in Chunks \ cut :
        /\ tmp[c] = "torn" => section = "place" /\ step = "write" /\ c = Current
        /\ pers[c] = "torn" =>
              section \in {"move", "save"} /\ step = "write" /\ c = Current

(* Steps that write no file and leave no write unfinished *)
LEMMA DamageUntouched ==
    ASSUME TypeOK, DamageInv, UNCHANGED <<tmp, pers, cut>>, step # "write"
    PROVE  DamageInv'
BY DEF DamageInv

(* The step of DamageComesFromCrash. *)
LEMMA DamageStep ==
    TypeOK /\ ControlInv /\ DamageInv /\ [Next]_vars => DamageInv'
<1> SUFFICES ASSUME TypeOK, ControlInv, DamageInv, [Next]_vars PROVE DamageInv'
  OBVIOUS
<1> USE DEF disk, body, outside
<1>t. /\ tmp \in [Chunks -> Files] /\ pers \in [Chunks -> Files]
      /\ todo \in Seq(Chunks)
  BY DEF TypeOK
<1>c. section \in {"place", "move", "save"} => todo # <<>> /\ Current \in Chunks
  BY <1>t, CurrentIsChunk DEF ControlInv, Current
<1>i. section \notin {"place", "move", "save"} => step # "write"
  BY DEF ControlInv
<1>1. CASE OpenFile
  BY <1>1, <1>t, <1>c DEF OpenFile, DamageInv, Current
<1>2. CASE WriteFile
  BY <1>2, <1>t, <1>c DEF WriteFile, DamageInv, Current
<1>3. CASE PlaceRow \/ PlaceRejected \/ SaveRow
  BY <1>3, DamageUntouched DEF PlaceRow, PlaceRejected, SaveRow
<1>4. CASE ActivateCreates \/ ActivateConfirms \/ ActivateRecords
  BY <1>4, <1>i, DamageUntouched DEF ActivateCreates, ActivateConfirms, ActivateRecords
<1>5. CASE MoveUnlinks
  BY <1>5, <1>t, <1>c DEF MoveUnlinks, DamageInv
<1>6. ASSUME NEW t \in Tickets,
             PlaceImage(t) \/ RejectTicket(t) \/ ActivateTicket(t)
      PROVE  DamageInv'
  BY <1>6, <1>i, DamageUntouched DEF PlaceImage, RejectTicket, ActivateTicket, Begin
<1>7. ASSUME NEW t \in Tickets, PublishTicket(t) PROVE DamageInv'
  BY <1>7 DEF PublishTicket, DamageInv, Current
<1>8. ASSUME NEW c \in Chunks, RemoveOrphan(c) PROVE DamageInv'
  BY <1>8, <1>t, <1>i DEF RemoveOrphan, DamageInv
<1>9. ASSUME NEW c \in Chunks,
             MoveChunk(c) \/ FetchRaises(c) \/ ServeChunk(c) \/ Rank(c)
      PROVE  DamageInv'
  BY <1>9, <1>i, DamageUntouched DEF MoveChunk, FetchRaises, ServeChunk, Rank, Begin
<1>10. ASSUME NEW k \in Kinds, NEW c \in Chunks, Fetch(k, c) PROVE DamageInv'
  BY <1>10, <1>i, DamageUntouched
     DEF Fetch, SkipAttempt, AskOwners, GiveUp, ReceiveChunk, Begin
<1>11. CASE StartRound
  BY <1>11, <1>i, DamageUntouched DEF StartRound
<1>12. CASE Crash
  BY <1>12, <1>t DEF Crash, DamageInv
<1>13. CASE UNCHANGED vars
  BY <1>13 DEF vars, DamageInv, Current
<1>14. QED
  BY <1>1, <1>2, <1>3, <1>4, <1>5, <1>6, <1>7, <1>8, <1>9, <1>10, <1>11, <1>12,
     <1>13 DEF Next, SectionStep

(***************************************************************************)
(* Between bodies, a damaged file was being written when the process was   *)
(* killed: moving and fetching never spread or cause damage otherwise.     *)
(***************************************************************************)
THEOREM DamageComesFromCrash == Spec => []DamageOnlyByCrash
<1>1. Init => DamageInv
  BY DEF Init, DamageInv
<1>2. DamageInv => DamageOnlyByCrash
  BY DEF DamageInv, DamageOnlyByCrash
<1>3. QED
  BY <1>1, <1>2, DamageStep, TypeCorrect, PTL DEF Spec

(***************************************************************************)
(* Before a move unlinks the temporary file, the persistent one is a copy  *)
(* of it.                                                                  *)
(***************************************************************************)
CopyInv == section = "move" /\ step = "commit" => pers[Current] = tmp[Current]

LEMMA CopyStep == TypeOK /\ ControlInv /\ CopyInv /\ [Next]_vars => CopyInv'
<1> SUFFICES ASSUME TypeOK, ControlInv, CopyInv, [Next]_vars PROVE CopyInv'
  OBVIOUS
<1> USE DEF disk, body, outside
<1>1. CASE OpenFile
  BY <1>1 DEF OpenFile, CopyInv
<1>2. CASE WriteFile
  <2>1. Current \in Chunks /\ pers \in [Chunks -> Files]
    BY <1>2, CurrentIsChunk DEF WriteFile, TypeOK, ControlInv, Current
  <2>2. QED
    BY <1>2, <2>1 DEF WriteFile, CopyInv, Current
<1>3. CASE PlaceRow \/ PlaceRejected \/ SaveRow \/ MoveUnlinks
  BY <1>3 DEF PlaceRow, PlaceRejected, SaveRow, MoveUnlinks, Continue, Finish,
              CopyInv
<1>4. CASE ActivateCreates \/ ActivateConfirms \/ ActivateRecords
  BY <1>4 DEF ActivateCreates, ActivateConfirms, ActivateRecords, Finish, CopyInv
<1>5. ASSUME NEW t \in Tickets, \/ PlaceImage(t) \/ PublishTicket(t)
                                \/ RejectTicket(t) \/ ActivateTicket(t)
      PROVE  CopyInv'
  BY <1>5 DEF PlaceImage, PublishTicket, RejectTicket, ActivateTicket, Begin,
              CopyInv, Current
<1>6. ASSUME NEW d \in Chunks, \/ RemoveOrphan(d) \/ MoveChunk(d)
                               \/ FetchRaises(d) \/ ServeChunk(d) \/ Rank(d)
      PROVE  CopyInv'
  BY <1>6 DEF RemoveOrphan, MoveChunk, FetchRaises, ServeChunk, Rank, Begin,
              CopyInv, Current
<1>7. ASSUME NEW k \in Kinds, NEW d \in Chunks, Fetch(k, d) PROVE CopyInv'
  BY <1>7 DEF Fetch, SkipAttempt, AskOwners, GiveUp, ReceiveChunk, Begin,
              CopyInv, Current
<1>8. CASE StartRound \/ Crash
  BY <1>8 DEF StartRound, Crash, Finish, CopyInv, Current
<1>9. CASE UNCHANGED vars
  BY <1>9 DEF vars, CopyInv, Current
<1>10. QED
  BY <1>1, <1>2, <1>3, <1>4, <1>5, <1>6, <1>7, <1>8, <1>9 DEF Next, SectionStep

(***************************************************************************)
(* The move of a complete temporary file to the persistent storage loses   *)
(* no chunk: at each of its steps, and if the process is killed at any of  *)
(* them, a complete copy remains in one of the two.  Of a torn temporary   *)
(* file nothing is said: its move destroys a complete persistent copy.     *)
(***************************************************************************)
THEOREM MoveKeepsWholeChunk == Spec => MoveKeepsChunk
<1>1. ASSUME TypeOK, ControlInv, FileInv, CopyInv, [Next]_vars
      PROVE  [\A c \in Chunks : /\ section = "move"
                                /\ c = Current => tmp[c] # "torn"
                                /\ Good(c)
                                => Good(c)']_vars
  <2> SUFFICES ASSUME NEW c \in Chunks, section = "move",
                      c = Current => tmp[c] # "torn", Good(c), Next
               PROVE  Good(c)'
    BY <1>1 DEF vars, Good
  <2> USE <1>1 DEF disk, body, outside
  <2>1. /\ tmp \in [Chunks -> Files] /\ pers \in [Chunks -> Files]
        /\ todo # <<>> /\ Current \in Chunks
    BY CurrentIsChunk DEF TypeOK, ControlInv, Current
  <2>2. c = Current => tmp[c] = "good"
    BY <2>1 DEF FileInv, BodyHasFile, Files
  <2>3. CASE OpenFile \/ WriteFile
    BY <2>1, <2>2, <2>3 DEF OpenFile, WriteFile, Good
  <2>4. CASE MoveUnlinks
    <3>1. c = Current => pers[c] = "good"
      BY <2>1, <2>2, <2>4 DEF MoveUnlinks, CopyInv
    <3>2. QED
      BY <2>1, <2>4, <3>1 DEF MoveUnlinks, Good
  <2>5. CASE PlaceRow \/ PlaceRejected \/ SaveRow \/ ActivateCreates
             \/ ActivateConfirms \/ ActivateRecords
    BY <2>5 DEF PlaceRow, PlaceRejected, SaveRow, ActivateCreates,
                ActivateConfirms, ActivateRecords
  <2>6. ASSUME NEW t \in Tickets, \/ PlaceImage(t) \/ PublishTicket(t)
                                  \/ RejectTicket(t) \/ ActivateTicket(t)
        PROVE  Good(c)'
    BY <2>6 DEF PlaceImage, PublishTicket, RejectTicket, ActivateTicket, Begin,
                Good
  <2>7. ASSUME NEW d \in Chunks, \/ RemoveOrphan(d) \/ MoveChunk(d)
                                 \/ FetchRaises(d) \/ ServeChunk(d) \/ Rank(d)
        PROVE  Good(c)'
    BY <2>7 DEF RemoveOrphan, MoveChunk, FetchRaises, ServeChunk, Rank, Begin
  <2>8. ASSUME NEW k \in Kinds, NEW d \in Chunks, Fetch(k, d) PROVE Good(c)'
    BY <2>8 DEF Fetch, SkipAttempt, AskOwners, GiveUp, ReceiveChunk, Begin
  <2>9. CASE StartRound \/ Crash
    BY <2>9 DEF StartRound, Crash, Good
  <2>10. QED
    BY <2>3, <2>4, <2>5, <2>6, <2>7, <2>8, <2>9 DEF Next, SectionStep
<1>2. Init => FileInv /\ CopyInv
  BY DEF Init, FileInv, StoredHasFile, CopiesHaveFile, BodyHasFile, Exists,
         NoJobs, NoJob, CopyInv
<1>3. QED
  BY <1>1, <1>2, FileStep, CopyStep, TypeCorrect, PTL DEF Spec, MoveKeepsChunk

-----------------------------------------------------------------------------
(* While a ticket is processed, its chunks have a row or are still to come. *)
Remaining == {todo[i] : i \in DOMAIN todo}

ActivateInv ==
    section = "activate" => \A c \in ChunksOf(actor) : Exists(c) \/ c \in Remaining

(* The first element of a sequence, and those of its tail, are all of it. *)
LEMMA HeadOrTail ==
    ASSUME NEW s \in Seq(Chunks), s # <<>>, NEW i \in DOMAIN s
    PROVE  s[i] = Head(s) \/ \E j \in DOMAIN Tail(s) : s[i] = Tail(s)[j]
<1>1. CASE i = 1
  BY <1>1
<1>2. CASE i # 1
  <2>1. i - 1 \in DOMAIN Tail(s) /\ Tail(s)[i - 1] = s[i]
    BY <1>2
  <2>2. QED
    BY <2>1
<1>3. QED
  BY <1>1, <1>2

(* No row of the Chunk table disappears. *)
LEMMA RowsStay ==
    ASSUME TypeOK, ControlInv, [Next]_vars, NEW c \in Chunks, Exists(c)
    PROVE  Exists(c)'
<1> USE DEF disk, body, outside, Exists
<1>1. NoRow \notin Rows /\ row \in [Chunks -> Rows \cup {NoRow}]
  BY StoreAssumption DEF TypeOK, Rows
<1>2. CASE PlaceRow \/ ActivateCreates
  BY <1>1, <1>2 DEF PlaceRow, ActivateCreates, NewRow, Rows
<1>3. ASSUME NEW b \in Chunks, ServeChunk(b) PROVE Exists(c)'
  <2>1. row[b] \in Rows /\ row' = [row EXCEPT ![b] = [row[b] EXCEPT !.stored = FALSE]]
    BY <1>1, <1>3 DEF ServeChunk
  <2>2. QED
    BY <2>1, RowWritten, ColumnsSet
<1>10. CASE ActivateConfirms
  <2>1. Current \in Chunks /\ row[Current] \in Rows
    BY <1>1, <1>10, CurrentIsChunk DEF ActivateConfirms, TypeOK, Current
  <2>2. row' = [row EXCEPT ![Current] = [row[Current] EXCEPT !.confirmed = TRUE]]
    BY <1>10 DEF ActivateConfirms
  <2>3. QED
    BY <2>1, <2>2, RowWritten, ColumnsSet
<1>4. CASE SaveRow
  <2>1. todo # <<>> /\ Current \in Chunks /\ actor \in Kinds
    BY <1>4, CurrentIsChunk DEF SaveRow, TypeOK, ControlInv, Current
  <2>2. job[actor][Current].copy \in Rows
    BY <1>4, <2>1 DEF SaveRow, ControlInv
  <2>3. QED
    BY <1>1, <1>4, <2>1, <2>2, ColumnsSet DEF SaveRow
<1>5. ASSUME NEW k \in Kinds, NEW b \in Chunks, Fetch(k, b) PROVE Exists(c)'
  <2>1. Asking(k, b) => job[k][b].copy \in Rows
    BY DEF Asking, ControlInv
  <2>2. CASE SkipAttempt(k, b)
    BY <1>1, <2>2, ColumnsSet DEF SkipAttempt
  <2>3. CASE GiveUp(k, b)
    BY <1>1, <2>1, <2>3, ColumnsSet DEF GiveUp
  <2>4. CASE AskOwners(k, b) \/ ReceiveChunk(k, b)
    BY <2>4 DEF AskOwners, ReceiveChunk
  <2>5. QED
    BY <1>5, <2>2, <2>3, <2>4 DEF Fetch
<1>6. CASE OpenFile \/ WriteFile \/ PlaceRejected \/ ActivateRecords
           \/ MoveUnlinks \/ StartRound \/ Crash \/ UNCHANGED vars
  BY <1>6 DEF OpenFile, WriteFile, PlaceRejected, ActivateRecords, MoveUnlinks,
              StartRound, Crash, vars
<1>7. ASSUME NEW t \in Tickets, \/ PlaceImage(t) \/ PublishTicket(t)
                                \/ RejectTicket(t) \/ ActivateTicket(t)
      PROVE  Exists(c)'
  BY <1>7 DEF PlaceImage, PublishTicket, RejectTicket, ActivateTicket
<1>8. ASSUME NEW b \in Chunks, \/ RemoveOrphan(b) \/ MoveChunk(b)
                               \/ FetchRaises(b) \/ Rank(b)
      PROVE  Exists(c)'
  BY <1>8 DEF RemoveOrphan, MoveChunk, FetchRaises, Rank
<1>9. QED
  BY <1>2, <1>3, <1>4, <1>5, <1>6, <1>7, <1>8, <1>10 DEF Next, SectionStep

(* The step of ProcessedTicketHasRows. *)
LEMMA ActivateStep ==
    TypeOK /\ ControlInv /\ ActivateInv /\ ProcessedTicketKnown /\ [Next]_vars
        => ActivateInv' /\ ProcessedTicketKnown'
<1> SUFFICES ASSUME TypeOK, ControlInv, ActivateInv, ProcessedTicketKnown,
                    [Next]_vars
             PROVE  ActivateInv' /\ ProcessedTicketKnown'
  OBVIOUS
<1> USE DEF disk, body, outside
<1>1. \A t \in Tickets : ChunksOf(t) \subseteq Chunks
  BY StoreAssumption DEF ChunksOf
<1>2. \A c \in Chunks : Exists(c) => Exists(c)'
  BY RowsStay
<1>3. ASSUME processed' = processed PROVE ProcessedTicketKnown'
  BY <1>1, <1>2, <1>3 DEF ProcessedTicketKnown, TypeOK, ChunksOf
<1>4. ASSUME section' # "activate" PROVE ActivateInv'
  BY <1>4 DEF ActivateInv
<1>5. ASSUME section' = section, actor' = actor, todo' = todo PROVE ActivateInv'
  BY <1>1, <1>2, <1>5 DEF ActivateInv, TypeOK, Remaining, ChunksOf
<1>6. CASE ActivateConfirms
  <2>1. todo \in Seq(Chunks) /\ todo # <<>> /\ Exists(Current) /\ Current \in Chunks
    BY <1>6, CurrentIsChunk DEF ActivateConfirms, TypeOK, Current
  <2>2. ASSUME NEW c \in ChunksOf(actor), section = "activate"
        PROVE  Exists(c)' \/ c \in Remaining'
    <3>1. c \in Chunks
      BY <1>1, <2>2 DEF TypeOK
    <3>2. CASE Exists(c)
      BY <1>2, <3>1, <3>2
    <3>3. CASE ~Exists(c)
      <4>1. PICK i \in DOMAIN todo : c = todo[i]
        BY <2>2, <3>3 DEF ActivateInv, Remaining
      <4>2. c # Current
        BY <2>1, <3>3
      <4>3. PICK j \in DOMAIN Tail(todo) : c = Tail(todo)[j]
        BY <2>1, <4>1, <4>2, HeadOrTail DEF Current
      <4>4. QED
        BY <1>6, <4>3 DEF ActivateConfirms, Remaining
    <3>4. QED
      BY <3>2, <3>3
  <2>3. QED
    BY <1>3, <1>6, <2>2 DEF ActivateConfirms, ActivateInv, ChunksOf
<1>7. CASE ActivateRecords
  <2>1. \A c \in ChunksOf(actor) : Exists(c)
    BY <1>7 DEF ActivateRecords, ActivateInv, Remaining
  <2>2. QED
    BY <1>1, <1>2, <1>4, <1>7, <2>1
       DEF ActivateRecords, Finish, ProcessedTicketKnown, TypeOK, ChunksOf
<1>8. ASSUME NEW t \in Tickets, ActivateTicket(t)
      PROVE  ActivateInv' /\ ProcessedTicketKnown'
  BY <1>3, <1>8 DEF ActivateTicket, Begin, ActivateInv, Remaining, ChunksOf
<1>9. CASE OpenFile \/ WriteFile \/ ActivateCreates
  BY <1>3, <1>5, <1>9 DEF OpenFile, WriteFile, ActivateCreates
<1>10. CASE PlaceRow \/ PlaceRejected \/ MoveUnlinks \/ SaveRow
  BY <1>3, <1>4, <1>10
     DEF PlaceRow, Continue, PlaceRejected, MoveUnlinks, SaveRow, Finish
<1>11. ASSUME NEW t \in Tickets,
              PlaceImage(t) \/ PublishTicket(t) \/ RejectTicket(t)
       PROVE  ActivateInv' /\ ProcessedTicketKnown'
  BY <1>3, <1>4, <1>5, <1>11 DEF PlaceImage, PublishTicket, RejectTicket, Begin
<1>12. ASSUME NEW c \in Chunks, \/ RemoveOrphan(c) \/ MoveChunk(c)
                                \/ FetchRaises(c) \/ ServeChunk(c) \/ Rank(c)
       PROVE  ActivateInv' /\ ProcessedTicketKnown'
  BY <1>3, <1>4, <1>5, <1>12
     DEF RemoveOrphan, MoveChunk, FetchRaises, ServeChunk, Rank, Begin
<1>13. ASSUME NEW k \in Kinds, NEW c \in Chunks, Fetch(k, c)
       PROVE  ActivateInv' /\ ProcessedTicketKnown'
  BY <1>3, <1>4, <1>5, <1>13
     DEF Fetch, SkipAttempt, AskOwners, GiveUp, ReceiveChunk, Begin
<1>14. CASE StartRound \/ UNCHANGED vars
  BY <1>3, <1>5, <1>14 DEF StartRound, vars
<1>15. CASE Crash
  BY <1>3, <1>4, <1>15 DEF Crash, Finish
<1>16. QED
  BY <1>6, <1>7, <1>8, <1>9, <1>10, <1>11, <1>12, <1>13, <1>14, <1>15
     DEF Next, SectionStep

(***************************************************************************)
(* An activation ticket that is recorded as processed has left a row for   *)
(* each of its chunks, wherever earlier attempts were cut short.           *)
(***************************************************************************)
THEOREM ProcessedTicketHasRows == Spec => []ProcessedTicketKnown
<1>1. Init => ActivateInv /\ ProcessedTicketKnown
  BY DEF Init, ActivateInv, ProcessedTicketKnown
<1>2. QED
  BY <1>1, ActivateStep, TypeCorrect, PTL DEF Spec

-----------------------------------------------------------------------------
(***************************************************************************)
(* ConfirmedIsPublished strengthened to the rows that coroutines hold, and *)
(* to the chunks an activation in progress still has to confirm.           *)
(***************************************************************************)
Announced(c) == \E t \in published : c \in ChunksOf(t)

AnnouncedInv ==
    /\ \A c \in Chunks :
          /\ Exists(c) /\ row[c].confirmed => Announced(c)
          /\ \A k \in Kinds :
                job[k][c].at = "asking" /\ job[k][c].copy.confirmed => Announced(c)
    /\ section = "activate" => /\ actor \in published
                               /\ Remaining \subseteq ChunksOf(actor)

(* Rows and copies that are as confirmed as they were keep their tickets. *)
LEMMA AnnouncedKept ==
    ASSUME AnnouncedInv, published \subseteq published',
           \A c \in Chunks : Exists(c)' /\ row'[c].confirmed =>
               \/ Announced(c)
               \/ Exists(c) /\ row[c].confirmed,
           \A k \in Kinds : \A c \in Chunks :
               job'[k][c].at = "asking" /\ job'[k][c].copy.confirmed =>
                  \/ Exists(c) /\ row[c].confirmed
                  \/ \E i \in Kinds : job[i][c].at = "asking"
                                      /\ job[i][c].copy.confirmed,
           section' = "activate" => /\ actor' \in published
                                    /\ Remaining' \subseteq ChunksOf(actor')
    PROVE  AnnouncedInv'
BY DEF AnnouncedInv, Announced, ChunksOf

(* The step of ConfirmedHasTicket. *)
LEMMA AnnouncedStep ==
    TypeOK /\ ControlInv /\ AnnouncedInv /\ [Next]_vars => AnnouncedInv'
<1> SUFFICES ASSUME TypeOK, ControlInv, AnnouncedInv, [Next]_vars PROVE AnnouncedInv'
  OBVIOUS
<1> DEFINE RowsWere == \A c \in Chunks : Exists(c)' /\ row'[c].confirmed =>
                         \/ Announced(c)
                         \/ Exists(c) /\ row[c].confirmed
           CopiesWere == \A k \in Kinds : \A c \in Chunks :
                           job'[k][c].at = "asking" /\ job'[k][c].copy.confirmed =>
                              \/ Exists(c) /\ row[c].confirmed
                              \/ \E i \in Kinds : job[i][c].at = "asking"
                                                  /\ job[i][c].copy.confirmed
           TodoWas == section' = "activate" => /\ actor' \in published
                                               /\ Remaining' \subseteq ChunksOf(actor')
<1> USE DEF disk, body, outside
<1>1. /\ row \in [Chunks -> Rows \cup {NoRow}] /\ todo \in Seq(Chunks)
      /\ job \in [Kinds -> [Chunks -> Jobs]]
  BY DEF TypeOK
<1>2. UNCHANGED row => RowsWere
  BY DEF Exists
<1>3. UNCHANGED job => CopiesWere
  BY DEF AnnouncedInv, Announced
<1>4. UNCHANGED <<section, actor, todo>> => TodoWas
  BY DEF AnnouncedInv, Remaining, ChunksOf
<1>5. section' # "activate" => TodoWas
  OBVIOUS
<1>6. ASSUME OpenFile \/ WriteFile \/ PlaceRejected \/ ActivateRecords \/ MoveUnlinks
             \/ StartRound \/ Crash \/ UNCHANGED vars
      PROVE  RowsWere /\ CopiesWere /\ TodoWas
  <2>1. CASE StartRound
    <3>1. \A k \in Kinds : \A c \in Chunks :
             job'[k][c] = job[k][c] \/ job'[k][c].at # "asking"
      BY <1>1, <2>1 DEF StartRound, QueuedJob, NoJob
    <3>2. CopiesWere
      BY <3>1 DEF AnnouncedInv
    <3>3. QED
      BY <1>2, <1>4, <2>1, <3>2 DEF StartRound
  <2>2. CASE Crash
    <3>1. CopiesWere
      BY <2>2 DEF Crash, NoJobs, NoJob
    <3>2. QED
      BY <1>2, <1>5, <2>2, <3>1 DEF Crash, Finish
  <2>3. CASE OpenFile \/ WriteFile \/ UNCHANGED vars
    BY <1>2, <1>3, <1>4, <2>3 DEF OpenFile, WriteFile, vars
  <2>4. CASE PlaceRejected \/ ActivateRecords \/ MoveUnlinks
    BY <1>2, <1>3, <1>5, <2>4 DEF PlaceRejected, ActivateRecords, MoveUnlinks, Finish
  <2>5. QED
    BY <1>6, <2>1, <2>2, <2>3, <2>4
<1>7. ASSUME NEW t \in Tickets, \/ PlaceImage(t) \/ PublishTicket(t)
                                \/ RejectTicket(t) \/ ActivateTicket(t)
      PROVE  RowsWere /\ CopiesWere /\ TodoWas
  <2>1. CASE ActivateTicket(t)
    <3>1. TodoWas
      BY <2>1 DEF ActivateTicket, Begin, Remaining, ChunksOf
    <3>2. QED
      BY <1>2, <1>3, <2>1, <3>1 DEF ActivateTicket
  <2>2. CASE PlaceImage(t)
    BY <1>2, <1>3, <1>5, <2>2 DEF PlaceImage, Begin
  <2>3. CASE PublishTicket(t) \/ RejectTicket(t)
    BY <1>2, <1>3, <1>4, <2>3 DEF PublishTicket, RejectTicket
  <2>4. QED
    BY <1>7, <2>1, <2>2, <2>3
<1>8. ASSUME NEW c \in Chunks, \/ RemoveOrphan(c) \/ MoveChunk(c)
                               \/ FetchRaises(c) \/ ServeChunk(c) \/ Rank(c)
      PROVE  RowsWere /\ CopiesWere /\ TodoWas
  <2>1. CASE RemoveOrphan(c) \/ Rank(c)
    BY <1>2, <1>3, <1>4, <2>1 DEF RemoveOrphan, Rank
  <2>2. CASE MoveChunk(c)
    BY <1>2, <1>3, <1>5, <2>2 DEF MoveChunk, Begin
  <2>3. CASE FetchRaises(c)
    <3>1. \A k \in Kinds : \A d \in Chunks :
             job'[k][d].at = "asking" => \E i \in Kinds : job'[k][d] = job[i][d]
      BY <1>1, <2>3 DEF FetchRaises, Kinds, NoJob
    <3>2. CopiesWere
      BY <3>1
    <3>3. QED
      BY <1>2, <1>4, <2>3, <3>2 DEF FetchRaises
  <2>4. CASE ServeChunk(c)
    <3>1. row[c] \in Rows /\ row' = [row EXCEPT ![c] = [row[c] EXCEPT !.stored = FALSE]]
      BY <1>1, <2>4 DEF ServeChunk, Exists
    <3>2. RowsWere
      BY <1>1, <2>4, <3>1 DEF ServeChunk, Exists, Rows
    <3>3. QED
      BY <1>3, <1>4, <2>4, <3>2 DEF ServeChunk
  <2>5. QED
    BY <1>8, <2>1, <2>2, <2>3, <2>4
<1>9. ASSUME PlaceRow PROVE RowsWere /\ CopiesWere /\ TodoWas
  <2>1. RowsWere
    BY <1>1, <1>9 DEF PlaceRow, NewRow, Exists
  <2>2. section' # "activate"
    BY <1>9 DEF PlaceRow, Continue, Finish
  <2>3. QED
    BY <1>3, <1>5, <1>9, <2>1, <2>2 DEF PlaceRow
<1>10. ASSUME ActivateCreates PROVE RowsWere /\ CopiesWere /\ TodoWas
  <2>1. RowsWere
    BY <1>1, <1>10 DEF ActivateCreates, NewRow, Exists
  <2>2. QED
    BY <1>3, <1>4, <1>10, <2>1 DEF ActivateCreates
<1>11. ASSUME ActivateConfirms PROVE RowsWere /\ CopiesWere /\ TodoWas
  <2>1. Announced(Current) /\ actor \in published /\ Remaining \subseteq ChunksOf(actor)
    BY <1>1, <1>11 DEF ActivateConfirms, AnnouncedInv, Announced, Remaining, Current
  <2>2. \A c \in Chunks \ {Current} : row'[c] = row[c]
    BY <1>1, <1>11 DEF ActivateConfirms
  <2>3. RowsWere
    BY <2>1, <2>2 DEF Exists
  <2>4. {Tail(todo)[i] : i \in DOMAIN Tail(todo)} \subseteq Remaining
    <3>1. ASSUME NEW i \in DOMAIN Tail(todo)
          PROVE  i + 1 \in DOMAIN todo /\ Tail(todo)[i] = todo[i + 1]
      BY <1>1, <1>11 DEF ActivateConfirms
    <3>2. QED
      BY <3>1 DEF Remaining
  <2>5. TodoWas
    BY <1>11, <2>1, <2>4 DEF ActivateConfirms, Remaining, ChunksOf
  <2>6. QED
    BY <1>3, <1>11, <2>3, <2>5 DEF ActivateConfirms
<1>12. ASSUME SaveRow PROVE RowsWere /\ CopiesWere /\ TodoWas
  <2> DEFINE copy == job[actor][Current].copy
  <2>1. /\ todo # <<>> /\ Current \in Chunks /\ actor \in Kinds
        /\ job[actor][Current].at = "asking" /\ copy \in Rows
    BY <1>12, CurrentIsChunk DEF SaveRow, TypeOK, ControlInv, Current
  <2>2. copy.confirmed => Announced(Current)
    BY <2>1 DEF AnnouncedInv
  <2>3. row' = [row EXCEPT ![Current] =
                  [copy EXCEPT !.stored = TRUE, !.attempts = @ + 1]]
    BY <1>12 DEF SaveRow
  <2>4. [copy EXCEPT !.stored = TRUE, !.attempts = @ + 1].confirmed = copy.confirmed
    BY <2>1 DEF Rows
  <2> HIDE DEF copy
  <2>5. RowsWere
    BY <1>1, <2>1, <2>2, <2>3, <2>4 DEF Exists
  <2>6. \A k \in Kinds : \A c \in Chunks :
           job'[k][c] = job[k][c] \/ job'[k][c] = NoJob
    BY <1>1, <1>12, <2>1 DEF SaveRow, EndJob
  <2>7. CopiesWere
    BY <2>6 DEF NoJob
  <2>8. QED
    BY <1>5, <1>12, <2>5, <2>7 DEF SaveRow, Finish
<1>13. ASSUME NEW k \in Kinds, NEW c \in Chunks, Fetch(k, c)
       PROVE  RowsWere /\ CopiesWere /\ TodoWas
  <2>1. ASSUME EndJob(k, c) PROVE CopiesWere
    <3>1. \A i \in Kinds : \A d \in Chunks :
             job'[i][d] = job[i][d] \/ job'[i][d] = NoJob
      BY <1>1, <2>1 DEF EndJob
    <3>2. QED
      BY <3>1 DEF NoJob
  <2>2. CASE SkipAttempt(k, c)
    <3>1. row[c] \in Rows
      BY <1>1, <2>2 DEF SkipAttempt, ControlInv, Exists
    <3>2. row' = [row EXCEPT ![c] = [row[c] EXCEPT !.attempts = @ + 1]]
      BY <2>2 DEF SkipAttempt
    <3>3. [row[c] EXCEPT !.attempts = @ + 1].confirmed = row[c].confirmed
      BY <3>1 DEF Rows
    <3>4. RowsWere
      BY <1>1, <2>2, <3>2, <3>3 DEF SkipAttempt, ControlInv, Exists
    <3>5. QED
      BY <1>4, <2>1, <2>2, <3>4 DEF SkipAttempt
  <2>3. CASE AskOwners(k, c)
    <3>1. row[c] \in Rows /\ Exists(c)
      BY <1>1, <2>3 DEF AskOwners, ControlInv, Exists
    <3>2. \A i \in Kinds : \A d \in Chunks :
             job'[i][d] = job[i][d] \/ (d = c /\ job'[i][d].copy = row[c])
      BY <1>1, <2>3 DEF AskOwners
    <3>3. CopiesWere
      BY <3>1, <3>2
    <3>4. QED
      BY <1>2, <1>4, <2>3, <3>3 DEF AskOwners
  <2>4. CASE GiveUp(k, c)
    <3>1. job[k][c].copy \in Rows /\ (job[k][c].copy.confirmed => Announced(c))
      BY <2>4 DEF GiveUp, Asking, ControlInv, AnnouncedInv
    <3>2. row' = [row EXCEPT ![c] = [job[k][c].copy EXCEPT !.attempts = @ + 1]]
      BY <2>4 DEF GiveUp
    <3>3. [job[k][c].copy EXCEPT !.attempts = @ + 1].confirmed = job[k][c].copy.confirmed
      BY <3>1 DEF Rows
    <3>4. RowsWere
      BY <1>1, <3>1, <3>2, <3>3 DEF Exists
    <3>5. QED
      BY <1>4, <2>1, <2>4, <3>4 DEF GiveUp
  <2>5. CASE ReceiveChunk(k, c)
    BY <1>2, <1>3, <1>5, <2>5 DEF ReceiveChunk, Begin
  <2>6. QED
    BY <1>13, <2>2, <2>3, <2>4, <2>5 DEF Fetch
<1>14. published \subseteq published'
  <2>1. ASSUME NEW k \in Kinds, NEW c \in Chunks, Fetch(k, c)
        PROVE  published \subseteq published'
    BY <2>1 DEF Fetch, SkipAttempt, AskOwners, GiveUp, ReceiveChunk
  <2>2. ASSUME NEW c \in Chunks, \/ RemoveOrphan(c) \/ MoveChunk(c)
                                 \/ FetchRaises(c) \/ ServeChunk(c) \/ Rank(c)
        PROVE  published \subseteq published'
    BY <2>2 DEF RemoveOrphan, MoveChunk, FetchRaises, ServeChunk, Rank
  <2>3. ASSUME NEW t \in Tickets, \/ PlaceImage(t) \/ PublishTicket(t)
                                  \/ RejectTicket(t) \/ ActivateTicket(t)
        PROVE  published \subseteq published'
    BY <2>3 DEF PlaceImage, PublishTicket, RejectTicket, ActivateTicket
  <2>4. CASE SectionStep \/ StartRound \/ Crash \/ UNCHANGED vars
    BY <2>4
       DEF SectionStep, OpenFile, WriteFile, PlaceRow, PlaceRejected, ActivateCreates,
           ActivateConfirms, ActivateRecords, MoveUnlinks, SaveRow, StartRound, Crash,
           vars
  <2>5. QED
    BY <2>1, <2>2, <2>3, <2>4 DEF Next
<1>15. RowsWere /\ CopiesWere /\ TodoWas
  <2> HIDE DEF RowsWere, CopiesWere, TodoWas
  <2>1. QED
    BY <1>6, <1>7, <1>8, <1>9, <1>10, <1>11, <1>12, <1>13 DEF Next, SectionStep
<1>16. QED
  BY <1>14, <1>15, AnnouncedKept

(***************************************************************************)
(* A chunk counts as confirmed only on the strength of a published ticket: *)
(* neither placing nor a stale save confirms anything of its own.          *)
(***************************************************************************)
THEOREM ConfirmedHasTicket == Spec => []ConfirmedIsPublished
<1>1. Init => AnnouncedInv
  BY DEF Init, AnnouncedInv, Exists, NoJobs, NoJob
<1>2. AnnouncedInv => ConfirmedIsPublished
  BY DEF AnnouncedInv, Announced, ConfirmedIsPublished
<1>3. QED
  BY <1>1, <1>2, AnnouncedStep, TypeCorrect, PTL DEF Spec

-----------------------------------------------------------------------------
(* What ChunkKeeper sees of a state: the variables of Promise. *)
seen == <<UNION {ChunksOf(t) : t \in published},
          {c \in Chunks : HasFile(c)},
          {c \in Chunks : Exists(c)},
          {c \in Chunks : Exists(c) /\ row[c].stored},
          {c \in Chunks : Exists(c) /\ row[c].confirmed}>>

LEMMA UnseenStep ==
    UNCHANGED <<row, tmp, pers, published>> => UNCHANGED seen
BY DEF seen, HasFile, Exists, ChunksOf

(* A row that is written is a note, if file and ticket are behind it. *)
LEMMA NoteSeen ==
    ASSUME TypeOK, NEW c \in Chunks, NEW r \in Rows,
           row' = [row EXCEPT ![c] = r], UNCHANGED <<tmp, pers, published>>,
           Exists(c) \/ HasFile(c) \/ Announced(c),
           r.stored => HasFile(c),
           r.confirmed => Announced(c)
    PROVE  Promise!Note(c)
<1>1. /\ row \in [Chunks -> Rows \cup {NoRow}] /\ NoRow \notin Rows
      /\ row'[c] = r /\ \A b \in Chunks \ {c} : row'[b] = row[b]
      /\ r.stored \in BOOLEAN /\ r.confirmed \in BOOLEAN
  BY StoreAssumption DEF TypeOK, Rows
<1>2. c \in UNION {ChunksOf(t) : t \in published} <=> Announced(c)
  BY DEF Announced
<1>3. {b \in Chunks : Exists(b)}' = {b \in Chunks : Exists(b)} \cup {c}
  BY <1>1 DEF Exists
<1>4. {b \in Chunks : Exists(b) /\ row[b].stored}'
        = IF r.stored THEN {b \in Chunks : Exists(b) /\ row[b].stored} \cup {c}
                      ELSE {b \in Chunks : Exists(b) /\ row[b].stored} \ {c}
  BY <1>1 DEF Exists
<1>5. {b \in Chunks : Exists(b) /\ row[b].confirmed}'
        = IF r.confirmed THEN {b \in Chunks : Exists(b) /\ row[b].confirmed} \cup {c}
                         ELSE {b \in Chunks : Exists(b) /\ row[b].confirmed} \ {c}
  BY <1>1 DEF Exists
<1>6. /\ {b \in Chunks : HasFile(b)}' = {b \in Chunks : HasFile(b)}
      /\ (UNION {ChunksOf(t) : t \in published})' = UNION {ChunksOf(t) : t \in published}
  BY DEF HasFile, ChunksOf
<1>7. c \in {b \in Chunks : Exists(b)} \cup {b \in Chunks : HasFile(b)}
               \cup (UNION {ChunksOf(t) : t \in published})
  BY <1>2
<1>8. QED
  BY <1>2, <1>3, <1>4, <1>5, <1>6, <1>7 DEF Promise!Note

(* A file that is opened or written is there, and no other changes. *)
LEMMA FileSeen ==
    ASSUME NEW c \in Chunks, UNCHANGED <<row, published>>, HasFile(c)',
           \A b \in Chunks \ {c} : tmp'[b] = tmp[b] /\ pers'[b] = pers[b]
    PROVE  Promise!File(c)
<1>1. {b \in Chunks : HasFile(b)}' = {b \in Chunks : HasFile(b)} \cup {c}
  BY DEF HasFile
<1>2. QED
  BY <1>1 DEF Promise!File, Exists, ChunksOf

(* The two halves of a write. *)
LEMMA WritingSeen ==
    ASSUME TypeOK, ControlInv, FileInv, OpenFile \/ WriteFile
    PROVE  \E c \in Chunks : Promise!File(c)
<1>1. /\ section \in {"place", "move", "save"} /\ Current \in Chunks
      /\ tmp \in [Chunks -> Files] /\ pers \in [Chunks -> Files]
      /\ UNCHANGED <<row, published>>
  BY CurrentIsChunk
  DEF OpenFile, WriteFile, TypeOK, ControlInv, Current, outside
<1>2. PICK c \in Chunks : c = Current
  BY <1>1
<1>3. \A b \in Chunks \ {c} : tmp'[b] = tmp[b] /\ pers'[b] = pers[b]
  BY <1>1, <1>2 DEF OpenFile, WriteFile
<1>4. tmp'[c] # "absent" \/ pers'[c] # "absent"
  BY <1>1, <1>2 DEF OpenFile, WriteFile, FileInv, BodyHasFile
<1>5. HasFile(c)'
  BY <1>4 DEF HasFile
<1>6. QED
  BY <1>1, <1>3, <1>5, FileSeen

(* Rows the two bodies write for a placed image or an activated ticket. *)
LEMMA BodyRowSeen ==
    ASSUME TypeOK, ControlInv, FileInv, AnnouncedInv,
           PlaceRow \/ ActivateCreates \/ ActivateConfirms
    PROVE  \E c \in Chunks : Promise!Note(c)
<1>1. /\ todo # <<>> /\ todo \in Seq(Chunks) /\ Current \in Chunks
      /\ UNCHANGED <<tmp, pers, published>>
  BY CurrentIsChunk
  DEF PlaceRow, ActivateCreates, ActivateConfirms, TypeOK, ControlInv, Current, outside
<1>2. NewRow(TRUE) \in Rows /\ NewRow(FALSE) \in Rows
  BY DEF NewRow, Rows
<1>3. section = "activate" => Announced(Current)
  <2> SUFFICES ASSUME section = "activate" PROVE Announced(Current)
    OBVIOUS
  <2>1. Current \in Remaining
    BY <1>1 DEF Remaining, Current
  <2>2. QED
    BY <2>1 DEF AnnouncedInv, Announced
<1>4. CASE PlaceRow
  <2>1. HasFile(Current)
    BY <1>4 DEF PlaceRow, FileInv, BodyHasFile, HasFile
  <2>2. row' = [row EXCEPT ![Current] = NewRow(TRUE)] /\ ~NewRow(TRUE).confirmed
    BY <1>4 DEF PlaceRow, NewRow
  <2>3. QED
    BY <1>1, <1>2, <2>1, <2>2, NoteSeen
<1>5. CASE ActivateCreates
  <2>1. /\ row' = [row EXCEPT ![Current] = NewRow(FALSE)]
        /\ ~NewRow(FALSE).confirmed /\ ~NewRow(FALSE).stored
    BY <1>5 DEF ActivateCreates, NewRow
  <2>2. Announced(Current)
    BY <1>3, <1>5 DEF ActivateCreates
  <2>3. QED
    BY <1>1, <1>2, <2>1, <2>2, NoteSeen
<1>6. CASE ActivateConfirms
  <2> DEFINE r == [row[Current] EXCEPT !.confirmed = TRUE]
  <2>1. Exists(Current) /\ row[Current] \in Rows /\ row' = [row EXCEPT ![Current] = r]
    BY <1>1, <1>6 DEF ActivateConfirms, Exists, TypeOK
  <2>2. r \in Rows /\ r.stored = row[Current].stored
    BY <2>1, ColumnsSet DEF Rows
  <2>3. r.stored => HasFile(Current)
    BY <1>1, <2>1, <2>2 DEF FileInv, StoredHasFile
  <2>4. Announced(Current)
    BY <1>3, <1>6 DEF ActivateConfirms
  <2> HIDE DEF r
  <2>5. QED
    BY <1>1, <2>1, <2>2, <2>3, <2>4, NoteSeen
<1>7. QED
  BY <1>4, <1>5, <1>6

(* Rows the fetcher writes back from its copies, and the one a serving node corrects. *)
LEMMA FetchedRowSeen ==
    ASSUME TypeOK, ControlInv, FileInv, AnnouncedInv, NEW k \in Kinds, NEW c \in Chunks,
           SkipAttempt(k, c) \/ GiveUp(k, c) \/ ServeChunk(c)
    PROVE  Promise!Note(c)
<1>1. UNCHANGED <<tmp, pers, published>> /\ Exists(c) /\ row[c] \in Rows
  BY DEF SkipAttempt, GiveUp, ServeChunk, ControlInv, Asking, Exists, TypeOK, outside
<1>2. /\ row[c].stored => HasFile(c)
      /\ row[c].confirmed => Announced(c)
  BY <1>1 DEF FileInv, StoredHasFile, AnnouncedInv
<1>3. CASE SkipAttempt(k, c)
  <2> DEFINE r == [row[c] EXCEPT !.attempts = @ + 1]
  <2>1. row' = [row EXCEPT ![c] = r]
    BY <1>3 DEF SkipAttempt
  <2>2. r \in Rows /\ r.stored = row[c].stored /\ r.confirmed = row[c].confirmed
    BY <1>1, ColumnsSet DEF Rows
  <2> HIDE DEF r
  <2>3. QED
    BY <1>1, <1>2, <2>1, <2>2, NoteSeen
<1>4. CASE GiveUp(k, c)
  <2> DEFINE r == [job[k][c].copy EXCEPT !.attempts = @ + 1]
  <2>1. job[k][c].at = "asking" /\ row' = [row EXCEPT ![c] = r]
    BY <1>4 DEF GiveUp, Asking
  <2>2. job[k][c].copy \in Rows
    BY <2>1 DEF ControlInv
  <2>3. /\ r \in Rows /\ r.stored = job[k][c].copy.stored
        /\ r.confirmed = job[k][c].copy.confirmed
    BY <2>2, ColumnsSet DEF Rows
  <2>4. (r.stored => HasFile(c)) /\ (r.confirmed => Announced(c))
    BY <2>1, <2>3 DEF FileInv, CopiesHaveFile, AnnouncedInv
  <2> HIDE DEF r
  <2>5. QED
    BY <1>1, <2>1, <2>3, <2>4, NoteSeen
<1>5. CASE ServeChunk(c)
  <2> DEFINE r == [row[c] EXCEPT !.stored = FALSE]
  <2>1. row' = [row EXCEPT ![c] = r]
    BY <1>5 DEF ServeChunk
  <2>2. r \in Rows /\ ~r.stored /\ r.confirmed = row[c].confirmed
    BY <1>1, ColumnsSet DEF Rows
  <2> HIDE DEF r
  <2>3. QED
    BY <1>1, <1>2, <2>1, <2>2, NoteSeen
<1>6. QED
  BY <1>3, <1>4, <1>5

(* A fetched chunk is saved: the file is there before the row says so. *)
LEMMA SavedRowSeen ==
    ASSUME TypeOK, ControlInv, FileInv, AnnouncedInv, SaveRow
    PROVE  \E c \in Chunks : Promise!Note(c)
<1>1. /\ section = "save" /\ actor \in Kinds /\ Current \in Chunks
      /\ UNCHANGED <<tmp, pers, published>>
  BY CurrentIsChunk DEF SaveRow, TypeOK, ControlInv, Current, outside
<1> DEFINE old == job[actor][Current].copy
           r == [old EXCEPT !.stored = TRUE, !.attempts = @ + 1]
<1>2. /\ job[actor][Current].at = "asking" /\ old \in Rows
      /\ row' = [row EXCEPT ![Current] = r] /\ Exists(Current)
  BY <1>1 DEF SaveRow, ControlInv
<1>3. r \in Rows /\ r.confirmed = old.confirmed
  BY <1>2, ColumnsSet DEF Rows
<1>4. HasFile(Current)
  BY <1>1 DEF SaveRow, FileInv, BodyHasFile, HasFile
<1>5. old.confirmed => Announced(Current)
  BY <1>1, <1>2 DEF AnnouncedInv
<1> HIDE DEF r, old
<1>6. QED
  BY <1>1, <1>2, <1>3, <1>4, <1>5, NoteSeen

(* A file leaves the temporary directory. *)
LEMMA RemovalSeen ==
    ASSUME TypeOK, ControlInv, FileInv
    PROVE  /\ MoveUnlinks => UNCHANGED seen
           /\ \A c \in Chunks :
                 RemoveOrphan(c) => Promise!Discard(c) \/ UNCHANGED seen
<1>1. tmp \in [Chunks -> Files]
  BY DEF TypeOK
<1>2. ASSUME MoveUnlinks PROVE UNCHANGED seen
  <2>1. Current \in Chunks /\ pers[Current] # "absent"
    BY <1>2, CurrentIsChunk
    DEF MoveUnlinks, FileInv, BodyHasFile, ControlInv, Current, TypeOK
  <2>2. UNCHANGED <<row, pers, published>>
    BY <1>2 DEF MoveUnlinks, outside
  <2>3. \A b \in Chunks : HasFile(b)' <=> HasFile(b)
    BY <1>1, <1>2, <2>1, <2>2 DEF MoveUnlinks, HasFile
  <2>4. QED
    BY <2>2, <2>3 DEF seen, Exists, ChunksOf
<1>3. ASSUME NEW c \in Chunks, RemoveOrphan(c)
      PROVE  Promise!Discard(c) \/ UNCHANGED seen
  <2>1. ~Exists(c) /\ UNCHANGED <<row, pers, published>>
    BY <1>3 DEF RemoveOrphan, outside
  <2>2. \A b \in Chunks : IF b = c THEN HasFile(b)' <=> pers[c] # "absent"
                                   ELSE HasFile(b)' <=> HasFile(b)
    BY <1>1, <1>3, <2>1 DEF RemoveOrphan, HasFile
  <2>3. CASE pers[c] # "absent"
    <3>1. \A b \in Chunks : HasFile(b)' <=> HasFile(b)
      BY <2>2, <2>3 DEF HasFile
    <3>2. QED
      BY <2>1, <3>1 DEF seen, Exists, ChunksOf
  <2>4. CASE pers[c] = "absent"
    <3>1. {b \in Chunks : HasFile(b)}' = {b \in Chunks : HasFile(b)} \ {c}
      BY <2>2, <2>4
    <3>2. QED
      BY <2>1, <3>1 DEF Promise!Discard, Exists, ChunksOf
  <2>5. QED
    BY <2>3, <2>4
<1>4. QED
  BY <1>2, <1>3

(* The chunks of a published ticket are announced. *)
LEMMA TicketAnnounced ==
    ASSUME NEW t \in Tickets, PublishTicket(t)
    PROVE  \E S \in SUBSET Chunks : Promise!Announce(S)
<1>1. ChunksOf(t) \subseteq Chunks
  BY StoreAssumption DEF ChunksOf
<1>2. published' = published \cup {t} /\ UNCHANGED <<row, tmp, pers>>
  BY DEF PublishTicket, disk
<1>3. (UNION {ChunksOf(u) : u \in published})'
        = (UNION {ChunksOf(u) : u \in published}) \cup ChunksOf(t)
  BY <1>2 DEF ChunksOf
<1>4. QED
  BY <1>1, <1>2, <1>3 DEF Promise!Announce, HasFile, Exists

LEMMA KeeperStep ==
    TypeOK /\ ControlInv /\ FileInv /\ AnnouncedInv /\ [Next]_vars
        => [Promise!Next]_seen
<1> SUFFICES ASSUME TypeOK, ControlInv, FileInv, AnnouncedInv, [Next]_vars
             PROVE  Promise!Next \/ UNCHANGED seen
  OBVIOUS
<1>1. CASE OpenFile \/ WriteFile
  BY <1>1, WritingSeen DEF Promise!Next
<1>2. CASE PlaceRow \/ ActivateCreates \/ ActivateConfirms
  BY <1>2, BodyRowSeen DEF Promise!Next
<1>3. CASE SaveRow
  BY <1>3, SavedRowSeen DEF Promise!Next
<1>4. CASE MoveUnlinks
  BY <1>4, RemovalSeen
<1>5. ASSUME NEW c \in Chunks, RemoveOrphan(c)
      PROVE  Promise!Next \/ UNCHANGED seen
  BY <1>5, RemovalSeen DEF Promise!Next
<1>6. ASSUME NEW c \in Chunks, NEW k \in Kinds,
             SkipAttempt(k, c) \/ GiveUp(k, c) \/ ServeChunk(c)
      PROVE  Promise!Next
  BY <1>6, FetchedRowSeen DEF Promise!Next
<1>7. ASSUME NEW t \in Tickets, PublishTicket(t) PROVE Promise!Next
  BY <1>7, TicketAnnounced DEF Promise!Next
<1>8. CASE UNCHANGED <<row, tmp, pers, published>>
  BY <1>8, UnseenStep
<1>9. ASSUME NEW t \in Tickets, PlaceImage(t) \/ RejectTicket(t) \/ ActivateTicket(t)
      PROVE  UNCHANGED <<row, tmp, pers, published>>
  BY <1>9 DEF PlaceImage, RejectTicket, ActivateTicket, disk, outside
<1>10. ASSUME NEW c \in Chunks, NEW k \in Kinds,
              \/ MoveChunk(c) \/ FetchRaises(c) \/ Rank(c)
              \/ AskOwners(k, c) \/ ReceiveChunk(k, c)
       PROVE  UNCHANGED <<row, tmp, pers, published>>
  BY <1>10 DEF MoveChunk, FetchRaises, Rank, AskOwners, ReceiveChunk, disk, outside
<1>11. CASE PlaceRejected \/ ActivateRecords \/ StartRound \/ Crash \/ UNCHANGED vars
  <2>1. UNCHANGED <<row, tmp, pers, published>>
    BY <1>11 DEF PlaceRejected, ActivateRecords, StartRound, Crash, vars, disk, outside
  <2>2. QED
    BY <1>8, <2>1
<1>12. "gathered" \in Kinds
  BY DEF Kinds
<1>13. QED
  BY <1>1, <1>2, <1>3, <1>4, <1>5, <1>6, <1>7, <1>8, <1>9, <1>10, <1>11, <1>12
  DEF Next, SectionStep, Fetch

(***************************************************************************)
(* ChunkStore implements ChunkKeeper, for any chunks, tickets, retries and *)
(* crashes: the node never gives up the file of a chunk it has a row for,  *)
(* and claims nothing without a file or a ticket.                          *)
(***************************************************************************)
THEOREM StoreImplements == Spec => KeepsChunks
<1>1. Init => Promise!Init /\ FileInv /\ AnnouncedInv
  BY DEF Init, Promise!Init, FileInv, StoredHasFile, CopiesHaveFile, BodyHasFile,
         AnnouncedInv, Exists, HasFile, NoJobs, NoJob, ChunksOf
<1>2. QED
  BY <1>1, FileStep, AnnouncedStep, TypeCorrect, KeeperStep, PTL
  DEF Spec, KeepsChunks, Promise!Spec, seen

=============================================================================
