-------------------------- MODULE ChunkIndexProofs --------------------------
(***************************************************************************)
(* Proofs about ChunkIndex for every set of chunks and masternodes, every  *)
(* replication factor and any number of crashes.                           *)
(***************************************************************************)
EXTENDS ChunkIndex, FiniteSetTheorems, WellFoundedInduction, TLAPS

(***************************************************************************)
(* Where the body in progress stands: pairs are pending only while one of  *)
(* the two bodies writes distances, the batch of index_new_chunks is not   *)
(* marked yet, and the table is empty between the two ranking statements.  *)
(***************************************************************************)
SectionInv ==
    /\ section \notin {"refresh", "index"} => todo = {}
    /\ indexed \subseteq chunk
    /\ batch \subseteq chunk
    /\ \A c \in Chunks : copy[c] # "none" => c \in chunk
    /\ section = "index" => /\ batch \cap indexed = {}
                            /\ \A p \in todo : p[1] \in batch
    /\ section = "insert" => ranked = {}

(***************************************************************************)
(* DistancesComplete strengthened to the chunks that will count as indexed *)
(* later: those of the batch, and those a coroutine has read as indexed.   *)
(***************************************************************************)
Settled(c) == \/ c \in indexed
              \/ copy[c] = "indexed"
              \/ section = "index" /\ c \in batch

CompleteInv ==
    \A c \in Chunks : \A m \in masternode \ cutShort :
        Settled(c) => distance[c][m] > 0 \/ <<c, m>> \in todo

IndexInv == TypeOK /\ SectionInv /\ CompleteInv

-----------------------------------------------------------------------------
(* Inserting a row keeps the counts in range and lowers none of them. *)
LEMMA AddRowFacts ==
    ASSUME NEW d \in [Chunks -> [Masternodes -> RowCount]],
           NEW c \in Chunks, NEW m \in Masternodes
    PROVE  /\ AddRow(d, c, m) \in [Chunks -> [Masternodes -> RowCount]]
           /\ AddRow(d, c, m)[c][m] > 0
           /\ \A b \in Chunks : \A n \in Masternodes :
                 d[b][n] > 0 => AddRow(d, c, m)[b][n] > 0
<1>1. ReplicationFactor \in Nat /\ ReplicationFactor > 0
  BY IndexAssumption
<1>2. d[c] \in [Masternodes -> RowCount] /\ d[c][m] \in RowCount
  OBVIOUS
<1>3. (IF d[c][m] < ReplicationFactor THEN d[c][m] + 1 ELSE d[c][m])
          \in 1 .. ReplicationFactor
  BY <1>1, <1>2 DEF RowCount
<1>4. QED
  BY <1>1, <1>2, <1>3 DEF AddRow, RowCount

(* The ranking holds rows of the kept ranks only. *)
LEMMA RankingType ==
    \A d : Ranking(d) \subseteq Chunks \X Masternodes \X (1 .. ReplicationFactor)
BY DEF Ranking

(***************************************************************************)
(* Type correctness: every reachable state of the tables and of the tasks  *)
(* is well formed.                                                         *)
(***************************************************************************)
THEOREM TypeCorrect == Spec => []TypeOK
<1>1. Init => TypeOK
  <2> SUFFICES ASSUME Init PROVE TypeOK
    OBVIOUS
  <2>1. distance \in [Chunks -> [Masternodes -> RowCount]]
    <3>1. 0 \in RowCount
      BY IndexAssumption DEF RowCount
    <3>2. QED
      BY <3>1 DEF Init
  <2>2. crashes \in 0 .. MaxCrashes
    BY IndexAssumption DEF Init
  <2>3. QED
    BY <2>1, <2>2 DEF Init, TypeOK, Sections, Copies
<1>2. TypeOK /\ [Next]_vars => TypeOK'
  <2> SUFFICES ASSUME TypeOK, [Next]_vars PROVE TypeOK'
    OBVIOUS
  <2> USE DEF TypeOK, tables, history
  <2>1. ASSUME NEW c \in Chunks, CreateChunk(c) PROVE TypeOK'
    BY <2>1 DEF CreateChunk
  <2>2. ASSUME NEW c \in Chunks, FetchRead(c) PROVE TypeOK'
    BY <2>2 DEF FetchRead, Copies
  <2>3. ASSUME NEW c \in Chunks, FetchSave(c) PROVE TypeOK'
    BY <2>3 DEF FetchSave, Copies
  <2>4. ASSUME NEW fresh \in SUBSET Masternodes, RefreshMasternodes(fresh)
        PROVE  TypeOK'
    BY <2>4 DEF RefreshMasternodes, Sections
  <2>5. CASE IndexNewChunks
    BY <2>5 DEF IndexNewChunks, Sections
  <2>6. CASE InsertDistance
    <3>1. PICK p \in todo : /\ todo' = todo \ {p}
                            /\ distance' = AddRow(distance, p[1], p[2])
      BY <2>6 DEF InsertDistance
    <3>2. p[1] \in Chunks /\ p[2] \in Masternodes
      OBVIOUS
    <3>3. distance' \in [Chunks -> [Masternodes -> RowCount]]
      BY <3>1, <3>2, AddRowFacts
    <3>4. QED
      BY <2>6, <3>1, <3>3 DEF InsertDistance
  <2>7. CASE RefreshMeasured
    BY <2>7 DEF RefreshMeasured, Sections
  <2>8. CASE MarkIndexed
    BY <2>8 DEF MarkIndexed, Sections
  <2>9. CASE DeleteRanking
    BY <2>9 DEF DeleteRanking, Sections
  <2>10. CASE InsertRanking
    BY <2>10, RankingType DEF InsertRanking, Sections
  <2>11. CASE Crash
    <3>1. crashes' \in 0 .. MaxCrashes
      BY <2>11, IndexAssumption DEF Crash
    <3>2. cutShort' \subseteq Masternodes /\ ranksDue' \in BOOLEAN
      BY <2>11 DEF Crash
    <3>3. QED
      BY <2>11, <3>1, <3>2 DEF Crash, Sections, Copies
  <2>12. CASE UNCHANGED vars
    BY <2>12 DEF vars
  <2>13. QED
    BY <2>1, <2>2, <2>3, <2>4, <2>5, <2>6, <2>7, <2>8, <2>9, <2>10, <2>11,
       <2>12 DEF Next, SectionStep
<1>3. QED
  BY <1>1, <1>2, PTL DEF Spec

-----------------------------------------------------------------------------
(* The control of the bodies: see SectionInv. *)
LEMMA SectionStepInv ==
    TypeOK /\ SectionInv /\ [Next]_vars => SectionInv'
<1> SUFFICES ASSUME TypeOK, SectionInv, [Next]_vars PROVE SectionInv'
  OBVIOUS
<1> USE DEF TypeOK, SectionInv, tables, history
<1>1. ASSUME NEW c \in Chunks, CreateChunk(c) PROVE SectionInv'
  BY <1>1 DEF CreateChunk
<1>2. ASSUME NEW c \in Chunks, FetchRead(c) PROVE SectionInv'
  BY <1>2 DEF FetchRead
<1>3. ASSUME NEW c \in Chunks, FetchSave(c) PROVE SectionInv'
  BY <1>3 DEF FetchSave
<1>4. ASSUME NEW fresh \in SUBSET Masternodes, RefreshMasternodes(fresh)
      PROVE  SectionInv'
  BY <1>4 DEF RefreshMasternodes
<1>5. CASE IndexNewChunks
  BY <1>5 DEF IndexNewChunks
<1>6. CASE InsertDistance
  BY <1>6 DEF InsertDistance
<1>7. CASE RefreshMeasured
  BY <1>7 DEF RefreshMeasured
<1>8. CASE MarkIndexed
  BY <1>8 DEF MarkIndexed
<1>9. CASE DeleteRanking
  BY <1>9 DEF DeleteRanking
<1>10. CASE InsertRanking
  BY <1>10 DEF InsertRanking
<1>11. CASE Crash
  BY <1>11 DEF Crash
<1>12. CASE UNCHANGED vars
  BY <1>12 DEF vars
<1>13. QED
  BY <1>1, <1>2, <1>3, <1>4, <1>5, <1>6, <1>7, <1>8, <1>9, <1>10, <1>11,
     <1>12 DEF Next, SectionStep

(***************************************************************************)
(* The heart of the argument: no statement of any body, no stale save and  *)
(* no crash takes away a distance that a settled chunk has.                *)
(***************************************************************************)
LEMMA CompleteStepInv ==
    IndexInv /\ [Next]_vars => CompleteInv'
<1> SUFFICES ASSUME IndexInv, [Next]_vars,
                    NEW b \in Chunks, NEW m \in masternode' \ cutShort',
                    Settled(b)'
             PROVE  distance'[b][m] > 0 \/ <<b, m>> \in todo'
  BY DEF CompleteInv
<1> USE DEF IndexInv, TypeOK, SectionInv, CompleteInv, Settled, tables, history
<1>1. ASSUME NEW c \in Chunks, CreateChunk(c)
      PROVE  distance'[b][m] > 0 \/ <<b, m>> \in todo'
  BY <1>1 DEF CreateChunk
<1>2. ASSUME NEW c \in Chunks, FetchRead(c)
      PROVE  distance'[b][m] > 0 \/ <<b, m>> \in todo'
  BY <1>2 DEF FetchRead
<1>3. ASSUME NEW c \in Chunks, FetchSave(c)
      PROVE  distance'[b][m] > 0 \/ <<b, m>> \in todo'
  BY <1>3 DEF FetchSave
<1>4. ASSUME NEW fresh \in SUBSET Masternodes, RefreshMasternodes(fresh)
      PROVE  distance'[b][m] > 0 \/ <<b, m>> \in todo'
  <2>1. b \in chunk /\ Settled(b)
    BY <1>4 DEF RefreshMasternodes
  <2>2. CASE m \in masternode
    BY <1>4, <2>1, <2>2 DEF RefreshMasternodes
  <2>3. CASE m \notin masternode
    BY <1>4, <2>1, <2>3 DEF RefreshMasternodes
  <2>4. QED
    BY <2>2, <2>3
<1>5. CASE IndexNewChunks
  <2>1. CASE b \in batch'
    BY <1>5, <2>1 DEF IndexNewChunks
  <2>2. CASE b \notin batch'
    BY <1>5, <2>2 DEF IndexNewChunks
  <2>3. QED
    BY <2>1, <2>2
<1>6. CASE InsertDistance
  <2>1. PICK p \in todo : /\ todo' = todo \ {p}
                          /\ distance' = AddRow(distance, p[1], p[2])
    BY <1>6 DEF InsertDistance
  <2>2. p[1] \in Chunks /\ p[2] \in Masternodes /\ p = <<p[1], p[2]>>
    OBVIOUS
  <2>3. m \in Masternodes /\ (distance[b][m] > 0 \/ <<b, m>> \in todo)
    BY <1>6 DEF InsertDistance
  <2>4. CASE p = <<b, m>>
    BY <2>1, <2>2, <2>3, <2>4, AddRowFacts
  <2>5. CASE p # <<b, m>>
    <3>1. <<b, m>> \in todo => <<b, m>> \in todo'
      BY <2>1, <2>5
    <3>2. distance[b][m] > 0 => distance'[b][m] > 0
      BY <2>1, <2>2, <2>3, AddRowFacts
    <3>3. QED
      BY <2>3, <3>1, <3>2
  <2>6. QED
    BY <2>4, <2>5
<1>7. CASE RefreshMeasured
  BY <1>7 DEF RefreshMeasured
<1>8. CASE MarkIndexed
  BY <1>8 DEF MarkIndexed
<1>9. CASE DeleteRanking
  BY <1>9 DEF DeleteRanking
<1>10. CASE InsertRanking
  BY <1>10 DEF InsertRanking
<1>11. CASE Crash
  <2>1. b \in indexed /\ m \in masternode \ cutShort /\ distance' = distance
    BY <1>11 DEF Crash
  <2>2. distance[b][m] > 0 \/ <<b, m>> \in todo
    BY <2>1
  <2>3. ASSUME <<b, m>> \in todo PROVE FALSE
    <3>1. CASE section = "refresh"
      <4>1. m \in {p[2] : p \in todo}
        <5>1. <<b, m>>[2] = m
          OBVIOUS
        <5>2. QED
          BY <2>3, <5>1
      <4>2. QED
        BY <1>11, <3>1, <4>1 DEF Crash
    <3>2. CASE section = "index"
      BY <2>1, <2>3, <3>2
    <3>3. QED
      BY <2>3, <3>1, <3>2
  <2>4. QED
    BY <2>1, <2>2, <2>3
<1>12. CASE UNCHANGED vars
  BY <1>12 DEF vars
<1>13. QED
  BY <1>1, <1>2, <1>3, <1>4, <1>5, <1>6, <1>7, <1>8, <1>9, <1>10, <1>11,
     <1>12 DEF Next, SectionStep

(***************************************************************************)
(* What `indexed' promises, for every instance: an indexed chunk has its   *)
(* distance to every known masternode, or the row is being written, unless *)
(* a crash cut short the refresh that added the masternode.                *)
(***************************************************************************)
THEOREM IndexedIsMeasured == Spec => []DistancesComplete
<1>1. Init => SectionInv /\ CompleteInv
  BY DEF Init, SectionInv, CompleteInv
<1>2. IndexInv /\ [Next]_vars => SectionInv' /\ CompleteInv'
  BY SectionStepInv, CompleteStepInv DEF IndexInv
<1>3. IndexInv => DistancesComplete
  BY DEF IndexInv, CompleteInv, Settled, DistancesComplete, TypeOK
<1>4. QED
  BY <1>1, <1>2, <1>3, TypeCorrect, PTL DEF Spec, IndexInv

(***************************************************************************)
(* Each body that changes distances leaves the ranking those distances     *)
(* give, so between bodies the ranking is current unless a crash           *)
(* interrupted one.  Ranking itself stays unexpanded: the argument is      *)
(* about when the table is rewritten, not about what a rank is.            *)
(***************************************************************************)
THEOREM RankingFollowsDistances == Spec => []RankingIsCurrent
<1>1. Init => SectionInv /\ RankingIsCurrent
  <2> SUFFICES ASSUME Init PROVE RankingIsCurrent
    BY DEF Init, SectionInv
  <2>1. Ranking(distance) = {}
    <3>1. ASSUME NEW row \in Ranking(distance) PROVE FALSE
      <4>1. row \in Chunks \X Masternodes \X (1 .. ReplicationFactor)
        BY <3>1, RankingType
      <4>2. row[1] \in Chunks /\ row[2] \in Masternodes
        BY <4>1
      <4>3. distance[row[1]][row[2]] = 0
        BY <4>2 DEF Init
      <4>4. QED
        BY <3>1, <4>3 DEF Ranking
    <3>2. QED
      BY <3>1
  <2>2. QED
    BY <2>1 DEF Init, RankingIsCurrent
<1>2. ASSUME TypeOK, SectionInv, RankingIsCurrent, [Next]_vars
      PROVE  RankingIsCurrent'
  <2> USE <1>2 DEF RankingIsCurrent, TypeOK, SectionInv, tables, history
  <2>1. ASSUME NEW c \in Chunks, CreateChunk(c) \/ FetchRead(c) \/ FetchSave(c)
        PROVE  RankingIsCurrent'
    BY <2>1 DEF CreateChunk, FetchRead, FetchSave
  <2>2. ASSUME NEW fresh \in SUBSET Masternodes, RefreshMasternodes(fresh)
        PROVE  RankingIsCurrent'
    BY <2>2 DEF RefreshMasternodes
  <2>3. CASE IndexNewChunks
    BY <2>3 DEF IndexNewChunks
  <2>4. CASE InsertDistance
    BY <2>4 DEF InsertDistance
  <2>5. CASE RefreshMeasured \/ MarkIndexed \/ DeleteRanking
    BY <2>5 DEF RefreshMeasured, MarkIndexed, DeleteRanking
  <2>6. CASE InsertRanking
    BY <2>6 DEF InsertRanking
  <2>7. CASE Crash
    BY <2>7 DEF Crash
  <2>8. CASE UNCHANGED vars
    BY <2>8 DEF vars
  <2>9. QED
    BY <2>1, <2>2, <2>3, <2>4, <2>5, <2>6, <2>7, <2>8 DEF Next, SectionStep
<1>3. QED
  BY <1>1, <1>2, SectionStepInv, TypeCorrect, PTL DEF Spec

-----------------------------------------------------------------------------
(* The rows nearer than a masternode are finitely many. *)
LEMMA RowsFinite ==
    ASSUME NEW c \in Chunks, NEW d \in [Chunks -> [Masternodes -> RowCount]],
           NEW S \in SUBSET RowsOf(d, c)
    PROVE  IsFiniteSet(S) /\ Cardinality(S) \in Nat
<1>1. IsFiniteSet(Masternodes) /\ IsFiniteSet(1 .. ReplicationFactor)
  BY IndexAssumption, FS_Interval
<1>2. IsFiniteSet(Masternodes \X (1 .. ReplicationFactor))
  BY <1>1, FS_Product
<1>3. S \subseteq Masternodes \X (1 .. ReplicationFactor)
  BY DEF RowsOf
<1>4. QED
  BY <1>2, <1>3, FS_Subset, FS_CardinalityType

(* Of two masternodes with a row, the farther one comes after the nearer. *)
LEMMA NearerIsBefore ==
    ASSUME NEW c \in Chunks, NEW d \in [Chunks -> [Masternodes -> RowCount]],
           NEW m \in Masternodes, NEW n \in Masternodes,
           d[c][n] > 0, Key[c][n] < Key[c][m]
    PROVE  RowsBefore(d, c, n) < RowsBefore(d, c, m)
<1> DEFINE S == {row \in RowsOf(d, c) : Key[c][row[1]] < Key[c][n]}
           T == {row \in RowsOf(d, c) : Key[c][row[1]] < Key[c][m]}
<1>1. IsFiniteSet(T)
  BY RowsFinite
<1>2. Key[c][n] \in Nat /\ Key[c][m] \in Nat
  BY IndexAssumption
<1>3. S \subseteq T
  <2> SUFFICES ASSUME NEW row \in RowsOf(d, c), Key[c][row[1]] < Key[c][n]
               PROVE  Key[c][row[1]] < Key[c][m]
    OBVIOUS
  <2>1. Key[c][row[1]] \in Nat
    BY IndexAssumption DEF RowsOf
  <2>2. QED
    BY <1>2, <2>1
<1>4. <<n, 1>> \in T \ S
  <2>1. <<n, 1>> \in RowsOf(d, c)
    BY IndexAssumption DEF RowsOf, RowCount
  <2>2. QED
    BY <1>2, <2>1
<1>5. Cardinality(S) < Cardinality(T)
  <2>1. Cardinality(S) \in Nat /\ Cardinality(T) \in Nat
    BY RowsFinite
  <2>2. Cardinality(S) <= Cardinality(T) /\ Cardinality(S) # Cardinality(T)
    <3> HIDE DEF S, T
    <3> QED
      BY <1>1, <1>3, <1>4, FS_Subset
  <2>3. QED
    BY <2>1, <2>2
<1>6. QED
  BY <1>5 DEF RowsBefore

(* Of the masternodes of a set that is not empty, one is nearest. *)
LEMMA NearestExists ==
    ASSUME NEW c \in Chunks, NEW S \in SUBSET Masternodes, S # {}
    PROVE  \E m \in S : \A n \in S : Key[c][m] <= Key[c][n]
<1> DEFINE keys == {Key[c][m] : m \in S}
<1>1. keys \subseteq Nat /\ keys # {}
  BY IndexAssumption
<1>2. PICK k \in keys : \A i \in keys : ~(<<i, k>> \in OpToRel(<, Nat))
  <2> HIDE DEF keys
  <2>1. IsWellFoundedOn(OpToRel(<, Nat), Nat)
    BY NatLessThanWellFounded
  <2>2. QED
    BY <1>1, <2>1, WFMin
<1>3. PICK m \in S : k = Key[c][m]
  OBVIOUS
<1>4. ASSUME NEW n \in S PROVE Key[c][m] <= Key[c][n]
  <2>1. Key[c][n] \in keys /\ Key[c][m] \in Nat /\ Key[c][n] \in Nat
    BY <1>1, <1>3
  <2>2. ~(Key[c][n] < Key[c][m])
    BY <1>2, <1>3, <2>1 DEF OpToRel
  <2>3. QED
    BY <2>1, <2>2
<1>5. QED
  BY <1>3, <1>4

(***************************************************************************)
(* The ranking picks the nearest masternodes: any with a row is no nearer  *)
(* than the owners it is not among, and if there is one, rank 1 is taken.  *)
(***************************************************************************)
LEMMA RankingPicksTheNearest ==
    ASSUME NEW c \in Chunks, NEW n \in Masternodes,
           NEW d \in [Chunks -> [Masternodes -> RowCount]], d[c][n] > 0
    PROVE  /\ \E m \in Masternodes : /\ <<c, m, 1>> \in Ranking(d)
                                   /\ Key[c][m] <= Key[c][n]
           /\ \A m \in Masternodes : \A r \in 1 .. ReplicationFactor :
                 /\ <<c, m, r>> \in Ranking(d)
                 /\ \A s \in 1 .. ReplicationFactor : <<c, n, s>> \notin Ranking(d)
                 => Key[c][m] < Key[c][n]
<1>1. /\ ReplicationFactor \in Nat /\ ReplicationFactor > 0
      /\ \A m \in Masternodes : Key[c][m] \in Nat /\ d[c][m] \in RowCount
  BY IndexAssumption
<1>2. \A m \in Masternodes : RowsBefore(d, c, m) \in Nat
  BY RowsFinite DEF RowsBefore
<1>3. ASSUME NEW m \in Masternodes, NEW k \in 1 .. d[c][m],
             RowsBefore(d, c, m) + k <= ReplicationFactor
      PROVE  <<c, m, RowsBefore(d, c, m) + k>> \in Ranking(d)
  BY <1>1, <1>2, <1>3 DEF Ranking, RowCount
<1>4. ASSUME NEW m \in Masternodes, NEW r \in 1 .. ReplicationFactor,
             <<c, m, r>> \in Ranking(d)
      PROVE  RowsBefore(d, c, m) < ReplicationFactor
  <2>1. PICK k \in 1 .. d[c][m] : r = RowsBefore(d, c, m) + k
    BY <1>4 DEF Ranking
  <2>2. QED
    BY <1>1, <1>2, <2>1 DEF RowCount
<1>5. \E m \in Masternodes : <<c, m, 1>> \in Ranking(d) /\ Key[c][m] <= Key[c][n]
  <2> DEFINE stored == {m \in Masternodes : d[c][m] > 0}
  <2>1. PICK m \in stored : \A q \in stored : Key[c][m] <= Key[c][q]
    BY NearestExists
  <2>2. {row \in RowsOf(d, c) : Key[c][row[1]] < Key[c][m]} = {}
    <3> SUFFICES ASSUME NEW row \in RowsOf(d, c), Key[c][row[1]] < Key[c][m]
                 PROVE  FALSE
      OBVIOUS
    <3>1. row[1] \in Masternodes /\ d[c][row[1]] > 0
      BY <1>1 DEF RowsOf, RowCount
    <3>2. QED
      BY <1>1, <2>1, <3>1
  <2>3. RowsBefore(d, c, m) = 0
    BY <2>2, FS_EmptySet DEF RowsBefore
  <2>4. <<c, m, 1>> \in Ranking(d)
    <3>1. 1 \in 1 .. d[c][m] /\ RowsBefore(d, c, m) + 1 = 1
      BY <1>1, <2>1, <2>3 DEF RowCount
    <3>2. <<c, m, RowsBefore(d, c, m) + 1>> \in Ranking(d)
      BY <1>1, <1>3, <3>1
    <3>3. QED
      BY <3>1, <3>2
  <2>5. QED
    BY <2>1, <2>4
<1>6. ASSUME NEW m \in Masternodes, NEW r \in 1 .. ReplicationFactor,
             <<c, m, r>> \in Ranking(d),
             \A s \in 1 .. ReplicationFactor : <<c, n, s>> \notin Ranking(d)
      PROVE  Key[c][m] < Key[c][n]
  <2>1. ReplicationFactor <= RowsBefore(d, c, n)
    <3> SUFFICES ASSUME ~(ReplicationFactor <= RowsBefore(d, c, n)) PROVE FALSE
      OBVIOUS
    <3>1. /\ 1 \in 1 .. d[c][n]
          /\ RowsBefore(d, c, n) + 1 \in 1 .. ReplicationFactor
      BY <1>1, <1>2 DEF RowCount
    <3>2. <<c, n, RowsBefore(d, c, n) + 1>> \in Ranking(d)
      BY <1>3, <3>1
    <3>3. QED
      BY <1>6, <3>1, <3>2
  <2>2. RowsBefore(d, c, m) < ReplicationFactor
    BY <1>4, <1>6
  <2>3. m # n
    BY <1>1, <1>2, <2>1, <2>2
  <2>4. ~(Key[c][n] < Key[c][m])
    BY <1>1, <1>2, <2>1, <2>2, NearerIsBefore
  <2>5. Key[c][m] # Key[c][n]
    BY <2>3, IndexAssumption
  <2>6. QED
    BY <1>1, <2>4, <2>5
<1>7. QED
  BY <1>5, <1>6

(***************************************************************************)
(* The owners of an indexed chunk are its nearest masternodes, for every   *)
(* replication factor and any number of rows per masternode: its distances *)
(* are complete, the ranking is the one they give, and ranking by key      *)
(* picks the nearest.                                                      *)
(***************************************************************************)
THEOREM OwnersAreTheNearest == Spec => []OwnersAreNearest
<1>1. TypeOK /\ SectionInv /\ DistancesComplete /\ RankingIsCurrent
          => OwnersAreNearest
  <2> SUFFICES ASSUME TypeOK, SectionInv, DistancesComplete, RankingIsCurrent,
                      section = "idle", ~ranksDue,
                      NEW c \in indexed, NEW n \in masternode \ cutShort
               PROVE  /\ \E m \in Owners(c) : /\ <<c, m, 1>> \in ranked
                                             /\ Key[c][m] <= Key[c][n]
                      /\ n \notin Owners(c) =>
                            \A m \in Owners(c) : Key[c][m] < Key[c][n]
    BY DEF OwnersAreNearest
  <2>1. /\ c \in Chunks /\ n \in Masternodes
        /\ distance \in [Chunks -> [Masternodes -> RowCount]]
    BY DEF TypeOK
  <2>2. todo = {} /\ ranked = Ranking(distance) /\ distance[c][n] > 0
    BY DEF SectionInv, DistancesComplete, RankingIsCurrent
  <2>3. 1 \in 1 .. ReplicationFactor
    BY IndexAssumption
  <2>4. QED
    BY <2>1, <2>2, <2>3, RankingPicksTheNearest DEF Owners
<1>2. Init => SectionInv
  BY DEF Init, SectionInv
<1>3. QED
  BY <1>1, <1>2, SectionStepInv, TypeCorrect, IndexedIsMeasured,
     RankingFollowsDistances, PTL DEF Spec

-----------------------------------------------------------------------------
(* Only masternodes of the table are measured. *)
ListedInv == \A p \in todo : p[2] \in masternode

LEMMA ListedStepInv ==
    TypeOK /\ ListedInv /\ [Next]_vars => ListedInv'
<1> SUFFICES ASSUME TypeOK, ListedInv, [Next]_vars PROVE ListedInv'
  OBVIOUS
<1> USE DEF TypeOK, ListedInv, tables
<1>1. ASSUME NEW fresh \in SUBSET Masternodes, RefreshMasternodes(fresh)
      PROVE  ListedInv'
  BY <1>1 DEF RefreshMasternodes
<1>2. CASE IndexNewChunks
  BY <1>2 DEF IndexNewChunks
<1>3. CASE InsertDistance
  BY <1>3 DEF InsertDistance
<1>4. CASE Crash
  BY <1>4 DEF Crash
<1>5. CASE UNCHANGED <<masternode, todo>>
  BY <1>5
<1>6. QED
  BY <1>1, <1>2, <1>3, <1>4, <1>5
  DEF Next, SectionStep, CreateChunk, FetchRead, FetchSave, RefreshMeasured,
      MarkIndexed, DeleteRanking, InsertRanking, vars

(* The masternodes the ranking of the rows d gives to a chunk. *)
Picked(d, c) == {m \in Masternodes :
                    \E r \in 1 .. ReplicationFactor : <<c, m, r>> \in Ranking(d)}

(* The masternodes with a row. *)
Rowed(d, c) == {m \in Masternodes : d[c][m] > 0}

(* Who is picked has a row and a first rank that is kept. *)
LEMMA FirstRankKept ==
    ASSUME NEW c \in Chunks, NEW d \in [Chunks -> [Masternodes -> RowCount]],
           NEW m \in Picked(d, c)
    PROVE  /\ m \in Rowed(d, c)
           /\ RowsBefore(d, c, m) + 1 \in 1 .. ReplicationFactor
<1>1. PICK r \in 1 .. ReplicationFactor : \E k \in 1 .. d[c][m] :
          r = RowsBefore(d, c, m) + k
  BY DEF Picked, Ranking
<1>2. /\ ReplicationFactor \in Nat
      /\ d[c][m] \in 0 .. ReplicationFactor
      /\ RowsBefore(d, c, m) \in Nat
  BY IndexAssumption, RowsFinite DEF RowsBefore, RowCount, Picked
<1>3. QED
  BY <1>1, <1>2 DEF Rowed, Picked

(* Each masternode that is picked has a first rank of its own. *)
LEMMA PickedFit ==
    ASSUME NEW c \in Chunks, NEW d \in [Chunks -> [Masternodes -> RowCount]]
    PROVE  Cardinality(Picked(d, c)) <= ReplicationFactor
<1> DEFINE first == [m \in Picked(d, c) |-> RowsBefore(d, c, m) + 1]
<1>1. first \in [Picked(d, c) -> 1 .. ReplicationFactor]
  BY FirstRankKept
<1>2. ASSUME NEW m \in Picked(d, c), NEW n \in Picked(d, c), m # n
      PROVE  first[m] # first[n]
  <2>1. /\ m \in Masternodes /\ n \in Masternodes
        /\ d[c][m] > 0 /\ d[c][n] > 0
    BY FirstRankKept DEF Picked, Rowed
  <2>2. Key[c][m] < Key[c][n] \/ Key[c][n] < Key[c][m]
    <3>1. Key[c][m] # Key[c][n]
      BY <1>2, <2>1, IndexAssumption
    <3>2. Key[c][m] \in Nat /\ Key[c][n] \in Nat
      BY <2>1, IndexAssumption
    <3>3. QED
      BY <3>1, <3>2
  <2>3. RowsBefore(d, c, m) < RowsBefore(d, c, n)
            \/ RowsBefore(d, c, n) < RowsBefore(d, c, m)
    BY <2>1, <2>2, NearerIsBefore
  <2>4. RowsBefore(d, c, m) \in Nat /\ RowsBefore(d, c, n) \in Nat
    BY RowsFinite DEF RowsBefore
  <2>5. QED
    BY <2>3, <2>4
<1>3. first \in Injection(Picked(d, c), 1 .. ReplicationFactor)
  <2> HIDE DEF first
  <2> QED
    BY <1>1, <1>2, Zenon DEF Injection, IsInjective
<1>4. /\ IsFiniteSet(1 .. ReplicationFactor)
      /\ Cardinality(1 .. ReplicationFactor) = ReplicationFactor
  BY IndexAssumption, FS_Interval
<1>5. QED
  <2> HIDE DEF first
  <2> QED
    BY <1>3, <1>4, FS_Injection

(***************************************************************************)
(* The ranking publishes the nearest of the masternodes with a row.        *)
(***************************************************************************)
LEMMA PickedAreNearest ==
    ASSUME NEW c \in Chunks, NEW d \in [Chunks -> [Masternodes -> RowCount]]
    PROVE  Picked(d, c) \in Promise!NearestOf(c, Rowed(d, c))
<1>1. Picked(d, c) \subseteq Rowed(d, c)
  BY FirstRankKept
<1>2. ASSUME Rowed(d, c) # {} PROVE Picked(d, c) # {}
  <2>1. PICK n \in Masternodes : d[c][n] > 0
    BY <1>2 DEF Rowed
  <2>2. \E m \in Masternodes : <<c, m, 1>> \in Ranking(d)
    BY <2>1, RankingPicksTheNearest
  <2>3. 1 \in 1 .. ReplicationFactor
    BY IndexAssumption
  <2>4. QED
    BY <2>2, <2>3 DEF Picked
<1>3. ASSUME NEW m \in Picked(d, c), NEW n \in Rowed(d, c) \ Picked(d, c)
      PROVE  Key[c][m] < Key[c][n]
  <2>1. PICK r \in 1 .. ReplicationFactor : <<c, m, r>> \in Ranking(d)
    BY DEF Picked
  <2>2. /\ m \in Masternodes /\ n \in Masternodes /\ d[c][n] > 0
        /\ \A s \in 1 .. ReplicationFactor : <<c, n, s>> \notin Ranking(d)
    BY DEF Picked, Rowed
  <2>3. QED
    BY <2>1, <2>2, RankingPicksTheNearest
<1>4. QED
  BY <1>1, <1>2, <1>3, PickedFit
  DEF Promise!NearestOf, Promise!Cardinality, Cardinality

(* A distance that is inserted is that of a listed masternode. *)
LEMMA InsertSeen ==
    ASSUME TypeOK, ListedInv, InsertDistance
    PROVE  \E c \in Chunks : Promise!Measure(c)
<1>1. PICK p \in todo : distance' = AddRow(distance, p[1], p[2])
  BY DEF InsertDistance
<1>2. /\ p[1] \in Chunks /\ p[2] \in masternode /\ p[2] \in Masternodes
      /\ distance \in [Chunks -> [Masternodes -> RowCount]]
  BY DEF TypeOK, ListedInv
<1>3. /\ distance' \in [Chunks -> [Masternodes -> RowCount]]
      /\ distance'[p[1]][p[2]] > 0
  BY <1>1, <1>2, AddRowFacts
<1>4. ASSUME NEW b \in Chunks, NEW n \in Masternodes, b # p[1] \/ n # p[2]
      PROVE  distance'[b][n] = distance[b][n]
  BY <1>1, <1>2, <1>4 DEF AddRow
<1>5. ASSUME NEW b \in Chunks
      PROVE  {m \in Masternodes : distance'[b][m] > 0}
               = IF b = p[1] THEN {m \in Masternodes : distance[b][m] > 0} \cup {p[2]}
                             ELSE {m \in Masternodes : distance[b][m] > 0}
  BY <1>2, <1>3, <1>4
<1>6. UNCHANGED <<masternode, ranked>>
  BY DEF InsertDistance
<1>7. [c \in Chunks |-> {m \in Masternodes : distance[c][m] > 0}]'
        = [[c \in Chunks |-> {m \in Masternodes : distance[c][m] > 0}]
             EXCEPT ![p[1]] = @ \cup {p[2]}]
  BY <1>2, <1>5
<1>8. [c \in Chunks |-> Owners(c)]' = [c \in Chunks |-> Owners(c)]
  BY <1>6 DEF Owners
<1>9. QED
  BY <1>2, <1>6, <1>7, <1>8 DEF Promise!Measure

(* The two statements of a ranking: owners are withdrawn, then published. *)
LEMMA RankingSeen ==
    ASSUME TypeOK, SectionInv
    PROVE  /\ DeleteRanking => Promise!Withdraw
           /\ InsertRanking => Promise!Publish
<1>1. ASSUME DeleteRanking PROVE Promise!Withdraw
  BY <1>1 DEF DeleteRanking, Promise!Withdraw, Owners
<1>2. ASSUME InsertRanking PROVE Promise!Publish
  <2>1. ranked' = Ranking(distance) /\ UNCHANGED <<masternode, distance>>
    BY <1>2 DEF InsertRanking, SectionInv
  <2>2. \A c \in Chunks : Owners(c)' = Picked(distance, c)
    BY <2>1 DEF Owners, Picked
  <2>3. \A c \in Chunks :
            Picked(distance, c) \in Promise!NearestOf(c, Rowed(distance, c))
    BY PickedAreNearest DEF TypeOK
  <2>4. QED
    BY <2>1, <2>2, <2>3 DEF Promise!Publish, Rowed
<1>3. QED
  BY <1>1, <1>2

(* What the directory shows: the variables of Promise. *)
shown == <<masternode, [c \in Chunks |-> {m \in Masternodes : distance[c][m] > 0}],
           [c \in Chunks |-> Owners(c)]>>

LEMMA DirectoryStep ==
    TypeOK /\ SectionInv /\ ListedInv /\ [Next]_vars => [Promise!Next]_shown
<1> SUFFICES ASSUME TypeOK, SectionInv, ListedInv, [Next]_vars
             PROVE  Promise!Next \/ UNCHANGED shown
  OBVIOUS
<1>1. ASSUME NEW fresh \in SUBSET Masternodes, RefreshMasternodes(fresh)
      PROVE  Promise!List(fresh \ masternode)
  BY <1>1 DEF RefreshMasternodes, Promise!List, Owners
<1>2. CASE InsertDistance
  BY <1>2, InsertSeen DEF Promise!Next
<1>3. CASE DeleteRanking
  BY <1>3, RankingSeen DEF Promise!Next
<1>4. CASE InsertRanking
  BY <1>4, RankingSeen DEF Promise!Next
<1>5. CASE UNCHANGED <<masternode, distance, ranked>>
  BY <1>5 DEF shown, Owners
<1>6. \A fresh \in SUBSET Masternodes : fresh \ masternode \in SUBSET Masternodes
  OBVIOUS
<1>7. ASSUME NEW fresh \in SUBSET Masternodes, RefreshMasternodes(fresh)
      PROVE  Promise!Next
  BY <1>1, <1>6, <1>7 DEF Promise!Next
<1>8. QED
  BY <1>2, <1>3, <1>4, <1>5, <1>7
  DEF Next, SectionStep, CreateChunk, FetchRead, FetchSave, IndexNewChunks,
      RefreshMeasured, MarkIndexed, Crash, tables, vars

(***************************************************************************)
(* ChunkIndex implements OwnerDirectory: for any chunks, masternodes,      *)
(* orders, repeated rows and crashes, the fetcher finds the owners of the  *)
(* last publication or none.                                               *)
(***************************************************************************)
THEOREM DirectoryImplements == Spec => KeepsDirectory
<1>1. Init => Promise!Init /\ SectionInv /\ ListedInv
  BY DEF Init, Promise!Init, SectionInv, ListedInv, Owners
<1>2. QED
  BY <1>1, SectionStepInv, ListedStepInv, TypeCorrect, DirectoryStep, PTL
  DEF Spec, KeepsDirectory, Promise!Spec, shown

=============================================================================
