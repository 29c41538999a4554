------------------------- MODULE RegistrationProofs -------------------------
(***************************************************************************)
(* Proofs about Registration for every set of masternodes, confirmers and  *)
(* attempts, every order of the masternodes at each block and any number   *)
(* of faults.                                                              *)
(***************************************************************************)
EXTENDS Registration, SequenceTheorems, TLAPS

(***************************************************************************)
(* The control of an attempt: handlers and answers exist while the wallet  *)
(* asks; an attempt that got through step 2 has the code of its row; what  *)
(* was burned was burned after step 2; only MN0's handler holds a row.     *)
(***************************************************************************)
Begun == {"registered", "step3", "asking", "success", "error"}

ControlInv ==
    \A a \in Attempts :
        /\ phase[a] \in Begun \/ upload[a][0] = "done" => code[a] > 0
        /\ a \in paid => phase[a] \in Begun
        /\ burn[a] = "txid" => a \in paid
        /\ \A i \in Places :
              /\ handler[a][i].at # "none" => phase[a] = "asking"
              /\ handler[a][i].at = "checking" => i = 0 /\ first[a] = MN(a, 0)
              /\ answer[a][i] # "none" => phase[a] = "asking"
                                          /\ handler[a][i].at = "none"

(***************************************************************************)
(* What handlers never change in a row: the ticket, image and fee.         *)
(***************************************************************************)
Same(r, q) == r.attempt = q.attempt /\ r.image = q.image /\ r.fee = q.fee

HasImage(n, a) ==
    \E k \in DOMAIN rows[n] : rows[n][k].attempt = a /\ rows[n][k].image

RowOfCode(a) == rows[first[a]][code[a]]

(***************************************************************************)
(* What the masternodes hold of an attempt: MN0 from step 2 on, MN1 and    *)
(* MN2 from their upload in step 3; and the row a handler of MN0 holds     *)
(* differs from the row in the table by marks and confirmations only.      *)
(***************************************************************************)
HeldInv ==
    \A a \in Attempts :
        /\ phase[a] \in Begun \/ upload[a][0] = "done" =>
              RowOfCode(a).attempt = a /\ RowOfCode(a).image /\ RowOfCode(a).fee
        /\ \A i \in {1, 2} :
              /\ upload[a][i] = "done" => phase[a] # "new" /\ HasImage(MN(a, i), a)
              /\ a \in paid => HasImage(MN(a, i), a)
        /\ handler[a][0].at = "checking" => Same(handler[a][0].copy, RowOfCode(a))

(* The tickets in the blockchain: at most one of a node, placed before. *)
ChainInv == /\ OneTicketPerNode
            /\ \A k \in DOMAIN chain : chain[k].mn0 \in placed

-----------------------------------------------------------------------------
(* Changing one row keeps the shape and the length of a table. *)
LEMMA RowChanged ==
    ASSUME NEW s \in Seq(Row), NEW k \in DOMAIN s, NEW r \in Row
    PROVE  /\ [s EXCEPT ![k] = r] \in Seq(Row)
           /\ Len([s EXCEPT ![k] = r]) = Len(s)
           /\ DOMAIN [s EXCEPT ![k] = r] = DOMAIN s
           /\ \A j \in DOMAIN s :
                 [s EXCEPT ![k] = r][j] = IF j = k THEN r ELSE s[j]
<1>1. DOMAIN s = 1 .. Len(s)
  OBVIOUS
<1>2. QED
  BY <1>1, ExceptSeq

(* A new row keeps the shape of a table, and the rows that were there. *)
LEMMA RowAdded ==
    ASSUME NEW s \in Seq(Row), NEW r \in Row
    PROVE  /\ Append(s, r) \in Seq(Row)
           /\ Len(Append(s, r)) = Len(s) + 1
           /\ \A j \in DOMAIN Append(s, r) :
                 \/ j \in DOMAIN s /\ Append(s, r)[j] = s[j]
                 \/ Append(s, r)[j] = r
OBVIOUS

(* What a step may do to the tables: rows are changed or added. *)
TablesGrow ==
    /\ rows' \in [Nodes -> Seq(Row)]
    /\ \A n \in Nodes : /\ Len(rows'[n]) <= MaxRows[n]
                        /\ Len(rows[n]) <= Len(rows'[n])

(* A table is replaced by one that is no shorter and not too long. *)
LEMMA TableReplaced ==
    ASSUME TypeOK, NEW n \in Nodes, NEW s \in Seq(Row),
           Len(rows[n]) <= Len(s), Len(s) <= MaxRows[n],
           rows' = [rows EXCEPT ![n] = s]
    PROVE  TablesGrow
BY RegistrationAssumption DEF TypeOK, TablesGrow

(* Steps that leave the nodes' tables, the chunks and the chain alone *)
LEMMA NodesUntouched ==
    ASSUME TypeOK
    PROVE  /\ UNCHANGED rows => TablesGrow
           /\ UNCHANGED placed => placed' \subseteq Nodes
           /\ UNCHANGED chain => chain' \in Seq(Ticket)
BY DEF TypeOK, TablesGrow

(* A code stays the code of a row when tables grow. *)
LEMMA CodesStay ==
    ASSUME TypeOK, TablesGrow, NEW a \in Attempts
    PROVE  code[a] <= Len(rows'[first[a]])
<1>1. /\ code[a] \in Nat /\ first[a] \in Nodes
      /\ Len(rows[first[a]]) \in Nat /\ Len(rows'[first[a]]) \in Nat
      /\ code[a] <= Len(rows[first[a]])
      /\ Len(rows[first[a]]) <= Len(rows'[first[a]])
  BY DEF TypeOK, TablesGrow
<1>2. QED
  BY <1>1

(* The list of the current block names masternodes. *)
LEMMA HeightNodes ==
    ASSUME TypeOK
    PROVE  \A i \in Places : Top[height][i] \in Nodes
<1>1. height \in Heights
  BY DEF TypeOK
<1>2. Top[height] \in [Places -> Nodes]
  BY <1>1, RegistrationAssumption
<1>3. QED
  BY <1>2

(* The masternodes of an attempt are three different nodes. *)
LEMMA ThreeNodes ==
    ASSUME TypeOK, NEW a \in Attempts
    PROVE  /\ \A i \in Places : MN(a, i) \in Nodes
           /\ \A i, j \in Places : MN(a, i) = MN(a, j) => i = j
<1>1. block[a] \in Heights
  BY DEF TypeOK
<1>2. Top[block[a]] \in [Places -> Nodes]
  BY <1>1, RegistrationAssumption
<1>3. \A i, j \in Places : Top[block[a]][i] = Top[block[a]][j] => i = j
  BY <1>1, RegistrationAssumption
<1>4. QED
  BY <1>2, <1>3, RegistrationAssumption DEF MN

(***************************************************************************)
(* A row of a table is replaced: the tables keep their shape and their     *)
(* other rows.                                                             *)
(***************************************************************************)
Replaced(n, k, r) == /\ n \in Nodes /\ k \in DOMAIN rows[n] /\ r \in Row
                     /\ rows' = [rows EXCEPT ![n] = [rows[n] EXCEPT ![k] = r]]

LEMMA RowReplaced ==
    ASSUME TypeOK, NEW n, NEW k, NEW r, Replaced(n, k, r)
    PROVE  /\ TablesGrow
           /\ \A m \in Nodes : DOMAIN rows'[m] = DOMAIN rows[m]
           /\ \A m \in Nodes : \A j \in DOMAIN rows[m] :
                 rows'[m][j] = IF m = n /\ j = k THEN r ELSE rows[m][j]
<1> USE DEF Replaced
<1> DEFINE s == [rows[n] EXCEPT ![k] = r]
<1>1. rows \in [Nodes -> Seq(Row)] /\ rows[n] \in Seq(Row)
  BY DEF TypeOK
<1>2. /\ s \in Seq(Row) /\ Len(s) = Len(rows[n]) /\ DOMAIN s = DOMAIN rows[n]
      /\ \A j \in DOMAIN rows[n] : s[j] = IF j = k THEN r ELSE rows[n][j]
  BY <1>1, RowChanged
<1>3. Len(s) <= MaxRows[n] /\ Len(rows[n]) <= Len(s)
  BY <1>1, <1>2 DEF TypeOK
<1>4. rows' = [rows EXCEPT ![n] = s]
  OBVIOUS
<1>5. TablesGrow
  BY <1>2, <1>3, <1>4, TableReplaced
<1>6. QED
  BY <1>1, <1>2, <1>4, <1>5

(* A row is added to a table: the tables keep their rows. *)
Added(n, r) == /\ n \in Nodes /\ r \in Row
               /\ Len(rows[n]) < MaxRows[n]
               /\ rows' = [rows EXCEPT ![n] = Append(@, r)]

LEMMA RowAppended ==
    ASSUME TypeOK, NEW n, NEW r, Added(n, r)
    PROVE  /\ TablesGrow
           /\ Len(rows[n]) \in Nat /\ Len(rows'[n]) = Len(rows[n]) + 1
           /\ Len(rows[n]) + 1 \in DOMAIN rows'[n] /\ rows'[n][Len(rows[n]) + 1] = r
           /\ \A m \in Nodes : \A j \in DOMAIN rows[m] :
                 j \in DOMAIN rows'[m] /\ rows'[m][j] = rows[m][j]
           /\ \A m \in Nodes : \A j \in DOMAIN rows'[m] :
                 (j \in DOMAIN rows[m] /\ rows'[m][j] = rows[m][j]) \/ rows'[m][j] = r
<1> USE DEF Added
<1> DEFINE s == Append(rows[n], r)
<1>1. /\ rows \in [Nodes -> Seq(Row)] /\ rows[n] \in Seq(Row)
      /\ Len(rows[n]) \in Nat /\ MaxRows[n] \in Nat
  <2>1. n \in Nodes /\ rows \in [Nodes -> Seq(Row)]
    BY DEF TypeOK
  <2>2. MaxRows[n] \in Nat
    BY <2>1, RegistrationAssumption
  <2>3. QED
    BY <2>1, <2>2
<1>2. /\ s \in Seq(Row) /\ Len(s) = Len(rows[n]) + 1
      /\ Len(rows[n]) + 1 \in DOMAIN s /\ s[Len(rows[n]) + 1] = r
      /\ \A j \in DOMAIN rows[n] : j \in DOMAIN s /\ s[j] = rows[n][j]
      /\ \A j \in DOMAIN s : (j \in DOMAIN rows[n] /\ s[j] = rows[n][j]) \/ s[j] = r
  BY <1>1
<1>3. rows' = [rows EXCEPT ![n] = s]
  OBVIOUS
<1> HIDE DEF s
<1>4. Len(rows[n]) <= Len(s) /\ Len(s) <= MaxRows[n]
  BY <1>1, <1>2
<1>5. TablesGrow
  BY <1>2, <1>3, <1>4, TableReplaced
<1>6. QED
  BY <1>1, <1>2, <1>3, <1>5

(* The row a confirmation goes to is a row of the table. *)
LEMMA SelectedRow ==
    ASSUME TypeOK, NEW n \in Nodes, rows[n] # <<>>
    PROVE  /\ Selected(n) \in DOMAIN rows[n]
           /\ RowOf(n) \in Row
<1>1. rows[n] \in Seq(Row)
  BY DEF TypeOK
<1>2. Selected(n) \in 1 .. Len(rows[n])
  BY <1>1 DEF Selected
<1>3. QED
  BY <1>1, <1>2 DEF RowOf

(* Setting a column of a row gives a row, with the same ticket and image. *)
LEMMA MarkedRow ==
    ASSUME NEW r \in Row, NEW m \in Confirmers
    PROVE  /\ [r EXCEPT !.mn1 = m] \in Row /\ Same([r EXCEPT !.mn1 = m], r)
           /\ [r EXCEPT !.mn2 = m] \in Row /\ Same([r EXCEPT !.mn2 = m], r)
           /\ [r EXCEPT !.mn1 = m].valid = r.valid
           /\ [r EXCEPT !.mn2 = m].valid = r.valid
<1>1. /\ r.attempt \in Attempts /\ r.image \in BOOLEAN /\ r.fee \in BOOLEAN
      /\ r.valid \in BOOLEAN
      /\ r.mn1 \in Confirmers \cup {NoNode} /\ r.mn2 \in Confirmers \cup {NoNode}
  BY DEF Row
<1>2. r = [attempt |-> r.attempt, image |-> r.image, fee |-> r.fee,
           valid |-> r.valid, mn1 |-> r.mn1, mn2 |-> r.mn2]
  BY DEF Row
<1>3. QED
  BY <1>1, <1>2 DEF Row, Same

LEMMA ValidRow ==
    ASSUME NEW r \in Row
    PROVE  /\ [r EXCEPT !.valid = TRUE] \in Row /\ Same([r EXCEPT !.valid = TRUE], r)
           /\ [r EXCEPT !.valid = TRUE].valid
<1>1. /\ r.attempt \in Attempts /\ r.image \in BOOLEAN /\ r.fee \in BOOLEAN
      /\ r.valid \in BOOLEAN
      /\ r.mn1 \in Confirmers \cup {NoNode} /\ r.mn2 \in Confirmers \cup {NoNode}
  BY DEF Row
<1>2. r = [attempt |-> r.attempt, image |-> r.image, fee |-> r.fee,
           valid |-> r.valid, mn1 |-> r.mn1, mn2 |-> r.mn2]
  BY DEF Row
<1>3. QED
  BY <1>1, <1>2 DEF Row, Same

(* What a confirmation writes: one column of the row it selects. *)
LEMMA ConfirmationWrites ==
    ASSUME TypeOK, NEW n \in Nodes, NEW m \in Confirmers,
           FirstConfirmation(n, m) \/ IsSecond(n, m)
    PROVE  \E r \in Row : /\ Replaced(n, Selected(n), r)
                          /\ Same(r, rows[n][Selected(n)])
                          /\ r.valid = rows[n][Selected(n)].valid
<1>1. rows[n] # <<>>
  BY DEF FirstConfirmation, IsSecond
<1>2. Selected(n) \in DOMAIN rows[n] /\ RowOf(n) \in Row
  BY <1>1, SelectedRow
<1>3. CASE FirstConfirmation(n, m)
  <2>1. Replaced(n, Selected(n), [RowOf(n) EXCEPT !.mn1 = m])
    BY <1>2, <1>3, MarkedRow DEF FirstConfirmation, Replaced, RowOf
  <2>2. QED
    BY <1>2, <2>1, MarkedRow DEF RowOf
<1>4. CASE IsSecond(n, m)
  <2>1. Replaced(n, Selected(n), [RowOf(n) EXCEPT !.mn2 = m])
    BY <1>2, <1>4, MarkedRow DEF IsSecond, Replaced, RowOf
  <2>2. QED
    BY <1>2, <2>1, MarkedRow DEF RowOf
<1>5. QED
  BY <1>3, <1>4

(* An attempt past its upload to MN0 has the code of a row there. *)
LEMMA CodeOfRow ==
    ASSUME TypeOK, ControlInv, NEW a \in Attempts,
           phase[a] \in Begun \/ upload[a][0] = "done"
    PROVE  /\ first[a] \in Nodes /\ code[a] \in DOMAIN rows[first[a]]
           /\ RowOfCode(a) \in Row
<1>1. /\ first[a] \in Nodes /\ rows[first[a]] \in Seq(Row)
      /\ code[a] \in Nat /\ code[a] > 0 /\ code[a] <= Len(rows[first[a]])
  BY DEF TypeOK, ControlInv
<1>2. QED
  BY <1>1 DEF RowOfCode

(* MN0 saves the row it holds, marked, in the place of the row it read. *)
LEMMA SaveWrites ==
    ASSUME TypeOK, ControlInv, NEW a \in Attempts, SaveValidMN0(a)
    PROVE  /\ handler[a][0].at = "checking" /\ phase[a] = "asking"
           /\ first[a] = MN(a, 0) /\ a \in paid
           /\ handler[a][0].copy \in Row
           /\ Replaced(first[a], code[a], [handler[a][0].copy EXCEPT !.valid = TRUE])
<1>1. /\ handler[a][0].at = "checking" /\ phase[a] = "asking"
      /\ first[a] = MN(a, 0) /\ a \in paid
  BY DEF SaveValidMN0, Checked, At, ControlInv, Places
<1>2. handler[a][0].copy \in Row
  <2>1. handler[a][0] \in Handlers
    BY DEF TypeOK, Places
  <2>2. QED
    BY <1>1, <2>1 DEF Handlers
<1>3. first[a] \in Nodes /\ code[a] \in DOMAIN rows[first[a]]
  BY <1>1, CodeOfRow DEF Begun
<1>4. Replaced(first[a], code[a], [handler[a][0].copy EXCEPT !.valid = TRUE])
  BY <1>1, <1>2, <1>3, ValidRow DEF SaveValidMN0, Replaced
<1>5. QED
  BY <1>1, <1>2, <1>4

(* The faults stay within their bound. *)
LEMMA FaultCounted ==
    ASSUME TypeOK, Fault \/ UNCHANGED faults
    PROVE  faults' \in 0 .. MaxFaults
BY RegistrationAssumption DEF TypeOK, Fault

(***************************************************************************)
(* The handlers end with a reply, which leaves the wallet's row alone.     *)
(***************************************************************************)
Replied(a, i) == /\ ~At(a, i, "none")
                 /\ \E what \in Answers : Reply(a, i, what)
                 /\ Fault \/ UNCHANGED faults

LEMMA ReplyType ==
    ASSUME TypeOK, ControlInv, NEW a \in Attempts, NEW i \in Places,
           Replied(a, i), TablesGrow,
           placed' \subseteq Nodes, chain' \in Seq(Ticket)
    PROVE  TypeOK' /\ ControlInv'
<1> PICK what \in Answers : Reply(a, i, what)
  BY DEF Replied
<1> USE DEF TypeOK, Reply
<1>1. /\ answer' \in [Attempts -> [Places -> Answers]]
      /\ handler' \in [Attempts -> [Places -> Handlers]]
  BY DEF Handlers, Idle
<1>2. \A b \in Attempts : \A j \in Places :
         /\ handler'[b][j].at # "none" => handler'[b][j] = handler[b][j]
         /\ answer'[b][j] # "none" => \/ answer'[b][j] = answer[b][j]
                                      \/ b = a /\ handler'[b][j].at = "none"
  <2>1. Idle.at = "none"
    BY DEF Idle
  <2>2. /\ handler' = [handler EXCEPT ![a][i] = Idle]
        /\ answer' = [answer EXCEPT ![a][i] = what]
    OBVIOUS
  <2>3. \A b \in Attempts : \A j \in Places :
           IF b = a /\ j = i THEN handler'[b][j] = Idle
                            ELSE /\ handler'[b][j] = handler[b][j]
                                 /\ answer'[b][j] = answer[b][j]
    BY <2>2
  <2>4. QED
    BY <2>1, <2>3
<1>3. phase[a] = "asking"
  BY DEF ControlInv, Replied, At
<1>4. ControlInv'
  BY <1>1, <1>2, <1>3 DEF ControlInv, MN
<1>5. faults' \in 0 .. MaxFaults
  BY FaultCounted DEF Replied
<1>6. \A b \in Attempts : code'[b] <= Len(rows'[first'[b]])
  BY CodesStay
<1>7. QED
  BY <1>1, <1>4, <1>5, <1>6 DEF TablesGrow

LEMMA HandlersReply ==
    ASSUME NEW a \in Attempts
    PROVE  /\ UnknownCode(a) \/ SaveValidMN0(a) => Replied(a, 0)
           /\ \A i \in Places : Txid10(a, i) => Replied(a, i)
<1> USE DEF Replied, Answered, Failed, At, Answers, Checked
<1>1. UnknownCode(a) => Replied(a, 0)
  BY DEF UnknownCode
<1>2. SaveValidMN0(a) => Replied(a, 0)
  BY DEF SaveValidMN0
<1>3. ASSUME NEW i \in Places, Txid10(a, i) PROVE Replied(a, i)
  BY <1>3 DEF Txid10, CheckFails, SigningFails, ConnectionLost
<1>4. QED
  BY <1>1, <1>2, <1>3

-----------------------------------------------------------------------------
(* The step of TypeCorrect. *)
LEMMA TypeStep ==
    TypeOK /\ ControlInv /\ [Next]_vars => TypeOK' /\ ControlInv'
<1> SUFFICES ASSUME TypeOK, ControlInv, [Next]_vars
             PROVE  TypeOK' /\ ControlInv'
  OBVIOUS
<1> USE DEF wallet, nodes, world
<1>1. CASE UNCHANGED vars
  BY <1>1 DEF vars, TypeOK, ControlInv, MN
<1>2. CASE NextBlock
  BY <1>2, RegistrationAssumption
     DEF NextBlock, TypeOK, ControlInv, MN, Heights
<1>3. ASSUME NEW a \in Attempts, GenerateTicket(a) PROVE TypeOK' /\ ControlInv'
  BY <1>3 DEF GenerateTicket, TypeOK, ControlInv, MN, Phases, Begun
<1>4. ASSUME NEW a \in Attempts, NEW i \in Places, Upload(a, i)
      PROVE  TypeOK' /\ ControlInv'
  <2> DEFINE n == IF i = 0 THEN Top[height][0] ELSE MN(a, i)
             Adds(row) == /\ Len(rows[n]) < MaxRows[n]
                          /\ rows' = [rows EXCEPT ![n] = Append(@, row)]
             Done == /\ Adds(NewRow(a, TRUE, i = 0))
                     /\ upload' = [upload EXCEPT ![a][i] = "done"]
                     /\ IF i = 0 THEN /\ first' = [first EXCEPT ![a] = n]
                                      /\ code' = [code EXCEPT ![a] = Len(rows[n]) + 1]
                                 ELSE UNCHANGED <<first, code>>
                     /\ UNCHANGED faults
             Lost == /\ \/ Adds(NewRow(a, TRUE, i = 0))
                        \/ Adds(NewRow(a, FALSE, FALSE))
                        \/ UNCHANGED rows
                     /\ upload' = [upload EXCEPT ![a][i] = "failed"]
                     /\ Fault
                     /\ UNCHANGED <<first, code>>
  <2>1. n \in Nodes
    BY HeightNodes, ThreeNodes
  <2>2. Done \/ Lost
    BY <1>4 DEF Upload
  <2>3. ASSUME NEW row \in Row, Adds(row)
        PROVE  TablesGrow /\ Len(rows'[n]) = Len(rows[n]) + 1 /\ Len(rows[n]) \in Nat
    BY <2>1, <2>3, RowAppended DEF Added
  <2>4. NewRow(a, TRUE, i = 0) \in Row /\ NewRow(a, FALSE, FALSE) \in Row
    BY DEF NewRow, Row
  <2> HIDE DEF n, Adds
  <2>5. TablesGrow
    BY <2>2, <2>3, <2>4, NodesUntouched
  <2>6. /\ upload' \in [Attempts -> [Places -> Uploads]]
        /\ \A b \in Attempts \ {a} : upload'[b] = upload[b]
        /\ Lost => upload'[a][0] # "done" \/ upload'[a][0] = upload[a][0]
        /\ Done /\ i # 0 => upload'[a][0] = upload[a][0]
    <3>1. upload \in [Attempts -> [Places -> Uploads]] /\ 0 \in Places
      BY DEF TypeOK, Places
    <3>2. CASE upload' = [upload EXCEPT ![a][i] = "done"] /\ ~Lost
      BY <3>1, <3>2 DEF Uploads
    <3>3. CASE upload' = [upload EXCEPT ![a][i] = "failed"] /\ ~Done
      BY <3>1, <3>3 DEF Uploads
    <3>4. Done => upload' = [upload EXCEPT ![a][i] = "done"] /\ ~Lost
      BY <3>1
    <3>5. Lost => upload' = [upload EXCEPT ![a][i] = "failed"] /\ ~Done
      BY <3>1
    <3>6. QED
      BY <2>2, <3>2, <3>3, <3>4, <3>5
  <2>7. faults' \in 0 .. MaxFaults
    BY <2>2, FaultCounted
  <2>8. \/ UNCHANGED <<first, code>> /\ (Lost \/ i # 0)
        \/ /\ i = 0 /\ first' = [first EXCEPT ![a] = n]
           /\ code' = [code EXCEPT ![a] = Len(rows[n]) + 1]
           /\ Len(rows'[n]) = Len(rows[n]) + 1 /\ Len(rows[n]) \in Nat
    BY <2>2, <2>3, <2>4
  <2> HIDE DEF Done, Lost
  <2>9. /\ first' \in [Attempts -> Nodes] /\ code' \in [Attempts -> Nat]
        /\ \A b \in Attempts \ {a} : first'[b] = first[b] /\ code'[b] = code[b]
    <3>1. first \in [Attempts -> Nodes] /\ code \in [Attempts -> Nat]
      BY DEF TypeOK
    <3>2. QED
      BY <2>1, <2>8, <3>1
  <2>10. \A b \in Attempts : code'[b] <= Len(rows'[first'[b]])
    <3>1. ASSUME NEW b \in Attempts, first'[b] = first[b], code'[b] = code[b]
          PROVE  code'[b] <= Len(rows'[first'[b]])
      BY <2>5, <3>1, CodesStay
    <3>2. CASE UNCHANGED <<first, code>>
      BY <3>1, <3>2
    <3>3. CASE /\ first' = [first EXCEPT ![a] = n]
               /\ code' = [code EXCEPT ![a] = Len(rows[n]) + 1]
               /\ Len(rows'[n]) = Len(rows[n]) + 1 /\ Len(rows[n]) \in Nat
      <4>1. first'[a] = n /\ code'[a] = Len(rows'[n]) /\ code'[a] \in Nat
        BY <3>3 DEF TypeOK
      <4>2. QED
        BY <2>9, <3>1, <4>1
    <3>4. QED
      BY <2>8, <3>2, <3>3
  <2>11. TypeOK'
    BY <1>4, <2>5, <2>6, <2>7, <2>9, <2>10 DEF Upload, TypeOK, TablesGrow
  <2>12. phase[a] \in {"step2", "step3"} /\ (i = 0 => phase[a] = "step2")
    BY <1>4 DEF Upload, Uploading
  <2>13. /\ code'[a] = code[a] \/ code'[a] > 0
         /\ upload'[a][0] = "done" => upload[a][0] = "done" \/ code'[a] > 0
    <3>1. code \in [Attempts -> Nat]
      BY DEF TypeOK
    <3>2. QED
      BY <2>2, <2>6, <2>8, <3>1
  <2>14. UNCHANGED <<phase, burn, paid, handler, answer, block>>
    BY <1>4 DEF Upload
  <2>15. ControlInv'
    <3> SUFFICES ASSUME NEW b \in Attempts
                 PROVE  /\ phase[b] \in Begun \/ upload'[b][0] = "done" => code'[b] > 0
                        /\ b \in paid => phase[b] \in Begun
                        /\ burn[b] = "txid" => b \in paid
                        /\ \A j \in Places :
                              /\ handler[b][j].at # "none" => phase[b] = "asking"
                              /\ handler[b][j].at = "checking" =>
                                    j = 0 /\ first'[b] = MN(b, 0)
                              /\ answer[b][j] # "none" => /\ phase[b] = "asking"
                                                         /\ handler[b][j].at = "none"
      BY <2>14 DEF ControlInv, MN
    <3>1. CASE b = a
      BY <2>12, <2>13, <3>1 DEF ControlInv, Begun
    <3>2. CASE b # a
      BY <2>6, <2>9, <3>2 DEF ControlInv
    <3>3. QED
      BY <3>1, <3>2
  <2>16. QED
    BY <2>11, <2>15
<1>5. ASSUME NEW a \in Attempts, FinishStep2(a) PROVE TypeOK' /\ ControlInv'
  <2>1. TypeOK'
    BY <1>5 DEF FinishStep2, TypeOK, Phases, NoneYet, Uploads
  <2>2. phase[a] = "step2" /\ phase'[a] \in {"registered", "dropped"}
    BY <1>5 DEF FinishStep2, TypeOK
  <2>3. phase'[a] \in Begun => code[a] > 0
    BY <1>5 DEF FinishStep2, TypeOK, ControlInv, Begun
  <2>4. \A b \in Attempts \ {a} : phase'[b] = phase[b] /\ upload'[b] = upload[b]
    BY <1>5 DEF FinishStep2, TypeOK
  <2>5. upload'[a][0] # "done"
    BY <1>5 DEF FinishStep2, TypeOK, NoneYet, Places
  <2>6. ControlInv'
    BY <1>5, <2>2, <2>3, <2>4, <2>5 DEF FinishStep2, ControlInv, MN, Begun
  <2>7. QED
    BY <2>1, <2>6
<1>6. ASSUME NEW a \in Attempts, StartStep3(a) PROVE TypeOK' /\ ControlInv'
  BY <1>6 DEF StartStep3, TypeOK, ControlInv, MN, Phases, Begun
<1>7. ASSUME NEW a \in Attempts, StopStep3(a) PROVE TypeOK' /\ ControlInv'
  BY <1>7 DEF StopStep3, Uploaded, TypeOK, ControlInv, MN, Phases, Begun, NoneYet,
              Uploads
<1>8. ASSUME NEW a \in Attempts, BurnFee(a) PROVE TypeOK' /\ ControlInv'
  <2>1. faults' \in 0 .. MaxFaults
    BY <1>8, FaultCounted DEF BurnFee
  <2>2. handler' \in [Attempts -> [Places -> Handlers]]
    BY <1>8 DEF BurnFee, TypeOK, Handlers
  <2>3. TypeOK'
    BY <1>8, <2>1, <2>2 DEF BurnFee, TypeOK, Phases, NoneYet, Uploads, Burns
  <2>4. /\ phase[a] = "step3" /\ phase'[a] = "asking"
        /\ upload'[a][0] # "done"
        /\ burn'[a] = "txid" => a \in paid'
        /\ \A i \in Places : handler'[a][i].at = "called"
    BY <1>8 DEF BurnFee, Uploaded, TypeOK, NoneYet, Places
  <2>5. /\ paid \subseteq paid' /\ paid' \subseteq paid \cup {a}
        /\ \A b \in Attempts \ {a} : /\ phase'[b] = phase[b]
                                    /\ upload'[b] = upload[b]
                                    /\ handler'[b] = handler[b]
                                    /\ burn'[b] = burn[b]
    BY <1>8 DEF BurnFee, TypeOK
  <2>6. ControlInv'
    BY <1>8, <2>4, <2>5 DEF BurnFee, ControlInv, MN, Begun
  <2>7. QED
    BY <2>3, <2>6
<1>9. ASSUME NEW a \in Attempts, FinishStep3(a) PROVE TypeOK' /\ ControlInv'
  <2>1. TypeOK'
    BY <1>9 DEF FinishStep3, TypeOK, Phases, NoneYet, Answers
  <2>2. /\ phase[a] = "asking" /\ phase'[a] \in {"success", "error"}
        /\ \A i \in Places : answer'[a][i] = "none"
        /\ \A i \in Places : handler[a][i].at = "none"
    BY <1>9 DEF FinishStep3, TypeOK, NoneYet, ControlInv
  <2>3. \A b \in Attempts \ {a} : phase'[b] = phase[b] /\ answer'[b] = answer[b]
    BY <1>9 DEF FinishStep3, TypeOK
  <2>4. ControlInv'
    BY <1>9, <2>2, <2>3 DEF FinishStep3, ControlInv, MN, Begun
  <2>5. QED
    BY <2>1, <2>4
<1>10. ASSUME NEW a \in Attempts, ReadRow(a) PROVE TypeOK' /\ ControlInv'
  <2> DEFINE copy == rows[MN(a, 0)][code[a]]
  <2>1. first[a] \in Nodes /\ rows[first[a]] \in Seq(Row) /\ code[a] \in Nat
        /\ code[a] <= Len(rows[first[a]])
    BY DEF TypeOK
  <2>2. code[a] > 0 /\ phase[a] = "asking" /\ first[a] = MN(a, 0)
    BY <1>10 DEF ReadRow, At, ControlInv, Begun, Places
  <2>3. copy \in Row
    BY <2>1, <2>2
  <2>4. handler' \in [Attempts -> [Places -> Handlers]]
    BY <1>10, <2>3 DEF ReadRow, TypeOK, Handlers
  <2>5. TypeOK'
    BY <1>10, <2>4 DEF ReadRow, TypeOK
  <2>6. \A b \in Attempts : \A j \in Places :
           handler'[b][j] = handler[b][j] \/ (b = a /\ j = 0)
    <3>1. handler' = [handler EXCEPT ![a][0] = [at |-> "checking", copy |-> copy]]
      BY <1>10 DEF ReadRow
    <3>2. handler \in [Attempts -> [Places -> Handlers]]
      BY DEF TypeOK
    <3>3. PICK h : handler' = [handler EXCEPT ![a][0] = h]
      BY <3>1
    <3>4. \A b \in Attempts :
             handler'[b] = IF b = a THEN [handler[a] EXCEPT ![0] = h] ELSE handler[b]
      BY <3>2, <3>3
    <3>5. \A j \in Places \ {0} : [handler[a] EXCEPT ![0] = h][j] = handler[a][j]
      BY <3>2
    <3>6. QED
      BY <3>4, <3>5
  <2>7. ControlInv'
    <3>1. handler[a][0].at = "called"
      BY <1>10 DEF ReadRow, At
    <3>2. UNCHANGED <<phase, burn, paid, upload, code, first, answer, block>>
      BY <1>10 DEF ReadRow
    <3>3. ASSUME NEW b \in Attempts, NEW j \in Places
          PROVE  /\ handler'[b][j].at # "none" => phase[b] = "asking"
                 /\ handler'[b][j].at = "checking" => j = 0 /\ first[b] = MN(b, 0)
                 /\ answer[b][j] # "none" => /\ phase[b] = "asking"
                                            /\ handler'[b][j].at = "none"
      BY <2>2, <2>6, <3>1, <3>3 DEF ControlInv
    <3>4. QED
      BY <3>2, <3>3 DEF ControlInv, MN
  <2>8. QED
    BY <2>5, <2>7
<1>11. ASSUME NEW a \in Attempts, UnknownCode(a) PROVE TypeOK' /\ ControlInv'
  BY <1>11, HandlersReply, NodesUntouched, ReplyType DEF UnknownCode, Places
<1>12. ASSUME NEW a \in Attempts, SaveValidMN0(a) PROVE TypeOK' /\ ControlInv'
  <2>1. TablesGrow
    BY <1>12, SaveWrites, RowReplaced
  <2>2. placed' \subseteq Nodes /\ chain' \in Seq(Ticket)
    BY <1>12 DEF SaveValidMN0, TypeOK
  <2>3. QED
    BY <1>12, <2>1, <2>2, HandlersReply, ReplyType DEF Places
<1>13. ASSUME NEW a \in Attempts, NEW i \in Places, Txid10(a, i)
       PROVE  TypeOK' /\ ControlInv'
  BY <1>13, HandlersReply, NodesUntouched, ReplyType
     DEF Txid10, CheckFails, SigningFails, ConnectionLost
<1>14. ASSUME NEW n \in Called, NEW m \in Confirmers, Confirmation(n, m)
       PROVE  TypeOK' /\ ControlInv'
  <2>1. n \in Nodes
    BY RegistrationAssumption
  <2>2. TablesGrow
    <3>1. FirstConfirmation(n, m) \/ IsSecond(n, m)
      BY <1>14 DEF Confirmation, PlacingFails, WritingFails, TicketRegistered
    <3>2. QED
      BY <2>1, <3>1, ConfirmationWrites, RowReplaced
  <2>3. UNCHANGED <<height, wallet, handler>> /\ (Fault \/ UNCHANGED faults)
    BY <1>14 DEF Confirmation, FirstConfirmation, PlacingFails, WritingFails,
                 TicketRegistered
  <2>4. placed' \subseteq Nodes
    BY <1>14, <2>1 DEF Confirmation, FirstConfirmation, PlacingFails, WritingFails,
                       TicketRegistered, TypeOK
  <2>5. chain' \in Seq(Ticket)
    <3>1. CASE UNCHANGED chain
      BY <3>1 DEF TypeOK
    <3>2. CASE TicketRegistered(n, m)
      <4>1. RowOf(n) \in Row /\ RowOf(n).mn1 # NoNode
        BY <2>1, <3>2, SelectedRow DEF TicketRegistered, IsSecond
      <4>2. [attempt |-> RowOf(n).attempt, mn0 |-> n, mn1 |-> RowOf(n).mn1,
             mn2 |-> m] \in Ticket
        BY <2>1, <4>1 DEF Ticket, Row
      <4>3. QED
        BY <3>2, <4>2 DEF TicketRegistered, TypeOK
    <3>3. QED
      BY <1>14, <3>1, <3>2 DEF Confirmation, FirstConfirmation, PlacingFails,
                               WritingFails
  <2>6. \A b \in Attempts : code'[b] <= Len(rows'[first'[b]])
    BY <2>2, <2>3, CodesStay
  <2>7. faults' \in 0 .. MaxFaults
    BY <2>3, FaultCounted
  <2>8. TypeOK'
    BY <2>2, <2>3, <2>4, <2>5, <2>6, <2>7 DEF TypeOK, TablesGrow
  <2>9. ControlInv'
    BY <2>3 DEF ControlInv, MN
  <2>10. QED
    BY <2>8, <2>9
<1>15. ASSUME NEW n \in Nodes, Activate(n) PROVE TypeOK' /\ ControlInv'
  BY <1>15 DEF Activate, TypeOK, ControlInv, MN
<1>16. QED
  BY <1>1, <1>2, <1>3, <1>4, <1>5, <1>6, <1>7, <1>8, <1>9, <1>10, <1>11, <1>12,
     <1>13, <1>14, <1>15 DEF Next, Step2, Step3

-----------------------------------------------------------------------------
(* No step takes back what a row has: ticket, image, fee and MN0's mark. *)
RowsKeep ==
    \A n \in Nodes : \A k \in DOMAIN rows[n] :
        /\ k \in DOMAIN rows'[n]
        /\ Same(rows'[n][k], rows[n][k])
        /\ rows[n][k].valid => rows'[n][k].valid

(* Who marks a row as valid has found the burn transaction of its attempt. *)
ValidRows ==
    \A n \in Nodes : \A k \in DOMAIN rows[n] :
        rows[n][k].valid => rows[n][k].attempt \in paid

(* Replacing a row by one that has the same. *)
LEMMA ReplacedKeeps ==
    ASSUME TypeOK, NEW n, NEW k, NEW r, Replaced(n, k, r), Same(r, rows[n][k]),
           rows[n][k].valid => r.valid
    PROVE  RowsKeep
<1>1. /\ \A m \in Nodes : DOMAIN rows'[m] = DOMAIN rows[m]
      /\ \A m \in Nodes : \A j \in DOMAIN rows[m] :
            rows'[m][j] = IF m = n /\ j = k THEN r ELSE rows[m][j]
  BY RowReplaced
<1>2. QED
  BY <1>1 DEF RowsKeep, Same

(* The row an upload adds, to the table of which node *)
LEMMA UploadAdds ==
    ASSUME TypeOK, NEW a \in Attempts, NEW i \in Places, Upload(a, i)
    PROVE  LET n == IF i = 0 THEN Top[height][0] ELSE MN(a, i)
           IN  /\ n \in Nodes
               /\ \/ /\ Added(n, NewRow(a, TRUE, i = 0))
                     /\ upload' = [upload EXCEPT ![a][i] = "done"]
                     /\ IF i = 0 THEN /\ first' = [first EXCEPT ![a] = n]
                                      /\ code' = [code EXCEPT ![a] = Len(rows[n]) + 1]
                                 ELSE UNCHANGED <<first, code>>
                  \/ /\ \/ UNCHANGED rows
                        \/ \E image, fee \in BOOLEAN : Added(n, NewRow(a, image, fee))
                     /\ upload' = [upload EXCEPT ![a][i] = "failed"]
                     /\ UNCHANGED <<first, code>>
<1> DEFINE n == IF i = 0 THEN Top[height][0] ELSE MN(a, i)
<1>1. n \in Nodes
  BY HeightNodes, ThreeNodes DEF Places
<1>2. \A image, fee \in BOOLEAN : NewRow(a, image, fee) \in Row
  BY DEF NewRow, Row
<1>3. (i = 0) \in BOOLEAN /\ TRUE \in BOOLEAN /\ FALSE \in BOOLEAN
  OBVIOUS
<1>4. /\ NewRow(a, TRUE, i = 0) \in Row
      /\ NewRow(a, FALSE, FALSE) \in Row
  BY <1>2
<1>5. \/ /\ Added(n, NewRow(a, TRUE, i = 0))
         /\ upload' = [upload EXCEPT ![a][i] = "done"]
         /\ IF i = 0 THEN /\ first' = [first EXCEPT ![a] = n]
                          /\ code' = [code EXCEPT ![a] = Len(rows[n]) + 1]
                     ELSE UNCHANGED <<first, code>>
      \/ /\ \/ UNCHANGED rows
            \/ Added(n, NewRow(a, TRUE, i = 0))
            \/ Added(n, NewRow(a, FALSE, FALSE))
         /\ upload' = [upload EXCEPT ![a][i] = "failed"]
         /\ UNCHANGED <<first, code>>
  BY <1>1, <1>4 DEF Upload, Added
<1>6. QED
  BY <1>1, <1>3, <1>5

LEMMA AddedKeeps ==
    ASSUME TypeOK, NEW n, NEW r, Added(n, r)
    PROVE  RowsKeep
BY RowAppended DEF RowsKeep, Same

LEMMA RowsStay ==
    ASSUME TypeOK, ControlInv, HeldInv, [Next]_vars
    PROVE  RowsKeep
<1> USE DEF wallet, nodes, world
<1>1. CASE UNCHANGED rows
  BY <1>1 DEF RowsKeep, Same
<1>2. ASSUME NEW a \in Attempts, NEW i \in Places, Upload(a, i) PROVE RowsKeep
  BY <1>1, <1>2, UploadAdds, AddedKeeps
<1>3. ASSUME NEW a \in Attempts, SaveValidMN0(a) PROVE RowsKeep
  <2> DEFINE r == [handler[a][0].copy EXCEPT !.valid = TRUE]
  <2>1. /\ handler[a][0].copy \in Row /\ Replaced(first[a], code[a], r)
        /\ handler[a][0].at = "checking"
    BY <1>3, SaveWrites
  <2>2. Same(r, handler[a][0].copy) /\ r.valid
    BY <2>1, ValidRow
  <2>3. Same(r, rows[first[a]][code[a]])
    BY <2>1, <2>2 DEF HeldInv, RowOfCode, Same
  <2>4. QED
    BY <2>1, <2>2, <2>3, ReplacedKeeps
<1>4. ASSUME NEW n \in Called, NEW m \in Confirmers, Confirmation(n, m) PROVE RowsKeep
  <2>1. n \in Nodes
    BY RegistrationAssumption
  <2>2. FirstConfirmation(n, m) \/ IsSecond(n, m)
    BY <1>4 DEF Confirmation, PlacingFails, WritingFails, TicketRegistered
  <2>3. QED
    BY <2>1, <2>2, ConfirmationWrites, ReplacedKeeps
<1>5. QED
  BY <1>1, <1>2, <1>3, <1>4
     DEF Next, vars, NextBlock, Step2, Step3, GenerateTicket, FinishStep2, StartStep3,
         StopStep3, BurnFee, FinishStep3, UnknownCode, ReadRow, Txid10, CheckFails,
         SigningFails, ConnectionLost, Activate

(* What a node holds of an attempt it keeps holding. *)
LEMMA ImageStays ==
    ASSUME RowsKeep, NEW n \in Nodes, NEW a, HasImage(n, a)
    PROVE  HasImage(n, a)'
BY DEF RowsKeep, HasImage, Same

(***************************************************************************)
(* What an attempt has, it keeps, if its first node and code stay.         *)
(***************************************************************************)
LEMMA CodeRowStays ==
    ASSUME TypeOK, ControlInv, RowsKeep, NEW a \in Attempts,
           phase[a] \in Begun \/ upload[a][0] = "done",
           first'[a] = first[a], code'[a] = code[a]
    PROVE  Same(RowOfCode(a)', RowOfCode(a)) /\ (RowOfCode(a).valid => RowOfCode(a)'.valid)
<1>1. first[a] \in Nodes /\ code[a] \in DOMAIN rows[first[a]]
  BY CodeOfRow
<1>2. QED
  BY <1>1 DEF RowsKeep, RowOfCode

-----------------------------------------------------------------------------
(* HeldInv of one attempt *)
Held(a) ==
    /\ phase[a] \in Begun \/ upload[a][0] = "done" =>
          RowOfCode(a).attempt = a /\ RowOfCode(a).image /\ RowOfCode(a).fee
    /\ \A i \in {1, 2} :
          /\ upload[a][i] = "done" => phase[a] # "new" /\ HasImage(MN(a, i), a)
          /\ a \in paid => HasImage(MN(a, i), a)
    /\ handler[a][0].at = "checking" => Same(handler[a][0].copy, RowOfCode(a))

(***************************************************************************)
(* An attempt keeps what is held of it in a step that makes nothing of it  *)
(* done, begun, paid or read.                                              *)
(***************************************************************************)
LEMMA HeldStays ==
    ASSUME TypeOK, ControlInv, HeldInv, RowsKeep, NEW a \in Attempts,
           first'[a] = first[a], code'[a] = code[a],
           block'[a] = block[a],
           phase'[a] \in Begun => phase[a] \in Begun,
           phase'[a] = "new" => phase[a] = "new",
           \A i \in Places : upload'[a][i] = "done" => upload[a][i] = "done",
           a \in paid' => a \in paid,
           handler'[a][0].at = "checking" => handler'[a][0] = handler[a][0]
    PROVE  Held(a)'
<1>1. 0 \in Places /\ 1 \in Places /\ 2 \in Places
  BY DEF Places
<1>2. ASSUME phase'[a] \in Begun \/ upload'[a][0] = "done"
      PROVE  RowOfCode(a)'.attempt = a /\ RowOfCode(a)'.image /\ RowOfCode(a)'.fee
  <2>1. phase[a] \in Begun \/ upload[a][0] = "done"
    BY <1>1, <1>2
  <2>2. Same(RowOfCode(a)', RowOfCode(a))
    BY <2>1, CodeRowStays
  <2>3. QED
    BY <2>1, <2>2 DEF HeldInv, Same
<1>3. ASSUME NEW i \in {1, 2}
      PROVE  /\ upload'[a][i] = "done" => phase'[a] # "new" /\ HasImage(MN(a, i), a)'
             /\ a \in paid' => HasImage(MN(a, i), a)'
  <2>1. MN(a, i) \in Nodes /\ MN(a, i)' = MN(a, i)
    <3>1. MN(a, i) \in Nodes
      BY <1>1, ThreeNodes
    <3>2. QED
      BY <3>1 DEF MN
  <2>2. HasImage(MN(a, i), a) => HasImage(MN(a, i), a)'
    <3>1. ASSUME NEW n \in Nodes, HasImage(n, a) PROVE HasImage(n, a)'
      BY <3>1, ImageStays
    <3>2. QED
      BY <2>1, <3>1 DEF HasImage
  <2>3. QED
    BY <1>1, <2>2 DEF HeldInv
<1>4. ASSUME handler'[a][0].at = "checking"
      PROVE  Same(handler'[a][0].copy, RowOfCode(a)')
  <2>1. phase[a] \in Begun /\ Same(handler[a][0].copy, RowOfCode(a))
    BY <1>1, <1>4 DEF ControlInv, HeldInv, Begun
  <2>2. Same(RowOfCode(a)', RowOfCode(a))
    BY <2>1, CodeRowStays
  <2>3. QED
    BY <1>4, <2>1, <2>2 DEF Same
<1>5. QED
  BY <1>2, <1>3, <1>4 DEF Held

(* HeldInv is kept: one step for each action that changes what it is about. *)
LEMMA HeldStep ==
    TypeOK /\ ControlInv /\ HeldInv /\ [Next]_vars => HeldInv'
<1> SUFFICES ASSUME TypeOK, ControlInv, HeldInv, [Next]_vars, NEW b \in Attempts
             PROVE  Held(b)'
  BY DEF HeldInv, Held
<1> USE DEF wallet, nodes, world
<1>1. RowsKeep
  BY RowsStay
<1>2. CASE UNCHANGED <<phase, block, first, upload, code, paid, handler>>
  BY <1>1, <1>2, HeldStays
<1>3. ASSUME NEW a \in Attempts, GenerateTicket(a) PROVE Held(b)'
  <2>1. CASE b = a
    <3>1. phase[a] = "new" /\ phase'[a] = "step2" /\ a \notin paid
      BY <1>3 DEF GenerateTicket, TypeOK, ControlInv, Begun
    <3>2. /\ \A i \in {1, 2} : upload[a][i] # "done"
          /\ handler[a][0].at # "checking"
      BY <3>1 DEF HeldInv, ControlInv, Places
    <3>3. upload[a][0] = "done" => Same(RowOfCode(a)', RowOfCode(a))
      BY <1>1, <1>3, CodeRowStays DEF GenerateTicket
    <3>4. QED
      BY <1>3, <2>1, <3>1, <3>2, <3>3 DEF GenerateTicket, Held, HeldInv, Begun, Same
  <2>2. CASE b # a
    BY <1>1, <1>3, <2>2, HeldStays DEF GenerateTicket, TypeOK
  <2>3. QED
    BY <2>1, <2>2
<1>4. ASSUME NEW a \in Attempts, NEW i \in Places, Upload(a, i) PROVE Held(b)'
  <2> DEFINE n == IF i = 0 THEN Top[height][0] ELSE MN(a, i)
  <2>1. /\ UNCHANGED <<phase, block, paid, handler>>
        /\ phase[a] = IF i = 0 THEN "step2" ELSE "step3"
        /\ upload[a][i] = "none"
    BY <1>4 DEF Upload, Uploading
  <2>2. /\ upload \in [Attempts -> [Places -> Uploads]]
        /\ first \in [Attempts -> Nodes] /\ code \in [Attempts -> Nat]
    BY DEF TypeOK
  <2>3. CASE b # a
    <3>1. upload'[b] = upload[b] /\ first'[b] = first[b] /\ code'[b] = code[b]
      BY <1>4, <2>2, <2>3 DEF Upload
    <3>2. QED
      BY <1>1, <2>1, <3>1, HeldStays
  <2>4. CASE b = a /\ upload' = [upload EXCEPT ![a][i] = "failed"]
             /\ UNCHANGED <<first, code>>
    <3>1. \A j \in Places : upload'[a][j] = "done" => upload[a][j] = "done"
      BY <2>2, <2>4
    <3>2. QED
      BY <1>1, <2>1, <2>4, <3>1, HeldStays
  <2>5. CASE /\ b = a /\ i = 0
             /\ Added(n, NewRow(a, TRUE, i = 0))
             /\ upload' = [upload EXCEPT ![a][i] = "done"]
             /\ first' = [first EXCEPT ![a] = n]
             /\ code' = [code EXCEPT ![a] = Len(rows[n]) + 1]
    <3>1. first'[a] = n /\ code'[a] = Len(rows[n]) + 1
      BY <2>2, <2>5
    <3>2. RowOfCode(a)' = NewRow(a, TRUE, TRUE)
      <4>1. rows'[n][Len(rows[n]) + 1] = NewRow(a, TRUE, i = 0)
        BY <2>5, RowAppended
      <4>2. NewRow(a, TRUE, i = 0) = NewRow(a, TRUE, TRUE)
        BY <2>5 DEF NewRow
      <4>3. QED
        BY <3>1, <4>1, <4>2 DEF RowOfCode
    <3>3. handler[a][0].at # "checking" /\ a \notin paid
      BY <2>1, <2>5 DEF ControlInv, Begun, Places
    <3>4. \A j \in {1, 2} : upload'[a][j] = "done" =>
             HasImage(MN(a, j), a)'
      <4>1. ASSUME NEW j \in {1, 2}, upload'[a][j] = "done"
            PROVE  HasImage(MN(a, j), a)'
        <5>1. MN(a, j) \in Nodes /\ MN(a, j)' = MN(a, j)
          <6>1. MN(a, j) \in Nodes
            BY ThreeNodes DEF Places
          <6>2. QED
            BY <2>1, <6>1 DEF MN
        <5>2. upload[a][j] = "done"
          BY <2>2, <2>5, <4>1 DEF Places
        <5>3. HasImage(MN(a, j), a)
          BY <5>2 DEF HeldInv
        <5>4. \A m \in Nodes : HasImage(m, a) => HasImage(m, a)'
          BY <1>1, ImageStays
        <5>5. QED
          BY <5>1, <5>3, <5>4 DEF HasImage
      <4>2. QED
        BY <4>1
    <3>5. QED
      BY <2>1, <2>5, <3>2, <3>3, <3>4 DEF Held, NewRow
  <2>6. CASE /\ b = a /\ i # 0
             /\ Added(n, NewRow(a, TRUE, i = 0))
             /\ upload' = [upload EXCEPT ![a][i] = "done"]
             /\ UNCHANGED <<first, code>>
    <3>1. n = MN(a, i) /\ n \in Nodes /\ i \in {1, 2}
      BY <2>6, ThreeNodes DEF Places
    <3>2. HasImage(MN(a, i), a)'
      <4>1. Len(rows[n]) + 1 \in DOMAIN rows'[n]
            /\ rows'[n][Len(rows[n]) + 1] = NewRow(a, TRUE, FALSE)
        BY <2>6, RowAppended
      <4>2. MN(a, i)' = n
        BY <2>1, <3>1 DEF MN
      <4>3. QED
        BY <4>1, <4>2 DEF HasImage, NewRow
    <3>3. upload'[a][0] = upload[a][0]
      BY <2>2, <2>6 DEF Places
    <3>4. phase[a] = "step3" /\ phase'[a] = "step3"
      BY <2>1, <2>6
    <3>5. Same(RowOfCode(a)', RowOfCode(a))
      BY <1>1, <2>6, <3>4, CodeRowStays DEF Begun
    <3>6. \A j \in {1, 2} : upload'[a][j] = "done" \/ a \in paid =>
             HasImage(MN(a, j), a)'
      <4>1. ASSUME NEW j \in {1, 2}, j # i, upload'[a][j] = "done" \/ a \in paid
            PROVE  HasImage(MN(a, j), a)'
        <5>1. MN(a, j) \in Nodes /\ MN(a, j)' = MN(a, j)
          <6>1. MN(a, j) \in Nodes
            BY ThreeNodes DEF Places
          <6>2. QED
            BY <2>1, <6>1 DEF MN
        <5>2. upload[a][j] = "done" \/ a \in paid
          BY <2>2, <2>6, <4>1 DEF Places
        <5>3. HasImage(MN(a, j), a)
          BY <5>2 DEF HeldInv
        <5>4. \A m \in Nodes : HasImage(m, a) => HasImage(m, a)'
          BY <1>1, ImageStays
        <5>5. QED
          BY <5>1, <5>3, <5>4 DEF HasImage
      <4>2. QED
        BY <3>2, <4>1
    <3>7. handler[a][0].at # "checking"
      BY <3>4 DEF ControlInv, Places
    <3>8. RowOfCode(a).attempt = a /\ RowOfCode(a).image /\ RowOfCode(a).fee
      BY <3>4 DEF HeldInv, Begun
    <3>9. QED
      BY <2>1, <2>6, <3>4, <3>5, <3>6, <3>7, <3>8 DEF Held, Same
  <2>7. QED
    BY <1>4, <2>3, <2>4, <2>5, <2>6, UploadAdds
<1>5. ASSUME NEW a \in Attempts, FinishStep2(a) PROVE Held(b)'
  <2>1. CASE b # a
    BY <1>1, <1>5, <2>1, HeldStays DEF FinishStep2, TypeOK
  <2>2. CASE b = a
    <3>1. /\ phase'[a] # "new" /\ a \notin paid /\ handler[a][0].at # "checking"
          /\ phase'[a] \in Begun => upload[a][0] = "done"
          /\ \A i \in Places : upload'[a][i] = "none"
      <4>1. /\ phase[a] = "step2" /\ phase'[a] \in {"registered", "dropped"}
            /\ phase'[a] = "registered" => upload[a][0] = "done"
            /\ upload'[a] = NoneYet
        BY <1>5 DEF FinishStep2, TypeOK
      <4>2. QED
        BY <4>1 DEF ControlInv, Begun, Places, NoneYet
    <3>2. upload[a][0] = "done" => Same(RowOfCode(a)', RowOfCode(a))
      BY <1>1, <1>5, CodeRowStays DEF FinishStep2
    <3>3. QED
      BY <1>5, <2>2, <3>1, <3>2 DEF FinishStep2, Held, HeldInv, Same, Places
  <2>3. QED
    BY <2>1, <2>2
<1>6. ASSUME NEW a \in Attempts, StartStep3(a) \/ StopStep3(a) \/ FinishStep3(a)
      PROVE  Held(b)'
  <2>1. /\ UNCHANGED <<block, first, code, paid, handler>>
        /\ phase[a] \in Begun /\ phase'[a] \in Begun
        /\ \A c \in Attempts \ {a} : phase'[c] = phase[c]
    <3>1. phase \in [Attempts -> Phases]
      BY DEF TypeOK
    <3>2. /\ phase[a] \in {"registered", "step3", "asking", "error"}
          /\ \E what \in {"step3", "success", "error"} :
                phase' = [phase EXCEPT ![a] = what]
      BY <1>6 DEF StartStep3, StopStep3, FinishStep3, Uploaded
    <3>3. QED
      BY <1>6, <3>1, <3>2 DEF StartStep3, StopStep3, FinishStep3, Begun
  <2>2. \A c \in Attempts : \A i \in Places :
           upload'[c][i] = "done" => upload[c][i] = "done"
    <3>1. upload' = upload \/ upload' = [upload EXCEPT ![a] = NoneYet]
      BY <1>6 DEF StartStep3, StopStep3, FinishStep3
    <3>2. QED
      BY <3>1 DEF TypeOK, NoneYet
  <2>3. phase'[b] \in Begun => phase[b] \in Begun
    BY <2>1
  <2>4. phase'[b] = "new" => phase[b] = "new"
    BY <2>1 DEF Begun
  <2>5. QED
    BY <1>1, <2>1, <2>2, <2>3, <2>4, HeldStays
<1>7. ASSUME NEW a \in Attempts, BurnFee(a) PROVE Held(b)'
  <2>1. /\ UNCHANGED <<block, first, code>> /\ phase[a] = "step3"
        /\ \A i \in {1, 2} : upload[a][i] = "done"
        /\ phase' = [phase EXCEPT ![a] = "asking"]
        /\ upload' = [upload EXCEPT ![a] = NoneYet]
        /\ handler' = [handler EXCEPT ![a] = [i \in Places |-> [at |-> "called"]]]
        /\ paid' \subseteq paid \cup {a}
    BY <1>7 DEF BurnFee, Uploaded
  <2>2. CASE b # a
    BY <1>1, <2>1, <2>2, HeldStays DEF TypeOK
  <2>3. CASE b = a
    <3>1. /\ phase'[a] = "asking" /\ handler'[a][0].at # "checking"
          /\ \A i \in Places : upload'[a][i] = "none"
      BY <2>1 DEF TypeOK, NoneYet, Places
    <3>2. \A i \in {1, 2} : HasImage(MN(a, i), a)'
      <4>1. ASSUME NEW i \in {1, 2} PROVE HasImage(MN(a, i), a)'
        <5>1. MN(a, i) \in Nodes
          BY ThreeNodes DEF Places
        <5>2. MN(a, i)' = MN(a, i)
          BY <2>1 DEF MN
        <5>3. HasImage(MN(a, i), a)
          BY <2>1 DEF HeldInv
        <5>4. \A m \in Nodes : HasImage(m, a) => HasImage(m, a)'
          BY <1>1, ImageStays
        <5>5. QED
          BY <5>1, <5>2, <5>3, <5>4 DEF HasImage
      <4>2. QED
        BY <4>1
    <3>3. Same(RowOfCode(a)', RowOfCode(a))
      BY <1>1, <2>1, CodeRowStays DEF Begun
    <3>4. QED
      BY <2>1, <2>3, <3>1, <3>2, <3>3 DEF Held, HeldInv, Same, Begun, Places
  <2>4. QED
    BY <2>2, <2>3
<1>8. ASSUME NEW a \in Attempts, ReadRow(a) PROVE Held(b)'
  <2>1. /\ UNCHANGED <<phase, block, first, upload, code, paid, rows>>
        /\ first[a] = MN(a, 0)
        /\ handler' = [handler EXCEPT ![a][0] =
                          [at |-> "checking", copy |-> rows[MN(a, 0)][code[a]]]]
    BY <1>8 DEF ReadRow
  <2>2. CASE b # a
    <3>1. handler'[b] = handler[b]
      BY <2>1, <2>2 DEF TypeOK
    <3>2. QED
      BY <1>1, <2>1, <3>1, HeldStays
  <2>3. CASE b = a
    <3>1. handler'[a][0] = [at |-> "checking", copy |-> RowOfCode(a)]
      BY <2>1 DEF TypeOK, Places, RowOfCode
    <3>2. RowOfCode(a)' = RowOfCode(a)
      BY <2>1 DEF RowOfCode
    <3>3. \A i \in {1, 2} : HasImage(MN(a, i), a)' <=> HasImage(MN(a, i), a)
      BY <2>1 DEF HasImage, MN
    <3>4. QED
      BY <2>1, <2>3, <3>1, <3>2, <3>3 DEF Held, HeldInv, Same
  <2>4. QED
    BY <2>2, <2>3
<1>9. ASSUME NEW a \in Attempts, NEW i \in Places, Replied(a, i) PROVE Held(b)'
  <2>1. /\ UNCHANGED <<phase, block, first, upload, code, paid>>
        /\ handler' = [handler EXCEPT ![a][i] = Idle]
    BY <1>9 DEF Replied, Reply
  <2>2. handler'[b][0] = handler[b][0] \/ handler'[b][0] = Idle
    BY <2>1 DEF TypeOK, Places
  <2>3. QED
    BY <1>1, <2>1, <2>2, HeldStays DEF Idle
<1>10. ASSUME NEW n \in Nodes, NEW m \in Confirmers, Confirmation(n, m)
       PROVE  Held(b)'
  BY <1>2, <1>10 DEF Confirmation, FirstConfirmation, PlacingFails, WritingFails,
                     TicketRegistered
<1>11. CASE NextBlock \/ UNCHANGED vars \/ \E n \in Nodes : Activate(n)
  BY <1>2, <1>11 DEF Activate, NextBlock, vars
<1>12. Called \subseteq Nodes /\ 0 \in Places
  BY RegistrationAssumption DEF Places
<1>13. QED
  BY <1>3, <1>4, <1>5, <1>6, <1>7, <1>8, <1>9, <1>10, <1>11, <1>12, HandlersReply
     DEF Next, Step2, Step3

-----------------------------------------------------------------------------
(* Only the handler of MN0 that saves its row answers "passed". *)
LEMMA PassedBySaving ==
    ASSUME TypeOK, [Next]_vars, NEW b \in Attempts, answer'[b][0] = "passed"
    PROVE  answer[b][0] = "passed" \/ SaveValidMN0(b)
<1> USE DEF wallet, nodes, world
<1>1. answer \in [Attempts -> [Places -> Answers]] /\ 0 \in Places
  BY DEF TypeOK, Places
<1>2. CASE UNCHANGED answer
  BY <1>2
<1>3. ASSUME NEW a \in Attempts, NEW i \in Places,
             answer' = [answer EXCEPT ![a][i] = "error"]
      PROVE  answer[b][0] = "passed"
  BY <1>1, <1>3
<1>4. ASSUME NEW a \in Attempts, SaveValidMN0(a)
      PROVE  answer[b][0] = "passed" \/ SaveValidMN0(b)
  <2>1. PICK what : answer' = [answer EXCEPT ![a][0] = what]
    BY <1>4 DEF SaveValidMN0, Answered, Failed, Reply
  <2>2. a # b => answer'[b] = answer[b]
    BY <1>1, <2>1
  <2>3. QED
    BY <1>4, <2>2
<1>5. ASSUME NEW a \in Attempts, UnknownCode(a) PROVE answer[b][0] = "passed"
  BY <1>1, <1>3, <1>5 DEF UnknownCode, Answered, Reply
<1>6. ASSUME NEW a \in Attempts, NEW i \in Places, Txid10(a, i)
      PROVE  answer[b][0] = "passed"
  BY <1>3, <1>6
     DEF Txid10, CheckFails, SigningFails, ConnectionLost, Answered, Failed, Reply
<1>7. ASSUME NEW a \in Attempts, FinishStep3(a) PROVE answer[b][0] = "passed"
  BY <1>1, <1>7 DEF FinishStep3, NoneYet
<1>8. QED
  BY <1>2, <1>4, <1>5, <1>6, <1>7
     DEF Next, vars, NextBlock, Step2, Step3, GenerateTicket, FinishStep2, StartStep3,
         StopStep3, BurnFee, Upload, ReadRow, Confirmation, FirstConfirmation,
         PlacingFails, WritingFails, TicketRegistered, Activate

(* While the wallet asks, the nodes and the code of an attempt stay. *)
LEMMA AskingStays ==
    ASSUME TypeOK, ControlInv, [Next]_vars, NEW b \in Attempts, phase[b] = "asking"
    PROVE  first'[b] = first[b] /\ code'[b] = code[b] /\ MN(b, 0)' = MN(b, 0)
<1> USE DEF wallet, nodes, world
<1>1. CASE UNCHANGED <<first, code, block>>
  BY <1>1 DEF MN
<1>2. ASSUME NEW a \in Attempts, GenerateTicket(a)
      PROVE  /\ UNCHANGED <<first, code>> /\ MN(b, 0)' = MN(b, 0)
  BY <1>2 DEF GenerateTicket, TypeOK, MN
<1>3. ASSUME NEW a \in Attempts, NEW i \in Places, Upload(a, i)
      PROVE  first'[b] = first[b] /\ code'[b] = code[b] /\ MN(b, 0)' = MN(b, 0)
  <2>1. a # b
    BY <1>3 DEF Upload, Uploading
  <2>2. block' = block
    BY <1>3 DEF Upload
  <2>3. first'[b] = first[b] /\ code'[b] = code[b]
    <3>1. /\ first' = first \/ \E n : first' = [first EXCEPT ![a] = n]
          /\ code' = code \/ \E k : code' = [code EXCEPT ![a] = k]
      BY <1>3, UploadAdds
    <3>2. QED
      BY <2>1, <3>1 DEF TypeOK
  <2>4. QED
    BY <2>2, <2>3 DEF MN
<1>4. ASSUME NEW a \in Attempts, NEW i \in Places, Replied(a, i)
      PROVE  UNCHANGED <<first, code, block>>
  BY <1>4 DEF Replied, Reply
<1>5. 0 \in Places
  BY DEF Places
<1>6. QED
  BY <1>1, <1>2, <1>3, <1>4, <1>5, HandlersReply
     DEF Next, vars, NextBlock, Step2, Step3, FinishStep2, StartStep3, StopStep3,
         BurnFee, FinishStep3, ReadRow, Confirmation, FirstConfirmation, PlacingFails,
         WritingFails, TicketRegistered, Activate

-----------------------------------------------------------------------------
(* What MN0 vouches for stays so. *)
LEMMA VouchStep ==
    TypeOK /\ ControlInv /\ HeldInv /\ MN0Vouches /\ [Next]_vars => MN0Vouches'
<1> SUFFICES ASSUME TypeOK, ControlInv, HeldInv, MN0Vouches, [Next]_vars
             PROVE  MN0Vouches'
  OBVIOUS
<1> USE DEF wallet, nodes, world
<1>1. RowsKeep
  BY RowsStay
<1>2. paid \subseteq paid'
  <2>1. CASE \E a \in Attempts : BurnFee(a)
    BY <2>1 DEF BurnFee
  <2>2. CASE ~ \E a \in Attempts : BurnFee(a)
    <3>1. ASSUME NEW a \in Attempts, NEW i \in Places, Replied(a, i)
          PROVE  UNCHANGED paid
      BY <3>1 DEF Replied, Reply
    <3>2. 0 \in Places
      BY DEF Places
    <3>3. QED
      BY <2>2, <3>1, <3>2, HandlersReply
         DEF Next, vars, NextBlock, Step2, Step3, GenerateTicket, FinishStep2,
             StartStep3, StopStep3, FinishStep3, Upload, ReadRow, Confirmation,
             FirstConfirmation, PlacingFails, WritingFails, TicketRegistered, Activate
  <2>3. QED
    BY <2>1, <2>2
<1>3. ValidRows
  BY DEF MN0Vouches, ValidRows
<1>4. ValidRows'
  <2>1. CASE UNCHANGED rows
    BY <1>2, <1>3, <2>1 DEF ValidRows
  <2>2. ASSUME NEW a \in Attempts, NEW i \in Places, Upload(a, i) PROVE ValidRows'
    <3>1. ASSUME NEW n, NEW image, NEW fee, Added(n, NewRow(a, image, fee))
          PROVE  ValidRows'
      BY <1>2, <1>3, <3>1, RowAppended DEF ValidRows, NewRow
    <3>2. QED
      BY <2>1, <2>2, <3>1, UploadAdds
  <2>3. ASSUME NEW a \in Attempts, SaveValidMN0(a) PROVE ValidRows'
    <3> DEFINE r == [handler[a][0].copy EXCEPT !.valid = TRUE]
    <3>1. /\ Replaced(first[a], code[a], r) /\ a \in paid /\ phase[a] = "asking"
          /\ handler[a][0].copy \in Row /\ handler[a][0].at = "checking"
      BY <2>3, SaveWrites
    <3>2. r.attempt = a
      <4>1. Same(r, handler[a][0].copy)
        BY <3>1, ValidRow
      <4>2. handler[a][0].copy.attempt = a
        BY <3>1 DEF HeldInv, Same, Begun
      <4>3. QED
        BY <4>1, <4>2 DEF Same
    <3> HIDE DEF r
    <3>3. QED
      BY <1>2, <1>3, <3>1, <3>2, RowReplaced DEF ValidRows
  <2>4. ASSUME NEW n \in Called, NEW m \in Confirmers, Confirmation(n, m)
        PROVE  ValidRows'
    <3>1. n \in Nodes /\ (FirstConfirmation(n, m) \/ IsSecond(n, m))
      BY <2>4, RegistrationAssumption
         DEF Confirmation, PlacingFails, WritingFails, TicketRegistered
    <3>2. PICK r \in Row : /\ Replaced(n, Selected(n), r)
                           /\ Same(r, rows[n][Selected(n)])
                           /\ r.valid = rows[n][Selected(n)].valid
      BY <3>1, ConfirmationWrites
    <3>3. QED
      BY <1>2, <1>3, <3>2, RowReplaced DEF ValidRows, Same, Replaced
  <2>5. QED
    BY <2>1, <2>2, <2>3, <2>4
       DEF Next, vars, NextBlock, Step2, Step3, GenerateTicket, FinishStep2, StartStep3,
           StopStep3, BurnFee, FinishStep3, UnknownCode, ReadRow, Txid10, CheckFails,
           SigningFails, ConnectionLost, Activate
<1>5. ASSUME NEW b \in Attempts, answer'[b][0] = "passed"
      PROVE  /\ first'[b] = MN(b, 0)'
             /\ RowOfCode(b)'.valid /\ RowOfCode(b)'.attempt = b
  <2>1. answer[b][0] = "passed" \/ SaveValidMN0(b)
    BY <1>5, PassedBySaving
  <2>2. phase[b] = "asking" /\ first[b] = MN(b, 0)
    <3>1. CASE answer[b][0] = "passed"
      BY <3>1 DEF MN0Vouches, ControlInv, Places
    <3>2. CASE SaveValidMN0(b)
      BY <3>2, SaveWrites
    <3>3. QED
      BY <2>1, <3>1, <3>2
  <2>3. first'[b] = first[b] /\ code'[b] = code[b] /\ MN(b, 0)' = MN(b, 0)
    BY <2>2, AskingStays
  <2>4. Same(RowOfCode(b)', RowOfCode(b)) /\ RowOfCode(b).attempt = b
    BY <1>1, <2>2, <2>3, CodeRowStays DEF HeldInv, Begun
  <2>5. RowOfCode(b)'.valid
    <3>1. CASE answer[b][0] = "passed"
      <4>1. RowOfCode(b).valid
        BY <2>2, <3>1 DEF MN0Vouches, RowOfCode
      <4>2. QED
        BY <1>1, <2>2, <2>3, <4>1, CodeRowStays DEF Begun
    <3>2. CASE SaveValidMN0(b)
      <4> DEFINE r == [handler[b][0].copy EXCEPT !.valid = TRUE]
      <4>1. Replaced(first[b], code[b], r) /\ handler[b][0].copy \in Row
        BY <3>2, SaveWrites
      <4>2. r.valid
        BY <4>1, ValidRow
      <4> HIDE DEF r
      <4>3. rows'[first[b]][code[b]] = r
        <5>1. \A m \in Nodes : \A j \in DOMAIN rows[m] :
                 rows'[m][j] = IF m = first[b] /\ j = code[b] THEN r ELSE rows[m][j]
          BY <4>1, RowReplaced
        <5>2. first[b] \in Nodes /\ code[b] \in DOMAIN rows[first[b]]
          BY <4>1 DEF Replaced
        <5>3. QED
          BY <5>1, <5>2
      <4>4. QED
        BY <2>3, <4>2, <4>3 DEF RowOfCode
    <3>3. QED
      BY <2>1, <3>1, <3>2
  <2>6. QED
    BY <2>2, <2>3, <2>4, <2>5 DEF Same
<1>6. QED
  BY <1>4, <1>5 DEF MN0Vouches, ValidRows, RowOfCode

(* A node writes a ticket only when it places the image, so once. *)
LEMMA ChainStep ==
    TypeOK /\ ChainInv /\ [Next]_vars => ChainInv'
<1> SUFFICES ASSUME TypeOK, ChainInv, [Next]_vars PROVE ChainInv'
  OBVIOUS
<1> USE DEF wallet, nodes, world
<1>1. CASE UNCHANGED chain /\ placed \subseteq placed'
  BY <1>1 DEF ChainInv, OneTicketPerNode
<1>2. ASSUME NEW n \in Called, NEW m \in Confirmers, TicketRegistered(n, m)
      PROVE  ChainInv'
  <2> DEFINE t == [attempt |-> RowOf(n).attempt, mn0 |-> n, mn1 |-> RowOf(n).mn1,
                   mn2 |-> m]
  <2>1. /\ chain' = Append(chain, t) /\ n \notin placed /\ placed' = placed \cup {n}
        /\ t.mn0 = n
    BY <1>2 DEF TicketRegistered, CanPlace
  <2>2. chain \in Seq(Ticket)
    BY DEF TypeOK
  <2> HIDE DEF t
  <2>3. \A k \in DOMAIN chain' :
           \/ k \in DOMAIN chain /\ chain'[k] = chain[k]
           \/ k = Len(chain) + 1 /\ chain'[k] = t
    BY <2>1, <2>2
  <2>4. QED
    BY <2>1, <2>3 DEF ChainInv, OneTicketPerNode
<1>3. ASSUME NEW n \in Called, NEW m \in Confirmers, Confirmation(n, m),
             ~TicketRegistered(n, m)
      PROVE  ChainInv'
  BY <1>1, <1>3 DEF Confirmation, FirstConfirmation, PlacingFails, WritingFails
<1>4. ASSUME NEW n \in Nodes, Activate(n) PROVE ChainInv'
  BY <1>1, <1>4 DEF Activate
<1>5. CASE NextBlock \/ UNCHANGED vars
  BY <1>1, <1>5 DEF NextBlock, vars
<1>6. ASSUME NEW a \in Attempts,
             \/ Step2(a) \/ Step3(a) \/ UnknownCode(a) \/ ReadRow(a) \/ SaveValidMN0(a)
             \/ \E i \in Places : Upload(a, i) \/ Txid10(a, i)
      PROVE  UNCHANGED <<placed, chain>>
  BY <1>6 DEF Step2, Step3, GenerateTicket, FinishStep2, StartStep3, StopStep3, BurnFee,
              FinishStep3, Upload, UnknownCode, ReadRow, SaveValidMN0, Txid10,
              CheckFails, SigningFails, ConnectionLost
<1>7. QED
  BY <1>1, <1>2, <1>3, <1>4, <1>5, <1>6 DEF Next

-----------------------------------------------------------------------------
(***************************************************************************)
(* Every value of the tables, the wallet and the handlers has its type in  *)
(* every reachable state, and the control of the attempts is as stated.    *)
(***************************************************************************)
THEOREM TypeCorrect == Spec => [](TypeOK /\ ControlInv)
<1>1. Init => TypeOK /\ ControlInv
  <2> SUFFICES ASSUME Init PROVE TypeOK /\ ControlInv
    OBVIOUS
  <2>1. 0 \in Heights /\ 0 \in Places /\ faults \in 0 .. MaxFaults
    BY RegistrationAssumption DEF Init, Heights, Places
  <2>2. Top[0][0] \in Nodes /\ \A n \in Nodes : Len(rows[n]) <= MaxRows[n]
    BY <2>1, RegistrationAssumption DEF Init
  <2>3. TypeOK
    BY <2>1, <2>2
       DEF Init, TypeOK, NoneYet, Idle, Phases, Uploads, Burns, Answers, Handlers
  <2>4. ControlInv
    BY <2>1 DEF Init, ControlInv, NoneYet, Idle, Begun
  <2>5. QED
    BY <2>3, <2>4
<1>2. QED
  BY <1>1, TypeStep, PTL DEF Spec

-----------------------------------------------------------------------------
(* What attempts hold, in every reachable state *)
LEMMA HeldCorrect == Spec => [](TypeOK /\ ControlInv /\ HeldInv)
<1>1. Init => HeldInv
  BY DEF Init, HeldInv, NoneYet, Idle, Begun, Places
<1>2. QED
  BY <1>1, TypeCorrect, HeldStep, PTL DEF Spec

(***************************************************************************)
(* The fee of an attempt is burned only when its three masternodes hold    *)
(* the image, and they keep it: for every number of attempts, retries,     *)
(* lost calls and changes of the list.                                     *)
(***************************************************************************)
THEOREM BurnedAfterUploads == Spec => []UploadedBeforeBurn
<1>1. ASSUME TypeOK, ControlInv, HeldInv, NEW a \in paid
      PROVE  /\ RowOfCode(a).attempt = a /\ RowOfCode(a).image /\ RowOfCode(a).fee
             /\ \A i \in {1, 2} : HasImage(MN(a, i), a)
  <2>1. a \in Attempts
    BY <1>1 DEF TypeOK
  <2>2. phase[a] \in Begun
    BY <2>1, <1>1 DEF ControlInv
  <2>3. QED
    BY <1>1, <2>1, <2>2 DEF HeldInv
<1>2. TypeOK /\ ControlInv /\ HeldInv => UploadedBeforeBurn
  BY <1>1 DEF UploadedBeforeBurn, RowOfCode, HasImage
<1>3. QED
  BY <1>2, HeldCorrect, PTL

(***************************************************************************)
(* A row that MN0 marks as valid is that of an attempt that has paid, and  *)
(* the mark is there as long as the wallet acts on the answer.             *)
(***************************************************************************)
THEOREM ValidIsPaid == Spec => []MN0Vouches
<1>1. Init => MN0Vouches
  BY DEF Init, MN0Vouches, NoneYet, Places
<1>2. QED
  BY <1>1, HeldCorrect, VouchStep, PTL DEF Spec

(***************************************************************************)
(* A masternode registers an image at most once, whoever confirms what and *)
(* however often.                                                          *)
(***************************************************************************)
THEOREM RegisteredOnce == Spec => []OneTicketPerNode
<1>1. Init => ChainInv
  BY DEF Init, ChainInv, OneTicketPerNode
<1>2. ChainInv => OneTicketPerNode
  BY DEF ChainInv
<1>3. QED
  BY <1>1, <1>2, TypeCorrect, ChainStep, PTL DEF Spec

=============================================================================
