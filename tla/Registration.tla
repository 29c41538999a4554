---------------------------- MODULE Registration ----------------------------
(***************************************************************************)
(* Registration of one image: an artist's wallet, the masternodes and the  *)
(* blockchain.                                                             *)
(*                                                                         *)
(* The wallet puts the ticket and the image on MN0 (step 2), then on MN1   *)
(* and MN2, burns 10% of MN0's fee and sends its txid to all three         *)
(* (step 3).  MN0, MN1 and MN2 are the first three of the `masternode top' *)
(* list of a block.  The wallet may try again: step 3 after an error, or   *)
(* the whole registration as a new attempt, with a new ticket for the same *)
(* image.                                                                  *)
(*                                                                         *)
(* MN1 and MN2 check the transaction, and are then to confirm to MN0.      *)
(* They do not get to it: the call of generate_signed_ticket lacks an      *)
(* argument, and the handler ends with a TypeError.                        *)
(*                                                                         *)
(* The handler of confirmations is registered at every masternode, though, *)
(* for whoever calls it.  It is modelled as it stands, with callers that   *)
(* are outside this code: a confirmation may come to any node, from any    *)
(* of them, at any time.  It finds its row by artist and image, so all     *)
(* rows of a node here are candidates; with a second confirmation it       *)
(* places the chunks of the image and writes the ticket to the blockchain. *)
(*                                                                         *)
(* A handler is one step of its node, except for TXID_10_REQ, which reads  *)
(* its row, sleeps until the node knows the burn transaction, and then     *)
(* saves the row it read (MN0) or fails (MN1, MN2).                        *)
(***************************************************************************)
EXTENDS Integers, Sequences

CONSTANTS
    Nodes,         \* masternodes
    Confirmers,    \* external: who sends REGTICKET_MN1_CONFIRM_REQ
    Called,        \* external: the masternodes they send it to
    NoNode,        \* NULL in the column of a confirmer
    Attempts,      \* registration attempts of the artist for the image
    Top,           \* Top[h][i]: number i of `masternode top' at block h
    MaxHeight,     \* bound: the last block
    MaxDistance,   \* Settings.MAX_CONFIRMATION_DISTANCE_IN_BLOCKS
    MaxRows,       \* bound: rows of the image in the regticket table of node n
    MaxFaults      \* bound: calls that fail although they need not

Places  == 0 .. 2     \* MN0, MN1, MN2
Heights == 0 .. MaxHeight

ASSUME RegistrationAssumption ==
    /\ MaxHeight \in Nat
    /\ MaxDistance \in Nat
    /\ MaxRows \in [Nodes -> Nat]
    /\ MaxFaults \in Nat
    /\ NoNode \notin Confirmers
    /\ Called \subseteq Nodes
    /\ Top \in [Heights -> [Places -> Nodes]]
    /\ \A h \in Heights : \A i, j \in Places : Top[h][i] = Top[h][j] => i = j

VARIABLES
    height,    \* the last block of the chain
    phase,     \* where the wallet stands with an attempt
    block,     \* blocknum in the ticket of an attempt
    first,     \* node the wallet took for MN0 in step 2
    upload,    \* the uploads in progress to MN0, MN1 and MN2
    code,      \* MN0's row for upload_code_mn0, 0 without one
    burn,      \* burn_tx_id: "none", a txid or the text of an error
    answer,    \* answers to TXID_10_REQ of the step 3 in progress
    rows,      \* the regticket tables, in the order of their ids
    handler,   \* the TXID_10_REQ handlers
    placed,    \* nodes with a Chunk row for the thumbnail of the image
    chain,     \* tickets of the image in the blockchain, oldest first
    faults,    \* calls, answers and checks that failed so far
    paid       \* history: attempts that have burned the 10%

vars == <<height, phase, block, first, upload, code, burn, answer, rows, handler,
          placed, chain, faults, paid>>

wallet == <<phase, block, first, upload, code, burn, answer, paid>>
nodes  == <<rows, handler, placed>>
world  == <<chain, faults>>

Phases  == {"new", "step2", "registered", "step3", "asking", "success", "error",
            "dropped"}
Uploads == {"none", "done", "failed"}
Burns   == {"none", "txid", "failed"}
Answers == {"none", "passed", "txid", "error"}
Row     == [attempt : Attempts, image : BOOLEAN, fee : BOOLEAN, valid : BOOLEAN,
            mn1 : Confirmers \cup {NoNode}, mn2 : Confirmers \cup {NoNode}]
Ticket  == [attempt : Attempts, mn0 : Nodes, mn1 : Confirmers, mn2 : Confirmers]

(* valid stands for is_valid_mn0 *)
NewRow(a, image, fee) == [attempt |-> a, image |-> image, fee |-> fee,
                          valid |-> FALSE, mn1 |-> NoNode, mn2 |-> NoNode]

(* A handler of MN0 that is "checking" holds the row it has read. *)
Handlers == [at : {"none", "called"}]
               \cup [at : {"checking"}, copy : Row]

Idle        == [at |-> "none"]
MN(a, i)    == Top[block[a]][i]     \* get_masternode_ordering(regticket.blocknum)
At(a, i, s) == handler[a][i].at = s

Fault == faults < MaxFaults /\ faults' = faults + 1

NoneYet == [i \in Places |-> "none"]

Init ==
    /\ height = 0
    /\ phase = [a \in Attempts |-> "new"]
    /\ block = [a \in Attempts |-> 0]
    /\ first = [a \in Attempts |-> Top[0][0]]
    /\ upload = [a \in Attempts |-> NoneYet]
    /\ code = [a \in Attempts |-> 0]
    /\ burn = [a \in Attempts |-> "none"]
    /\ answer = [a \in Attempts |-> NoneYet]
    /\ rows = [n \in Nodes |-> <<>>]
    /\ handler = [a \in Attempts |-> [i \in Places |-> Idle]]
    /\ placed = {}
    /\ chain = <<>>
    /\ faults = 0
    /\ paid = {}

(* external: the blockchain grows *)
NextBlock ==
    /\ height < MaxHeight
    /\ height' = height + 1
    /\ UNCHANGED <<wallet, nodes, world>>

-----------------------------------------------------------------------------
(***************************************************************************)
(* Step 2.  The ticket carries the block it was generated at; MN0 is taken *)
(* from the current list, after fingerprints have been computed.           *)
(***************************************************************************)
GenerateTicket(a) ==
    /\ phase[a] = "new"
    /\ phase' = [phase EXCEPT ![a] = "step2"]
    /\ block' = [block EXCEPT ![a] = height]
    /\ UNCHANGED <<height, first, upload, code, burn, answer, paid, nodes, world>>

Uploading(a, i) == phase[a] = (IF i = 0 THEN "step2" ELSE "step3")

(* Mutant of Upload: the wallet keeps a code for an upload that failed. *)
UploadKeepsCode(a, i) ==
    LET n == IF i = 0 THEN Top[height][0] ELSE MN(a, i)
        AddRow(row) == /\ Len(rows[n]) < MaxRows[n]
                       /\ rows' = [rows EXCEPT ![n] = Append(@, row)]
        Complete == AddRow(NewRow(a, TRUE, i = 0))
    IN  /\ Uploading(a, i)
        /\ upload[a][i] = "none"
        /\ \/ /\ Complete
              /\ upload' = [upload EXCEPT ![a][i] = "done"]
              /\ UNCHANGED faults
           \/ /\ Complete \/ AddRow(NewRow(a, FALSE, FALSE)) \/ UNCHANGED rows
              /\ upload' = [upload EXCEPT ![a][i] = "failed"]
              /\ Fault
        /\ IF i = 0 THEN /\ first' = [first EXCEPT ![a] = n]
                         /\ code' = [code EXCEPT ![a] = Len(rows[n]) + 1]
                    ELSE UNCHANGED <<first, code>>
        /\ UNCHANGED <<height, phase, block, burn, answer, paid, handler, placed,
                       chain>>

(***************************************************************************)
(* REGTICKET_REQ makes the node create a row and answer with its upload    *)
(* code; IMAGE_UPLOAD_MN0_REQ then stores the image and the node's fee,    *)
(* IMAGE_UPLOAD_REQ the image only.  A call or its answer may be lost: the *)
(* row may stay without image, or the wallet may not learn of it.  (The    *)
(* two calls are one step: what others do between them to a row without    *)
(* image, they can also do before the failure of the second call.)         *)
(***************************************************************************)
Upload(a, i) ==
    LET n == IF i = 0 THEN Top[height][0] ELSE MN(a, i)
        AddRow(row) == /\ Len(rows[n]) < MaxRows[n]
                       /\ rows' = [rows EXCEPT ![n] = Append(@, row)]
        Complete == AddRow(NewRow(a, TRUE, i = 0))
    IN  /\ Uploading(a, i)
        /\ upload[a][i] = "none"
        /\ \/ /\ Complete
              /\ upload' = [upload EXCEPT ![a][i] = "done"]
              /\ IF i = 0 THEN /\ first' = [first EXCEPT ![a] = n]
                               /\ code' = [code EXCEPT ![a] = Len(rows[n]) + 1]
                          ELSE UNCHANGED <<first, code>>
              /\ UNCHANGED faults
           \/ /\ Complete \/ AddRow(NewRow(a, FALSE, FALSE)) \/ UNCHANGED rows
              /\ upload' = [upload EXCEPT ![a][i] = "failed"]
              /\ Fault
              /\ UNCHANGED <<first, code>>
        /\ UNCHANGED <<height, phase, block, burn, answer, paid, handler, placed,
                       chain>>

(* Only a complete step 2 gives the user a regticket_id to go on with. *)
FinishStep2(a) ==
    /\ phase[a] = "step2"
    /\ \/ upload[a][0] = "done" /\ phase' = [phase EXCEPT ![a] = "registered"]
       \/ upload[a][0] = "failed" /\ phase' = [phase EXCEPT ![a] = "dropped"]
    /\ upload' = [upload EXCEPT ![a] = NoneYet]
    /\ UNCHANGED <<height, block, first, code, burn, answer, paid, nodes, world>>

-----------------------------------------------------------------------------
(* Step 3, also after an error: MN1 and MN2 are uploaded to once more. *)
StartStep3(a) ==
    /\ phase[a] \in {"registered", "error"}
    /\ phase' = [phase EXCEPT ![a] = "step3"]
    /\ UNCHANGED <<height, block, first, upload, code, burn, answer, paid, nodes,
                   world>>

(* gather waits for both uploads *)
Uploaded(a) == /\ phase[a] = "step3"
               /\ \A i \in {1, 2} : upload[a][i] # "none"

StopStep3(a) ==
    /\ Uploaded(a)
    /\ \E i \in {1, 2} : upload[a][i] = "failed"
    /\ phase' = [phase EXCEPT ![a] = "error"]
    /\ upload' = [upload EXCEPT ![a] = NoneYet]
    /\ UNCHANGED <<height, block, first, code, burn, answer, paid, nodes, world>>

(* Mutant of BurnFee: the upload to MN2 is not looked at. *)
BurnFeeEarly(a) ==
    /\ Uploaded(a)
    /\ upload[a][1] = "done"
    /\ burn' = [burn EXCEPT ![a] = "txid"]
    /\ paid' = paid \cup {a}
    /\ phase' = [phase EXCEPT ![a] = "asking"]
    /\ upload' = [upload EXCEPT ![a] = NoneYet]
    /\ handler' = [handler EXCEPT ![a] = [i \in Places |-> [at |-> "called"]]]
    /\ UNCHANGED <<height, block, first, code, answer, rows, placed, chain, faults>>

(* sendtoaddress, whose error text is taken for a txid, then TXID_10_REQ *)
BurnFee(a) ==
    /\ Uploaded(a)
    /\ \A i \in {1, 2} : upload[a][i] = "done"
    /\ \/ burn' = [burn EXCEPT ![a] = "txid"] /\ paid' = paid \cup {a}
          /\ UNCHANGED faults
       \/ burn' = [burn EXCEPT ![a] = "failed"] /\ UNCHANGED paid /\ Fault
    /\ phase' = [phase EXCEPT ![a] = "asking"]
    /\ upload' = [upload EXCEPT ![a] = NoneYet]
    /\ handler' = [handler EXCEPT ![a] = [i \in Places |-> [at |-> "called"]]]
    /\ UNCHANGED <<height, block, first, code, answer, rows, placed, chain>>

Reply(a, i, what) ==
    /\ answer' = [answer EXCEPT ![a][i] = what]
    /\ handler' = [handler EXCEPT ![a][i] = Idle]
    /\ UNCHANGED <<height, phase, block, first, upload, code, burn, paid>>

Answered(a, i, what) == Reply(a, i, what) /\ UNCHANGED faults
Failed(a, i) == Reply(a, i, "error") /\ Fault

(* The connection breaks; the server cancels the handler at its await. *)
ConnectionLost(a, i) ==
    /\ ~At(a, i, "none")
    /\ Failed(a, i)
    /\ UNCHANGED <<rows, placed, chain>>

(* MN0 of the ticket's block is not the node of step 2. *)
UnknownCode(a) ==
    /\ At(a, 0, "called")
    /\ first[a] # MN(a, 0)
    /\ Answered(a, 0, "error")
    /\ UNCHANGED <<rows, placed, chain>>

(* What MN1 and MN2 read does not change while they wait; MN0's row may. *)
ReadRow(a) ==
    /\ At(a, 0, "called")
    /\ first[a] = MN(a, 0)
    /\ handler' = [handler EXCEPT ![a][0] =
                      [at |-> "checking", copy |-> rows[MN(a, 0)][code[a]]]]
    /\ UNCHANGED <<height, wallet, rows, placed, world>>

(* Mutant of Checked: the burn transaction is not looked for. *)
CheckedUnburned(a, i) == At(a, i, IF i = 0 THEN "checking" ELSE "called")

(***************************************************************************)
(* The node knows the transaction.  A wrong amount or height, or an NSFW   *)
(* image, is an error.  A transaction that never appears keeps the handler *)
(* asleep: its counter is never increased, so it does not give up.         *)
(***************************************************************************)
Checked(a, i) == /\ burn[a] = "txid"
                 /\ At(a, i, IF i = 0 THEN "checking" ELSE "called")

CheckFails(a, i) ==
    /\ Checked(a, i)
    /\ Failed(a, i)
    /\ UNCHANGED <<rows, placed, chain>>

(***************************************************************************)
(* MN0 marks the row it read before the check as valid and saves all of    *)
(* its columns.  The image may still be found to be NSFW after that.       *)
(***************************************************************************)
SaveValidMN0(a) ==
    /\ Checked(a, 0)
    /\ rows' = [rows EXCEPT ![MN(a, 0)][code[a]] =
                     [handler[a][0].copy EXCEPT !.valid = TRUE]]
    /\ Answered(a, 0, "passed") \/ Failed(a, 0)
    /\ UNCHANGED <<placed, chain>>

(* MN1 or MN2 finds all in order: generate_signed_ticket(self, ticket) is  *)
(* called with the ticket only, and the server answers with an error.      *)
SigningFails(a, i) ==
    /\ i # 0
    /\ Checked(a, i)
    /\ Answered(a, i, "error")
    /\ UNCHANGED <<rows, placed, chain>>

-----------------------------------------------------------------------------
(***************************************************************************)
(* REGTICKET_MN1_CONFIRM_REQ from m at node n.  The row is the first of up *)
(* to two for the artist and the image, and the last of more.  A call      *)
(* without such a row, from the masternode of the first confirmation, or   *)
(* for a row that has both, raises and changes nothing.                    *)
(***************************************************************************)
Selected(n) == IF Len(rows[n]) > 2 THEN Len(rows[n]) ELSE 1

RowOf(n) == rows[n][Selected(n)]

FirstConfirmation(n, m) ==
    /\ rows[n] # <<>>
    /\ RowOf(n).mn1 = NoNode
    /\ rows' = [rows EXCEPT ![n][Selected(n)].mn1 = m]
    /\ UNCHANGED <<height, wallet, handler, placed, world>>

IsSecond(n, m) ==
    /\ rows[n] # <<>>
    /\ RowOf(n).mn1 \notin {NoNode, m}
    /\ RowOf(n).mn2 = NoNode
    /\ rows' = [rows EXCEPT ![n][Selected(n)].mn2 = m]

(* Mutant of CanPlace: an image may be placed again. *)
CanPlaceAgain(n) == RowOf(n).image

(* The thumbnail's row is unique: an image is placed once on a node. *)
CanPlace(n) == RowOf(n).image /\ n \notin placed

(* write_to_blockchain: not too late, and int(self.localfee) exists *)
CanWrite(n) == /\ height - block[RowOf(n).attempt] <= MaxDistance
               /\ RowOf(n).fee

(* The row is saved; placing the image raises, or the node is killed. *)
PlacingFails(n, m) ==
    /\ IsSecond(n, m)
    /\ IF CanPlace(n) THEN Fault ELSE UNCHANGED faults
    /\ UNCHANGED <<height, wallet, handler, placed, chain>>

(* The image is placed; write_to_blockchain raises, or the node is killed. *)
WritingFails(n, m) ==
    /\ IsSecond(n, m)
    /\ CanPlace(n)
    /\ placed' = placed \cup {n}
    /\ IF CanWrite(n) THEN Fault ELSE UNCHANGED faults
    /\ UNCHANGED <<height, wallet, handler, chain>>

TicketRegistered(n, m) ==
    /\ IsSecond(n, m)
    /\ CanPlace(n)
    /\ CanWrite(n)
    /\ placed' = placed \cup {n}
    /\ chain' = Append(chain, [attempt |-> RowOf(n).attempt, mn0 |-> n,
                               mn1 |-> RowOf(n).mn1, mn2 |-> m])
    /\ UNCHANGED <<height, wallet, handler, faults>>

-----------------------------------------------------------------------------
(* The answers are in: SUCCESS needs three good ones and a txid. *)
AllPassed(a) == \A i \in Places : answer[a][i] \in {"passed", "txid"}
HasTxid(a)   == \E i \in {1, 2} : answer[a][i] = "txid"

FinishStep3(a) ==
    /\ phase[a] = "asking"
    /\ \A i \in Places : answer[a][i] # "none"
    /\ phase' = [phase EXCEPT ![a] = IF AllPassed(a) /\ HasTxid(a) THEN "success"
                                                                  ELSE "error"]
    /\ answer' = [answer EXCEPT ![a] = NoneYet]
    /\ UNCHANGED <<height, block, first, upload, code, burn, paid, nodes, world>>

(* Node n processes the activation ticket of a registered ticket. *)
Activate(n) ==
    /\ chain # <<>>
    /\ n \notin placed
    /\ placed' = placed \cup {n}
    /\ UNCHANGED <<height, wallet, rows, handler, world>>

Step2(a) == GenerateTicket(a) \/ FinishStep2(a)
Step3(a) == StartStep3(a) \/ StopStep3(a) \/ BurnFee(a) \/ FinishStep3(a)

Txid10(a, i) == CheckFails(a, i) \/ SigningFails(a, i) \/ ConnectionLost(a, i)

Confirmation(n, m) ==
    \/ FirstConfirmation(n, m) \/ PlacingFails(n, m) \/ WritingFails(n, m)
    \/ TicketRegistered(n, m)

Next == \/ NextBlock
        \/ \E a \in Attempts :
              \/ Step2(a) \/ Step3(a) \/ UnknownCode(a) \/ ReadRow(a) \/ SaveValidMN0(a)
              \/ \E i \in Places : Upload(a, i) \/ Txid10(a, i)
        \/ \E n \in Nodes : Activate(n)
        \/ \E n \in Called, m \in Confirmers : Confirmation(n, m)

Spec == Init /\ [][Next]_vars

-----------------------------------------------------------------------------
(* The values of the tables, the wallet's database and the handlers. *)
TypeOK ==
    /\ height \in Heights
    /\ phase \in [Attempts -> Phases]
    /\ block \in [Attempts -> Heights]
    /\ first \in [Attempts -> Nodes]
    /\ upload \in [Attempts -> [Places -> Uploads]]
    /\ code \in [Attempts -> Nat]
    /\ \A a \in Attempts : code[a] <= Len(rows[first[a]])
    /\ burn \in [Attempts -> Burns]
    /\ answer \in [Attempts -> [Places -> Answers]]
    /\ rows \in [Nodes -> Seq(Row)]
    /\ \A n \in Nodes : Len(rows[n]) <= MaxRows[n]
    /\ handler \in [Attempts -> [Places -> Handlers]]
    /\ placed \subseteq Nodes
    /\ chain \in Seq(Ticket)
    /\ faults \in 0 .. MaxFaults
    /\ paid \subseteq Attempts

(***************************************************************************)
(* The fee of an attempt is burned only when its three masternodes hold    *)
(* the image: MN0's row for the code has it with a fee, and MN1 and MN2    *)
(* have a row of this attempt with it.  No lost answer, retry or change of *)
(* the list burns money for an image that a masternode does not have.      *)
(***************************************************************************)
UploadedBeforeBurn ==
    \A a \in paid :
        /\ LET row == rows[first[a]][code[a]]
           IN  row.attempt = a /\ row.image /\ row.fee
        /\ \A i \in {1, 2} : \E k \in DOMAIN rows[MN(a, i)] :
              rows[MN(a, i)][k].attempt = a /\ rows[MN(a, i)][k].image

(***************************************************************************)
(* What MN0 vouches for: a row is valid only if its attempt has burned the *)
(* fee, and an answer "passed" comes from the node the wallet uploaded to, *)
(* whose row of this attempt is then valid, although the handler saves a   *)
(* row it read before it slept.                                            *)
(***************************************************************************)
MN0Vouches ==
    /\ \A n \in Nodes : \A k \in DOMAIN rows[n] :
          rows[n][k].valid => rows[n][k].attempt \in paid
    /\ \A a \in Attempts : answer[a][0] = "passed" =>
          /\ first[a] = MN(a, 0)
          /\ rows[MN(a, 0)][code[a]].valid /\ rows[MN(a, 0)][code[a]].attempt = a

(***************************************************************************)
(* A node registers an image at most once, whatever is confirmed again     *)
(* after erased confirmations and kills between the placement and the      *)
(* ticket.  It is a property of the registered handler under any calls: by *)
(* itself this code sends none, see SigningFails.                          *)
(***************************************************************************)
OneTicketPerNode ==
    \A k, l \in DOMAIN chain : chain[k].mn0 = chain[l].mn0 => k = l

(***************************************************************************)
(* "We return success status cause validation on this node has passed"     *)
(* (masternode_validate_txid_upload_code_image,                            *)
(* core_modules/masternode_ticketing.py:242): without a failure, no        *)
(* validation ends with an error at MN1 or MN2.                            *)
(***************************************************************************)
PassedIsAnswered ==
    faults = 0 => \A a \in Attempts : \A i \in {1, 2} : answer[a][i] # "error"

=============================================================================
