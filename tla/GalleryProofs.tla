--------------------------- MODULE GalleryProofs ---------------------------
(***************************************************************************)
(* What the wallet's artworks keep for any number of tickets, masternodes, *)
(* calls, crashes and sales, any clocks and any delays of the network.     *)
(*                                                                         *)
(* GalleryInv strengthens the invariants of Gallery: what a handler has in *)
(* its hands agrees with the tables, although it is interrupted at every   *)
(* request to a masternode.                                                *)
(***************************************************************************)
EXTENDS Gallery, FiniteSetTheorems, TLAPS

(***************************************************************************)
(* A request that is accepted took less than Window on the clocks of the   *)
(* two hosts, and so did its answer: whatever their difference, the two    *)
(* together took less than twice the window.                               *)
(***************************************************************************)
THEOREM RoundTripBound ==
    ASSUME NEW skew \in Int, NEW a \in Nat, NEW b \in Nat,
           Fresh(a + skew), Fresh(b - skew)
    PROVE  a + b < 2 * Window
BY TransportAssumption DEF Fresh

-----------------------------------------------------------------------------
(* What comes of a call: an exception, or the body that the asked host's   *)
(* handler returned.                                                       *)
LEMMA AcceptedAnswer ==
    ASSUME NEW n \in Nodes, NEW h \in Nodes, NEW result, NEW a, NEW b
    PROVE  LET answer == Receive(Wallet, Process(h, Request(Wallet, n), result, a), b)
           IN  answer = Exception \/ (h = n /\ answer = result)
<1>1. CASE h = n
  <2>1. CASE Reconstruct(h, Request(Wallet, n), a) # "ok"
    BY <2>1 DEF Process, Receive, Reconstruct, HttpError
  <2>2. CASE Reconstruct(h, Request(Wallet, n), a) = "ok"
    BY <1>1, <2>2 DEF Process, Receive, Packet
  <2> QED BY <2>1, <2>2
<1>2. CASE h # n
  <2>1. Reconstruct(h, Request(Wallet, n), a) # "ok"
    BY <1>2 DEF Reconstruct, Request, Packet, ForUs
  <2> QED BY <2>1 DEF Process, Receive, Reconstruct, HttpError
<1> QED BY <1>1, <1>2

LEMMA OutcomeCases ==
    ASSUME NEW n \in Nodes, NEW results, NEW answer \in Outcomes(n, results)
    PROVE  answer = Exception \/ answer \in results[n]
<1>1. CASE answer = Exception
  BY <1>1
<1>2. ASSUME NEW h \in Nodes, NEW result \in results[h],
             NEW a \in Delays, NEW b \in Delays,
             answer = Receive(Wallet, Process(h, Request(Wallet, n), result, a), a + b)
      PROVE  answer = Exception \/ answer \in results[n]
  BY <1>2, AcceptedAnswer
<1> QED BY <1>1, <1>2 DEF Outcomes

LEMMA ThumbnailCases ==
    ASSUME NEW n \in Nodes, NEW t \in Tickets, NEW answer \in ThumbnailAnswers[n][t]
    PROVE  \/ answer = Exception
           \/ answer = Found(n)
           \/ answer.is = "missing" /\ answer.masternodes \in Seq(Nodes)
<1> DEFINE results == [h \in Nodes |-> ServeThumbnail(h, t)]
<1>1. ThumbnailAnswers[n][t] = Outcomes(n, results)
  BY DEF ThumbnailAnswers
<1>2. answer \in Outcomes(n, results)
  BY <1>1
<1> HIDE DEF results
<1>3. answer = Exception \/ answer \in results[n]
  BY <1>2, OutcomeCases
<1>4. results[n] = ServeThumbnail(n, t)
  BY DEF results
<1>5. Recommended[t] \in Seq(Nodes) /\ <<>> \in Seq(Nodes)
  BY GalleryAssumption
<1>6. Missing(<<>>).is = "missing" /\ Missing(<<>>).masternodes \in Seq(Nodes)
  BY <1>5 DEF Missing
<1>7. /\ Missing(Recommended[t]).is = "missing"
      /\ Missing(Recommended[t]).masternodes \in Seq(Nodes)
  BY <1>5 DEF Missing
<1>8. answer \in {Missing(<<>>), Missing(Recommended[t]), Found(n), Exception}
  BY <1>3, <1>4 DEF ServeThumbnail
<1> QED BY <1>6, <1>7, <1>8

(* The three kinds of answers exclude each other. *)
LEMMA KindsDiffer ==
    ASSUME NEW n
    PROVE  /\ Exception.is = "exception"
           /\ Found(n).is = "found" /\ Found(n).from = n
BY DEF Exception, Found

-----------------------------------------------------------------------------
(***************************************************************************)
(* What a handler of /artworks_data has in its hands.                      *)
(***************************************************************************)
Fetching == Waiting \cup {"choose", "open", "write", "create"}

CallInv(r) ==
    /\ r.due \subseteq r.todo \cup artwork
    /\ r.todo # {} => table # <<>>
    /\ r.at \in Fetching => r.ticket \in r.todo \ Broken
    /\ r.at \in Waiting => r.peer \in Nodes
    /\ r.at \in {"write", "create"} => file[r.ticket] # "absent"
    /\ r.image \in {r.peer, NoNode}
    /\ r.image # NoNode => r.at \in {"open", "write", "create"}

ArtworkInv ==
    /\ artwork \cap Broken = {}
    /\ RowHasThumbnail

SaleInv ==
    /\ sellRows \subseteq artwork
    /\ promised \subseteq sellRows
    /\ seller.at # "idle" => seller.ticket \in artwork
    /\ seller.at \in {"registered", "answered"} => sales[seller.ticket] > 0
    /\ \A t \in Tickets : shown[t] # "not listed" => t \in artwork
    /\ OfferBacked

DownloadInv == download.at = "asking" => download.left \cup download.refused = Nodes

GalleryInv ==
    /\ GalleryTypeOK
    /\ \A c \in Calls : CallInv(call[c])
    /\ ArtworkInv /\ SaleInv /\ DownloadInv

LEMMA IdleCallInv == IdleCall \in CallRecords /\ CallInv(IdleCall)
BY DEF IdleCall, CallRecords, CallInv, Fetching, Waiting, Bodies

LEMMA GalleryInitially == Init => GalleryInv
<1> SUFFICES ASSUME Init PROVE GalleryInv
  OBVIOUS
<1>1. \A c \in Calls : call[c] = IdleCall /\ IdleCall.at = "idle"
  BY DEF Init, IdleCall
<1>2. GalleryTypeOK
  <2>1. call \in [Calls -> CallRecords]
    BY IdleCallInv DEF Init
  <2>2. \A c \in Calls : (call[c].at \in Bodies) <=> (busy = c)
    BY <1>1, GalleryAssumption DEF Init, Bodies
  <2>3. seller.at = "idle" /\ busy # Seller
    BY GalleryAssumption DEF Init, IdleSeller
  <2>4. table \in Seq(Nodes)
    <3>1. table = <<>>
      BY DEF Init
    <3>2. <<>> \in Seq(Nodes)
      OBVIOUS
    <3> QED BY <3>1, <3>2
  <2>5. sales \in [Tickets -> 0 .. MaxSales] /\ crashes \in 0 .. MaxCrashes
    <3>1. 0 \in 0 .. MaxSales /\ 0 \in 0 .. MaxCrashes
      BY GalleryAssumption
    <3>2. sales = [t \in Tickets |-> 0] /\ crashes = 0
      BY DEF Init
    <3> QED BY <3>1, <3>2
  <2>6. shown \in [Tickets -> Entries] /\ file \in [Tickets -> Files]
    BY DEF Init, Entries, Files
  <2> QED
    BY <2>1, <2>2, <2>3, <2>4, <2>5, <2>6
       DEF Init, GalleryTypeOK, IdleSeller, NoDownload
<1>3. \A c \in Calls : CallInv(call[c])
  BY <1>1, IdleCallInv
<1>4. ArtworkInv /\ DownloadInv
  BY DEF Init, ArtworkInv, RowHasThumbnail, DownloadInv, NoDownload
<1>5. SaleInv
  BY DEF Init, SaleInv, OfferBacked, IdleSeller
<1> QED BY <1>2, <1>3, <1>4, <1>5 DEF GalleryInv

-----------------------------------------------------------------------------
(***************************************************************************)
(* A step of one handler that changes nothing else preserves GalleryInv    *)
(* when its new record is in order.                                        *)
(***************************************************************************)
LEMMA CallOnly ==
    ASSUME GalleryInv,
           NEW c \in Calls, NEW r \in CallRecords,
           Update(c, r), CallInv(r),
           busy \in {c, NoCall}, busy' \in {c, NoCall},
           (r.at \in Bodies) <=> (busy' = c),
           UNCHANGED <<chain, table, disk, seller, download, past>>
    PROVE  GalleryInv'
<1> USE DEF chain, disk, past
<1>1. /\ call' \in [Calls -> CallRecords]
      /\ call'[c] = r
      /\ \A d \in Calls : d # c => call'[d] = call[d]
  BY DEF GalleryInv, GalleryTypeOK, Update
<1>2. ASSUME NEW d \in Calls PROVE (call'[d].at \in Bodies) <=> (busy' = d)
  <2>1. CASE d = c
    BY <1>1, <2>1
  <2>2. CASE d # c
    <3>1. busy # d /\ busy' # d
      BY <2>2, GalleryAssumption
    <3>2. (call[d].at \in Bodies) <=> (busy = d)
      BY DEF GalleryInv, GalleryTypeOK
    <3>3. call'[d] = call[d]
      BY <1>1, <2>2
    <3> QED BY <3>1, <3>2, <3>3
  <2> QED BY <2>1, <2>2
<1>3. (seller'.at # "idle") <=> (busy' = Seller)
  BY GalleryAssumption DEF GalleryInv, GalleryTypeOK
<1>4. GalleryTypeOK'
  <2>1. busy' \in Calls \cup {Seller, NoCall}
    OBVIOUS
  <2>2. /\ UNCHANGED <<activated, mined, sales, table, artwork, file, sellRows>>
        /\ UNCHANGED <<seller, download, shown, promised, crashes>>
    OBVIOUS
  <2> QED BY <1>1, <1>2, <1>3, <2>1, <2>2 DEF GalleryInv, GalleryTypeOK
<1>5. ASSUME NEW d \in Calls PROVE CallInv(call[d])'
  <2>1. CallInv(call'[d])
    BY <1>1 DEF GalleryInv
  <2> QED BY <2>1 DEF CallInv
<1>6. ArtworkInv' /\ DownloadInv'
  BY DEF GalleryInv, ArtworkInv, RowHasThumbnail, DownloadInv
<1>7. SaleInv'
  BY DEF GalleryInv, SaleInv, OfferBacked
<1> QED BY <1>4, <1>5, <1>6, <1>7 DEF GalleryInv

(* The same for a handler that ends. *)
LEMMA CallEnds ==
    ASSUME GalleryInv, NEW c \in Calls, EndCall(c), busy \in {c, NoCall},
           UNCHANGED <<chain, table, disk, seller, download, past>>
    PROVE  GalleryInv'
<1>1. IdleCall.at \notin Bodies /\ busy' # c /\ busy' = NoCall
  BY GalleryAssumption DEF IdleCall, Bodies, EndCall
<1> QED BY <1>1, CallOnly, IdleCallInv DEF EndCall

LEMMA BeginCallKeeps ==
    ASSUME GalleryInv, NEW c \in Calls, BeginCall(c)
    PROVE  GalleryInv'
<1> DEFINE r == [IdleCall EXCEPT !.at = "next", !.due = activated,
                                 !.todo = activated \ artwork]
<1>1. r \in CallRecords /\ r.at = "next"
  BY IdleCallInv DEF CallRecords, Bodies, GalleryInv, GalleryTypeOK
<1>2. CallInv(r)
  BY DEF CallInv, IdleCall, Fetching, Waiting, BeginCall, GalleryInv, GalleryTypeOK
<1>3. Update(c, r) /\ busy = NoCall /\ busy' = c
  BY DEF BeginCall, Idle
<1>4. UNCHANGED <<chain, table, disk, seller, download, past>>
  BY DEF BeginCall
<1> HIDE DEF r
<1>5. r.at \in Bodies
  BY <1>1 DEF Bodies
<1> QED BY <1>1, <1>2, <1>3, <1>4, <1>5, CallOnly

(* The handler c holds `busy', or it waits and nobody does. *)
LEMMA HandlerFacts ==
    ASSUME GalleryInv, NEW c \in Calls
    PROVE  /\ call[c] \in CallRecords
           /\ CallInv(call[c])
           /\ table \in Seq(Nodes)
BY DEF GalleryInv, GalleryTypeOK

LEMMA AskFirstKeeps ==
    ASSUME GalleryInv, NEW c \in Calls, NEW t \in Tickets, AskFirst(c, t)
    PROVE  GalleryInv'
<1> DEFINE r == [call[c] EXCEPT !.at = "asking", !.ticket = t, !.peer = table[1]]
<1>1. t \in call[c].todo \ Broken /\ call[c].at = "next" /\ table # <<>>
  BY HandlerFacts DEF AskFirst, At, CallInv
<1>2. table[1] \in Nodes
  BY <1>1, HandlerFacts
<1>3. r \in CallRecords
  BY <1>2, HandlerFacts DEF CallRecords, Waiting
<1>4. CallInv(r)
  BY <1>1, <1>2, HandlerFacts DEF CallInv, CallRecords, Fetching, Waiting
<1>5. r.at \notin Bodies
  BY HandlerFacts DEF Bodies, CallRecords
<1>6. Update(c, r) /\ busy = c /\ busy' = NoCall
  BY DEF AskFirst, At
<1>7. UNCHANGED <<chain, table, disk, seller, download, past>>
  BY DEF AskFirst
<1> HIDE DEF r
<1> QED BY <1>3, <1>4, <1>5, <1>6, <1>7, CallOnly, GalleryAssumption

LEMMA SaveKeeps ==
    ASSUME GalleryInv, NEW c \in Calls, NEW from \in {call[c].peer, NoNode},
           call[c].at \in Fetching, from \in Nodes \cup {NoNode},
           Save(c, from), busy \in {c, NoCall}, busy' = c,
           UNCHANGED <<chain, table, disk, seller, download, past>>
    PROVE  GalleryInv'
<1> DEFINE r == [call[c] EXCEPT !.at = "open", !.rest = <<>>, !.image = from]
<1>1. <<>> \in Seq(Nodes)
  OBVIOUS
<1>2. r \in CallRecords
  BY <1>1, HandlerFacts DEF CallRecords, Bodies
<1>3. CallInv(r)
  BY HandlerFacts DEF CallInv, CallRecords, Fetching, Waiting
<1>4. r.at \in Bodies
  BY HandlerFacts DEF Bodies, CallRecords
<1>5. Update(c, r)
  BY DEF Save
<1> HIDE DEF r
<1> QED BY <1>2, <1>3, <1>4, <1>5, CallOnly

(* A handler goes on with the masternodes ns. *)
LEMMA ChooseKeeps ==
    ASSUME GalleryInv, NEW c \in Calls, NEW r \in CallRecords,
           call[c].at \in Fetching, call[c].image = NoNode,
           r.due = call[c].due, r.todo = call[c].todo, r.ticket = call[c].ticket,
           r.at \in Waiting \cup {"choose"}, r.image = NoNode,
           r.at \in Waiting => r.peer \in Nodes,
           Update(c, r), busy \in {c, NoCall},
           busy' = IF r.at = "choose" THEN c ELSE NoCall,
           UNCHANGED <<chain, table, disk, seller, download, past>>
    PROVE  GalleryInv'
<1>1. CallInv(r)
  BY HandlerFacts DEF CallInv, Fetching, Waiting
<1>2. (r.at \in Bodies) <=> (busy' = c)
  BY GalleryAssumption DEF Bodies, Waiting
<1> QED BY <1>1, <1>2, CallOnly

LEMMA AnswerCases ==
    ASSUME GalleryInv, NEW c \in Calls, call[c].at \in Waiting,
           NEW answer \in ThumbnailAnswers[call[c].peer][call[c].ticket]
    PROVE  /\ call[c].peer \in Nodes
           /\ \/ answer = Exception
              \/ answer = Found(call[c].peer)
              \/ answer.is = "missing" /\ answer.masternodes \in Seq(Nodes)
<1>1. call[c].peer \in Nodes /\ call[c].ticket \in Tickets
  BY HandlerFacts DEF CallInv, Fetching, CallRecords
<1> QED BY <1>1, ThumbnailCases

LEMMA FirstAnswerKeeps ==
    ASSUME GalleryInv, NEW c \in Calls, FirstAnswer(c)
    PROVE  GalleryInv'
<1>1. /\ call[c].at = "asking" /\ busy = NoCall
      /\ call[c].at \in Waiting /\ call[c].at \in Fetching
      /\ UNCHANGED <<chain, table, disk, seller, download, past>>
  BY DEF FirstAnswer, Idle, Waiting, Fetching
<1>2. call[c].image = NoNode
  BY <1>1, HandlerFacts DEF CallInv
<1>3. PICK answer \in ThumbnailAnswers[call[c].peer][call[c].ticket] :
         \/ /\ answer = Exception
            /\ EndCall(c)
         \/ /\ answer.is = "found"
            /\ Save(c, answer.from)
            /\ busy' = c
         \/ /\ answer.is = "missing"
            /\ Update(c, [call[c] EXCEPT !.at = "choose", !.peer = NoNode,
                                         !.rest = answer.masternodes])
            /\ busy' = c
  BY DEF FirstAnswer
<1>4. CASE EndCall(c)
  BY <1>1, <1>4, CallEnds
<1>5. CASE answer.is = "found" /\ Save(c, answer.from) /\ busy' = c
  <2>1. answer.from \in {call[c].peer, NoNode} /\ answer.from \in Nodes \cup {NoNode}
    BY <1>1, <1>5, AnswerCases, KindsDiffer
  <2> QED BY <1>1, <1>5, <2>1, SaveKeeps
<1>6. CASE /\ answer.is = "missing"
           /\ Update(c, [call[c] EXCEPT !.at = "choose", !.peer = NoNode,
                                        !.rest = answer.masternodes])
           /\ busy' = c
  <2> DEFINE r == [call[c] EXCEPT !.at = "choose", !.peer = NoNode,
                                  !.rest = answer.masternodes]
  <2>1. answer.masternodes \in Seq(Nodes)
    BY <1>1, <1>6, AnswerCases, KindsDiffer
  <2>2. r \in CallRecords
    BY <2>1, HandlerFacts DEF CallRecords, Bodies
  <2>3. /\ r.due = call[c].due /\ r.todo = call[c].todo
        /\ r.ticket = call[c].ticket /\ r.at = "choose" /\ r.image = NoNode
    BY <1>2, HandlerFacts DEF CallRecords
  <2>4. r.at \notin Waiting
    BY <2>3 DEF Waiting
  <2> HIDE DEF r
  <2>5. Update(c, r) /\ busy' = c
    BY <1>6 DEF r
  <2> QED BY <1>1, <1>2, <2>2, <2>3, <2>4, <2>5, ChooseKeeps
<1> QED BY <1>3, <1>4, <1>5, <1>6

LEMMA RecommendedAnswerKeeps ==
    ASSUME GalleryInv, NEW c \in Calls, RecommendedAnswer(c)
    PROVE  GalleryInv'
<1>1. /\ call[c].at = "retrying" /\ busy = NoCall /\ busy' = c
      /\ call[c].at \in Waiting /\ call[c].at \in Fetching
      /\ UNCHANGED <<chain, table, disk, seller, download, past>>
  BY DEF RecommendedAnswer, Idle, Waiting, Fetching
<1>2. call[c].image = NoNode
  BY <1>1, HandlerFacts DEF CallInv
<1>3. PICK answer \in ThumbnailAnswers[call[c].peer][call[c].ticket] :
         \/ /\ answer.is = "found"
            /\ Save(c, answer.from)
         \/ /\ answer.is # "found"
            /\ Update(c, [call[c] EXCEPT !.at = "choose", !.peer = NoNode])
  BY DEF RecommendedAnswer
<1>4. CASE answer.is = "found" /\ Save(c, answer.from)
  <2>1. answer.from \in {call[c].peer, NoNode} /\ answer.from \in Nodes \cup {NoNode}
    BY <1>1, <1>4, AnswerCases, KindsDiffer
  <2> QED BY <1>1, <1>4, <2>1, SaveKeeps
<1>5. CASE Update(c, [call[c] EXCEPT !.at = "choose", !.peer = NoNode])
  <2> DEFINE r == [call[c] EXCEPT !.at = "choose", !.peer = NoNode]
  <2>1. r \in CallRecords
    BY HandlerFacts DEF CallRecords, Bodies
  <2>2. /\ r.due = call[c].due /\ r.todo = call[c].todo
        /\ r.ticket = call[c].ticket /\ r.at = "choose" /\ r.image = NoNode
    BY <1>2, HandlerFacts DEF CallRecords
  <2>3. r.at \notin Waiting
    BY <2>2 DEF Waiting
  <2> HIDE DEF r
  <2>4. Update(c, r)
    BY <1>5 DEF r
  <2> QED BY <1>1, <1>2, <2>1, <2>2, <2>3, <2>4, ChooseKeeps
<1> QED BY <1>3, <1>4, <1>5

LEMMA AskRecommendedKeeps ==
    ASSUME GalleryInv, NEW c \in Calls, AskRecommended(c)
    PROVE  GalleryInv'
<1> DEFINE n == Head(call[c].rest)
           ask == [call[c] EXCEPT !.at = "retrying", !.peer = n, !.rest = Tail(@)]
           skip == [call[c] EXCEPT !.rest = Tail(@)]
<1>1. /\ call[c].at = "choose" /\ busy = c /\ call[c].rest # <<>>
      /\ call[c].at \in Fetching
      /\ UNCHANGED <<chain, table, disk, seller, download, past>>
  BY DEF AskRecommended, At, Fetching
<1>2. call[c].image = NoNode
  BY <1>1, HandlerFacts DEF CallInv
<1>3. call[c].rest \in Seq(Nodes)
  BY HandlerFacts DEF CallRecords
<1>4. n \in Nodes /\ Tail(call[c].rest) \in Seq(Nodes)
  BY <1>1, <1>3
<1>5. CASE n \in Elements(table)
  <2>1. Update(c, ask) /\ busy' = NoCall
    BY <1>5 DEF AskRecommended
  <2> HIDE DEF n
  <2>2. ask \in CallRecords
    BY <1>4, HandlerFacts DEF CallRecords, Waiting
  <2>3. /\ ask.due = call[c].due /\ ask.todo = call[c].todo
        /\ ask.ticket = call[c].ticket /\ ask.at = "retrying" /\ ask.image = NoNode
        /\ ask.peer \in Nodes
    BY <1>2, <1>4, HandlerFacts DEF CallRecords
  <2> HIDE DEF ask
  <2>4. ask.at \in Waiting /\ ask.at # "choose"
    BY <2>3 DEF Waiting
  <2> QED BY <1>1, <1>2, <2>1, <2>2, <2>3, <2>4, ChooseKeeps
<1>6. CASE n \notin Elements(table)
  <2>1. Update(c, skip) /\ busy' = c
    BY <1>1, <1>6 DEF AskRecommended
  <2>2. skip \in CallRecords
    BY <1>4, HandlerFacts DEF CallRecords
  <2>3. /\ skip.due = call[c].due /\ skip.todo = call[c].todo
        /\ skip.ticket = call[c].ticket /\ skip.at = "choose" /\ skip.image = NoNode
    BY <1>1, <1>2, HandlerFacts DEF CallRecords
  <2> HIDE DEF skip
  <2>4. skip.at \notin Waiting
    BY <2>3 DEF Waiting
  <2> QED BY <1>1, <1>2, <2>1, <2>2, <2>3, <2>4, ChooseKeeps
<1> QED BY <1>5, <1>6

LEMMA NoneLeftKeeps ==
    ASSUME GalleryInv, NEW c \in Calls, NoneLeft(c)
    PROVE  GalleryInv'
BY SaveKeeps DEF NoneLeft, At, Fetching

-----------------------------------------------------------------------------
(***************************************************************************)
(* The steps that write to the disk: first what they do to the records and *)
(* the type, then to what others hold.                                     *)
(***************************************************************************)
LEMMA UpdatedCalls ==
    ASSUME GalleryInv, NEW c \in Calls, NEW r \in CallRecords, Update(c, r),
           busy = c, busy' \in {c, NoCall}, (r.at \in Bodies) <=> (busy' = c)
    PROVE  /\ call' \in [Calls -> CallRecords]
           /\ call'[c] = r
           /\ \A d \in Calls : d # c => call'[d] = call[d]
           /\ \A d \in Calls : (call'[d].at \in Bodies) <=> (busy' = d)
           /\ busy' \in Calls \cup {Seller, NoCall} /\ busy' # Seller
           /\ seller.at = "idle"
<1>1. /\ call' \in [Calls -> CallRecords]
      /\ call'[c] = r
      /\ \A d \in Calls : d # c => call'[d] = call[d]
  BY DEF GalleryInv, GalleryTypeOK, Update
<1>2. ASSUME NEW d \in Calls PROVE (call'[d].at \in Bodies) <=> (busy' = d)
  <2>1. CASE d = c
    BY <1>1, <2>1
  <2>2. CASE d # c
    <3>1. busy # d /\ busy' # d
      BY <2>2, GalleryAssumption
    <3>2. (call[d].at \in Bodies) <=> (busy = d)
      BY DEF GalleryInv, GalleryTypeOK
    <3> QED BY <1>1, <2>2, <3>1, <3>2
  <2> QED BY <2>1, <2>2
<1>3. busy' # Seller /\ busy # Seller
  BY GalleryAssumption
<1>4. seller.at = "idle"
  BY <1>3 DEF GalleryInv, GalleryTypeOK
<1> QED BY <1>1, <1>2, <1>3, <1>4

(* The thumbnail file of the current ticket is opened or written. *)
LEMMA FileKeeps ==
    ASSUME GalleryInv, NEW c \in Calls, NEW what \in {"empty", "image"},
           NEW place \in {"write", "create"},
           At(c, "open") \/ At(c, "write"),
           file' = [file EXCEPT ![call[c].ticket] = what],
           Update(c, [call[c] EXCEPT !.at = place]),
           UNCHANGED <<chain, table, artwork, sellRows, seller, download, busy, past>>
    PROVE  GalleryInv'
<1> DEFINE r == [call[c] EXCEPT !.at = place]
           t == call[c].ticket
<1>1. call[c].at \in {"open", "write"} /\ busy = c /\ busy' = c
  BY DEF At
<1>2. t \in call[c].todo \ Broken /\ t \in Tickets
  BY <1>1, HandlerFacts DEF CallInv, Fetching, CallRecords
<1>3. r \in CallRecords
  BY HandlerFacts DEF CallRecords, Bodies
<1>4. /\ r.at = place /\ r.due = call[c].due /\ r.todo = call[c].todo
      /\ r.ticket = t /\ r.peer = call[c].peer /\ r.image = call[c].image
  BY HandlerFacts DEF CallRecords
<1>5. file' \in [Tickets -> Files] /\ file'[t] # "absent"
  BY <1>2 DEF GalleryInv, GalleryTypeOK, Files
<1>6. \A u \in Tickets : file[u] # "absent" => file'[u] # "absent"
  BY <1>2 DEF GalleryInv, GalleryTypeOK
<1>7. Update(c, r) /\ (r.at \in Bodies)
  BY <1>4 DEF Bodies
<1> HIDE DEF r
<1>8. /\ call' \in [Calls -> CallRecords]
      /\ call'[c] = r
      /\ \A d \in Calls : d # c => call'[d] = call[d]
      /\ \A d \in Calls : (call'[d].at \in Bodies) <=> (busy' = d)
      /\ busy' \in Calls \cup {Seller, NoCall} /\ busy' # Seller
      /\ seller.at = "idle"
  BY <1>1, <1>3, <1>7, UpdatedCalls
<1>9. UNCHANGED <<activated, mined, sales, table, artwork, sellRows>>
      /\ UNCHANGED <<seller, download, shown, promised, crashes>>
  BY DEF chain, past
<1>10. GalleryTypeOK'
  BY <1>5, <1>8, <1>9 DEF GalleryInv, GalleryTypeOK
<1>11. ASSUME NEW d \in Calls PROVE CallInv(call[d])'
  <2>1. CASE d = c
    <3>1. CallInv(call[c])
      BY HandlerFacts
    <3>2. call[d]' = r
      BY <1>8, <2>1
    <3> QED BY <1>1, <1>2, <1>4, <1>5, <1>9, <3>1, <3>2 DEF CallInv, Fetching, Waiting
  <2>2. CASE d # c
    <3>1. CallInv(call[d]) /\ call[d] \in CallRecords
      BY HandlerFacts
    <3>2. call[d]' = call[d]
      BY <1>8, <2>2
    <3>3. call[d].at \in {"write", "create"} => call[d].ticket \in Tickets
      BY <3>1 DEF CallInv, Fetching, CallRecords
    <3> QED BY <1>6, <1>9, <3>1, <3>2, <3>3 DEF CallInv
  <2> QED BY <2>1, <2>2
<1>12. ArtworkInv' /\ DownloadInv'
  BY <1>6, <1>9 DEF GalleryInv, GalleryTypeOK, ArtworkInv, RowHasThumbnail, DownloadInv
<1>13. SaleInv'
  BY <1>9 DEF GalleryInv, SaleInv, OfferBacked
<1> QED BY <1>10, <1>11, <1>12, <1>13 DEF GalleryInv

LEMMA OpenThumbnailKeeps ==
    ASSUME GalleryInv, NEW c \in Calls, OpenThumbnail(c)
    PROVE  GalleryInv'
BY FileKeeps DEF OpenThumbnail

LEMMA WriteThumbnailKeeps ==
    ASSUME GalleryInv, NEW c \in Calls, WriteThumbnail(c)
    PROVE  GalleryInv'
<1> DEFINE what == IF call[c].image = NoNode THEN "empty" ELSE "image"
<1>1. what \in {"empty", "image"}
  OBVIOUS
<1>2. /\ file' = [file EXCEPT ![call[c].ticket] = what]
      /\ At(c, "write")
      /\ Update(c, [call[c] EXCEPT !.at = "create"])
      /\ UNCHANGED <<chain, table, artwork, sellRows, seller, download, busy, past>>
  BY DEF WriteThumbnail
<1> HIDE DEF what
<1> QED BY <1>1, <1>2, FileKeeps

LEMMA CreateArtworkKeeps ==
    ASSUME GalleryInv, NEW c \in Calls, CreateArtwork(c)
    PROVE  GalleryInv'
<1> DEFINE t == call[c].ticket
           r == [IdleCall EXCEPT !.at = "next", !.due = call[c].due,
                                 !.todo = call[c].todo \ {t}]
<1>1. /\ call[c].at = "create" /\ busy = c
      /\ UNCHANGED <<chain, table, file, sellRows, seller, download, past>>
  BY DEF CreateArtwork, At
<1>2. CASE EndCall(c) /\ UNCHANGED artwork
  BY <1>1, <1>2, CallEnds DEF disk
<1>3. CASE artwork' = artwork \cup {t} /\ Update(c, r) /\ UNCHANGED busy
  <2>1. t \in call[c].todo \ Broken /\ t \in Tickets /\ file[t] # "absent"
    BY <1>1, HandlerFacts DEF CallInv, Fetching, CallRecords
  <2>2. r \in CallRecords
    BY IdleCallInv, HandlerFacts DEF CallRecords, Bodies
  <2>3. /\ r.at = "next" /\ r.due = call[c].due /\ r.todo = call[c].todo \ {t}
        /\ r.peer = NoNode /\ r.image = NoNode
    BY DEF IdleCall
  <2>4. r.at \in Bodies /\ busy' = c
    BY <1>1, <1>3, <2>3 DEF Bodies
  <2> HIDE DEF r
  <2>5. /\ call' \in [Calls -> CallRecords]
        /\ call'[c] = r
        /\ \A d \in Calls : d # c => call'[d] = call[d]
        /\ \A d \in Calls : (call'[d].at \in Bodies) <=> (busy' = d)
        /\ busy' \in Calls \cup {Seller, NoCall} /\ busy' # Seller
        /\ seller.at = "idle"
    BY <1>1, <1>3, <2>2, <2>4, UpdatedCalls
  <2>6. UNCHANGED <<activated, mined, sales, table, file, sellRows>>
        /\ UNCHANGED <<seller, download, shown, promised, crashes>>
    BY <1>1 DEF chain, past
  <2>7. artwork' \subseteq Tickets /\ artwork \subseteq artwork'
    BY <1>3, <2>1 DEF GalleryInv, GalleryTypeOK
  <2>8. GalleryTypeOK'
    BY <2>5, <2>6, <2>7 DEF GalleryInv, GalleryTypeOK
  <2>9. ASSUME NEW d \in Calls PROVE CallInv(call[d])'
    <3>1. CASE d = c
      <4>1. CallInv(call[c])
        BY HandlerFacts
      <4>2. call[d]' = r
        BY <2>5, <3>1
      <4> QED
        BY <1>3, <2>3, <2>6, <4>1, <4>2 DEF CallInv, Fetching, Waiting
    <3>2. CASE d # c
      <4>1. CallInv(call[d])
        BY HandlerFacts
      <4>2. call[d]' = call[d]
        BY <2>5, <3>2
      <4> QED BY <2>6, <2>7, <4>1, <4>2 DEF CallInv
    <3> QED BY <3>1, <3>2
  <2>10. ArtworkInv' /\ DownloadInv'
    BY <1>3, <2>1, <2>6 DEF GalleryInv, ArtworkInv, RowHasThumbnail, DownloadInv
  <2>11. SaleInv'
    BY <2>6, <2>7 DEF GalleryInv, SaleInv, OfferBacked
  <2> QED BY <2>8, <2>9, <2>10, <2>11 DEF GalleryInv
<1> QED BY <1>2, <1>3 DEF CreateArtwork

LEMMA ListArtworksKeeps ==
    ASSUME GalleryInv, NEW c \in Calls, ListArtworks(c)
    PROVE  GalleryInv'
<1>1. /\ busy = c /\ busy' = NoCall /\ Update(c, IdleCall)
      /\ shown' = [t \in Tickets |-> Entry(t)]
      /\ UNCHANGED <<activated, mined, sales, table, artwork, file, sellRows>>
      /\ UNCHANGED <<seller, download, promised, crashes>>
  BY DEF ListArtworks, At, EndCall, chain, disk
<1>2. IdleCall \in CallRecords /\ (IdleCall.at \in Bodies <=> busy' = c)
  BY <1>1, IdleCallInv, GalleryAssumption DEF IdleCall, Bodies
<1>3. /\ call' \in [Calls -> CallRecords]
      /\ call'[c] = IdleCall
      /\ \A d \in Calls : d # c => call'[d] = call[d]
      /\ \A d \in Calls : (call'[d].at \in Bodies) <=> (busy' = d)
      /\ busy' \in Calls \cup {Seller, NoCall} /\ busy' # Seller
      /\ seller.at = "idle"
  BY <1>1, <1>2, UpdatedCalls
<1>4. ASSUME NEW t \in Tickets
      PROVE  /\ Entry(t) \in Entries
             /\ Entry(t) # "not listed" => t \in artwork
             /\ Entry(t) = "offered" => t \in sellRows
  BY DEF Entry, Entries
<1>5. GalleryTypeOK'
  BY <1>1, <1>3, <1>4 DEF GalleryInv, GalleryTypeOK
<1>6. ASSUME NEW d \in Calls PROVE CallInv(call[d])'
  <2>1. CallInv(call'[d])
    BY <1>3, IdleCallInv, HandlerFacts
  <2> QED BY <1>1, <2>1 DEF CallInv
<1>7. ArtworkInv' /\ DownloadInv'
  BY <1>1 DEF GalleryInv, ArtworkInv, RowHasThumbnail, DownloadInv
<1>8. SaleInv'
  BY <1>1, <1>4 DEF GalleryInv, SaleInv, OfferBacked
<1> QED BY <1>5, <1>6, <1>7, <1>8 DEF GalleryInv

-----------------------------------------------------------------------------
(* Steps that no handler of /artworks_data takes part in. *)
LEMMA OthersKeepCalls ==
    ASSUME GalleryInv, UNCHANGED <<call, artwork, file>>,
           table # <<>> => table' # <<>>
    PROVE  \A c \in Calls : CallInv(call[c])'
BY DEF GalleryInv, CallInv

LEMMA EnvironmentKeeps ==
    ASSUME GalleryInv, NEW t \in Tickets, Activate(t) \/ MineSale(t)
    PROVE  GalleryInv'
<1>1. /\ activated' \subseteq Tickets /\ mined' \subseteq Tickets
      /\ UNCHANGED <<sales, table, artwork, file, sellRows, call>>
      /\ UNCHANGED <<seller, download, busy, shown, promised, crashes>>
  BY DEF Activate, MineSale, disk, past, GalleryInv, GalleryTypeOK
<1>2. GalleryTypeOK'
  BY <1>1 DEF GalleryInv, GalleryTypeOK
<1>3. \A c \in Calls : CallInv(call[c])'
  BY <1>1, OthersKeepCalls
<1>4. ArtworkInv' /\ DownloadInv'
  BY <1>1 DEF GalleryInv, ArtworkInv, RowHasThumbnail, DownloadInv
<1>5. SaleInv'
  BY <1>1 DEF GalleryInv, SaleInv, OfferBacked
<1> QED BY <1>2, <1>3, <1>4, <1>5 DEF GalleryInv

LEMMA RefreshKeeps ==
    ASSUME GalleryInv, RefreshMasternodes
    PROVE  GalleryInv'
<1>1. PICK added \in SUBSET (Nodes \ Elements(table)) :
         /\ added # {}
         /\ \E order \in [1 .. Cardinality(added) -> added] :
              /\ Elements(order) = added
              /\ table' = table \o order
  BY DEF RefreshMasternodes
<1>2. PICK order \in [1 .. Cardinality(added) -> added] : table' = table \o order
  BY <1>1
<1>3. table \in Seq(Nodes)
  BY DEF GalleryInv, GalleryTypeOK
<1>4. CASE Cardinality(added) \in Nat
  <2>1. order \in Seq(Nodes)
    BY <1>2, <1>4
  <2>2. table' \in Seq(Nodes) /\ (table # <<>> => table' # <<>>)
    BY <1>2, <1>3, <2>1
  <2>3. /\ UNCHANGED <<activated, mined, sales, artwork, file, sellRows, call>>
        /\ UNCHANGED <<seller, download, busy, shown, promised, crashes>>
    BY DEF RefreshMasternodes, chain, disk, past
  <2>4. GalleryTypeOK'
    BY <2>2, <2>3 DEF GalleryInv, GalleryTypeOK
  <2>5. \A c \in Calls : CallInv(call[c])'
    BY <2>2, <2>3, OthersKeepCalls
  <2>6. ArtworkInv' /\ DownloadInv'
    BY <2>3 DEF GalleryInv, ArtworkInv, RowHasThumbnail, DownloadInv
  <2>7. SaleInv'
    BY <2>3 DEF GalleryInv, SaleInv, OfferBacked
  <2> QED BY <2>4, <2>5, <2>6, <2>7 DEF GalleryInv
<1>5. Cardinality(added) \in Nat
  <2>1. IsFiniteSet(Nodes) /\ added \subseteq Nodes
    BY GalleryAssumption
  <2> QED BY <2>1, FS_Subset, FS_CardinalityType
<1> QED BY <1>4, <1>5

(***************************************************************************)
(* The steps of /create_sell_ticket.  They change the seller, and with it  *)
(* `busy', the cNode's sales, the rows of sales and what was promised.     *)
(***************************************************************************)
SellerStates == [at : {"idle", "calling", "registered", "answered"},
                 ticket : Tickets \cup {NoTicket}]

LEMMA SellOnly ==
    ASSUME GalleryInv,
           busy \in {NoCall, Seller}, busy' \in {NoCall, Seller},
           seller' \in SellerStates,
           (seller'.at # "idle") <=> (busy' = Seller),
           sales' \in [Tickets -> 0 .. MaxSales],
           \A t \in Tickets : sales[t] > 0 => sales'[t] > 0,
           sellRows' \subseteq Tickets, promised' \subseteq Tickets,
           UNCHANGED <<activated, mined, table, artwork, file, call>>,
           UNCHANGED <<download, shown, crashes>>,
           SaleInv'
    PROVE  GalleryInv'
<1>1. ASSUME NEW c \in Calls PROVE (call'[c].at \in Bodies) <=> (busy' = c)
  <2>1. busy # c /\ busy' # c
    BY GalleryAssumption
  <2> QED BY <2>1 DEF GalleryInv, GalleryTypeOK
<1>2. GalleryTypeOK'
  BY <1>1 DEF GalleryInv, GalleryTypeOK, SellerStates
<1>3. \A c \in Calls : CallInv(call[c])'
  BY OthersKeepCalls
<1>4. ArtworkInv' /\ DownloadInv'
  BY DEF GalleryInv, ArtworkInv, RowHasThumbnail, DownloadInv
<1> QED BY <1>2, <1>3, <1>4 DEF GalleryInv

LEMMA SellerFacts ==
    ASSUME GalleryInv
    PROVE  /\ seller \in SellerStates
           /\ seller.at # "idle" => busy = Seller
           /\ sales \in [Tickets -> 0 .. MaxSales]
           /\ sellRows \subseteq Tickets /\ promised \subseteq Tickets
           /\ artwork \subseteq Tickets /\ mined \subseteq Tickets
           /\ SaleInv
           /\ Seller # NoCall
BY GalleryAssumption DEF GalleryInv, GalleryTypeOK, SellerStates

LEMMA SellKeeps ==
    ASSUME GalleryInv, NEW t \in Tickets, Sell(t)
    PROVE  GalleryInv'
<1>1. /\ busy = NoCall /\ busy' = Seller
      /\ seller' = [at |-> "calling", ticket |-> t]
      /\ shown[t] # "not listed"
      /\ UNCHANGED <<activated, mined, sales, table, artwork, file, sellRows, call>>
      /\ UNCHANGED <<download, shown, promised, crashes>>
  BY DEF Sell, Idle, chain, disk, past
<1>2. seller' \in SellerStates /\ seller'.at = "calling" /\ seller'.ticket = t
  BY <1>1 DEF SellerStates
<1>3. SaleInv'
  BY <1>1, <1>2, SellerFacts DEF SaleInv, OfferBacked
<1> QED BY <1>1, <1>2, <1>3, SellerFacts, SellOnly

(* Nothing of a sale is lost but, perhaps, the seller's ticket. *)
LEMMA SaleKept ==
    ASSUME GalleryInv,
           UNCHANGED <<mined, artwork, sellRows, shown, promised>>,
           \A u \in Tickets : sales[u] > 0 => sales'[u] > 0,
           seller'.at # "idle" => seller'.ticket \in artwork,
           seller'.at \in {"registered", "answered"}
               => sales'[seller'.ticket] > 0
    PROVE  SaleInv'
<1>1. OfferBacked'
  BY SellerFacts DEF SaleInv, OfferBacked
<1> QED BY <1>1, SellerFacts DEF SaleInv

LEMMA CnodeKeeps ==
    ASSUME GalleryInv,
           CnodeRegisters \/ CnodeRefuses \/ CnodeDisconnects \/ CnodeAnswers
    PROVE  GalleryInv'
<1> DEFINE t == seller.ticket
<1>1. CASE CnodeRegisters
  <2>1. /\ seller.at = "calling" /\ sales[t] < MaxSales
        /\ sales' = [sales EXCEPT ![t] = @ + 1]
        /\ seller' = [seller EXCEPT !.at = "registered"]
        /\ UNCHANGED <<activated, mined, table, artwork, file, sellRows, call>>
        /\ UNCHANGED <<download, busy, shown, promised, crashes>>
    BY <1>1 DEF CnodeRegisters, disk, past
  <2>2. t \in Tickets /\ t \in artwork
    BY <2>1, SellerFacts DEF SaleInv
  <2>3. /\ seller' \in SellerStates /\ seller'.at = "registered"
        /\ seller'.ticket = t
    BY <2>1, SellerFacts DEF SellerStates
  <2>4. /\ sales' \in [Tickets -> 0 .. MaxSales]
        /\ sales'[t] > 0
        /\ \A u \in Tickets : sales[u] > 0 => sales'[u] > 0
    BY <2>1, <2>2, SellerFacts, GalleryAssumption
  <2>5. SaleInv'
    BY <2>1, <2>2, <2>3, <2>4, SaleKept
  <2> QED BY <2>1, <2>3, <2>4, <2>5, SellerFacts, SellOnly
<1>2. CASE CnodeRefuses
  <2>1. /\ seller.at = "calling" /\ seller' = IdleSeller /\ busy' = NoCall
        /\ UNCHANGED <<activated, mined, sales, table, artwork, file, sellRows>>
        /\ UNCHANGED <<call, download, shown, promised, crashes>>
    BY <1>2 DEF CnodeRefuses, chain, disk, past
  <2>2. seller' \in SellerStates /\ seller'.at = "idle"
    BY <2>1 DEF SellerStates, IdleSeller
  <2>3. t \in artwork /\ (seller.at = "registered" => sales[t] > 0)
    BY <2>1, SellerFacts DEF SaleInv
  <2>4. SaleInv'
    BY <2>1, <2>2, <2>3, SaleKept
  <2> QED BY <2>1, <2>2, <2>4, SellerFacts, SellOnly
<1>3. CASE CnodeDisconnects
  <2>1. /\ seller.at = "registered" /\ seller' = [seller EXCEPT !.at = "calling"]
        /\ UNCHANGED <<activated, mined, sales, table, artwork, file, sellRows>>
        /\ UNCHANGED <<call, download, busy, shown, promised, crashes>>
    BY <1>3 DEF CnodeDisconnects, chain, disk, past
  <2>2. seller' \in SellerStates /\ seller'.at = "calling" /\ seller'.ticket = t
    BY <2>1, SellerFacts DEF SellerStates
  <2>3. t \in artwork /\ (seller.at = "registered" => sales[t] > 0)
    BY <2>1, SellerFacts DEF SaleInv
  <2>4. SaleInv'
    BY <2>1, <2>2, <2>3, SaleKept
  <2> QED BY <2>1, <2>2, <2>4, SellerFacts, SellOnly
<1>4. CASE CnodeAnswers
  <2>1. /\ seller.at = "registered" /\ seller' = [seller EXCEPT !.at = "answered"]
        /\ UNCHANGED <<activated, mined, sales, table, artwork, file, sellRows>>
        /\ UNCHANGED <<call, download, busy, shown, promised, crashes>>
    BY <1>4 DEF CnodeAnswers, chain, disk, past
  <2>2. seller' \in SellerStates /\ seller'.at = "answered" /\ seller'.ticket = t
    BY <2>1, SellerFacts DEF SellerStates
  <2>3. t \in artwork /\ (seller.at = "registered" => sales[t] > 0)
    BY <2>1, SellerFacts DEF SaleInv
  <2>4. SaleInv'
    BY <2>1, <2>2, <2>3, SaleKept
  <2> QED BY <2>1, <2>2, <2>4, SellerFacts, SellOnly
<1> QED BY <1>1, <1>2, <1>3, <1>4

LEMMA SaveSaleKeeps ==
    ASSUME GalleryInv, SaveSale
    PROVE  GalleryInv'
<1> DEFINE t == seller.ticket
<1>1. /\ seller.at = "answered" /\ seller' = IdleSeller /\ busy' = NoCall
      /\ sellRows' = sellRows \cup {t} /\ promised' = promised \cup {t}
      /\ UNCHANGED <<activated, mined, sales, table, artwork, file, call>>
      /\ UNCHANGED <<download, shown, crashes>>
  BY DEF SaveSale, chain
<1>2. t \in artwork /\ sales[t] > 0
  BY <1>1, SellerFacts DEF SaleInv
<1>3. seller' \in SellerStates /\ seller'.at = "idle"
  BY <1>1 DEF SellerStates, IdleSeller
<1>4. SaleInv'
  BY <1>1, <1>2, <1>3, SellerFacts DEF SaleInv, OfferBacked
<1> QED BY <1>1, <1>2, <1>3, <1>4, SellerFacts, SellOnly

-----------------------------------------------------------------------------
LEMMA DownloadKeeps ==
    ASSUME GalleryInv,
           BeginDownload \/ ImageNotFound \/ \E n \in Nodes : AskForImage(n)
    PROVE  GalleryInv'
<1>1. /\ UNCHANGED <<activated, mined, sales, table, artwork, file, sellRows>>
      /\ UNCHANGED <<call, seller, busy, shown, promised, crashes>>
  BY DEF BeginDownload, ImageNotFound, AskForImage, chain, disk, past
<1>2. /\ download' \in [at : {"idle", "asking"}, left : SUBSET Nodes,
                        refused : SUBSET Nodes]
      /\ DownloadInv'
  <2>1. download \in [at : {"idle", "asking"}, left : SUBSET Nodes,
                      refused : SUBSET Nodes] /\ DownloadInv
    BY DEF GalleryInv, GalleryTypeOK
  <2>2. CASE BeginDownload
    BY <2>2 DEF BeginDownload, DownloadInv
  <2>3. CASE download' = NoDownload
    BY <2>3 DEF NoDownload, DownloadInv
  <2>4. ASSUME NEW n \in Nodes, download.at = "asking",
               download' = [download EXCEPT !.left = @ \ {n},
                                            !.refused = @ \cup {n}]
        PROVE  /\ download' \in [at : {"idle", "asking"}, left : SUBSET Nodes,
                                 refused : SUBSET Nodes]
               /\ DownloadInv'
    BY <2>1, <2>4 DEF DownloadInv
  <2> QED BY <2>2, <2>3, <2>4 DEF ImageNotFound, AskForImage
<1>3. GalleryTypeOK'
  BY <1>1, <1>2 DEF GalleryInv, GalleryTypeOK
<1>4. \A c \in Calls : CallInv(call[c])'
  BY <1>1, OthersKeepCalls
<1>5. ArtworkInv' /\ SaleInv'
  BY <1>1 DEF GalleryInv, ArtworkInv, RowHasThumbnail, SaleInv, OfferBacked
<1> QED BY <1>2, <1>3, <1>4, <1>5 DEF GalleryInv

LEMMA CrashKeeps ==
    ASSUME GalleryInv, Crash
    PROVE  GalleryInv'
<1>1. /\ call' = [c \in Calls |-> IdleCall] /\ table' = <<>>
      /\ seller' = IdleSeller /\ download' = NoDownload /\ busy' = NoCall
      /\ crashes' = crashes + 1 /\ crashes < MaxCrashes
      /\ UNCHANGED <<activated, mined, sales, artwork, file, sellRows>>
      /\ UNCHANGED <<shown, promised>>
  BY DEF Crash, chain, disk
<1>2. /\ call' \in [Calls -> CallRecords]
      /\ \A c \in Calls : call'[c] = IdleCall /\ (call'[c].at \notin Bodies)
  BY <1>1, IdleCallInv DEF IdleCall, Bodies
<1>3. seller' \in SellerStates /\ seller'.at = "idle"
  BY <1>1 DEF SellerStates, IdleSeller
<1>4. <<>> \in Seq(Nodes)
  OBVIOUS
<1>5. crashes' \in 0 .. MaxCrashes
  BY <1>1, GalleryAssumption DEF GalleryInv, GalleryTypeOK
<1>6. GalleryTypeOK'
  <2>1. busy' \notin Calls /\ busy' # Seller
    BY <1>1, GalleryAssumption
  <2>2. download' \in [at : {"idle", "asking"}, left : SUBSET Nodes,
                       refused : SUBSET Nodes]
    BY <1>1 DEF NoDownload
  <2> QED
    BY <1>1, <1>2, <1>3, <1>4, <1>5, <2>1, <2>2
       DEF GalleryInv, GalleryTypeOK, SellerStates
<1>7. ASSUME NEW c \in Calls PROVE CallInv(call[c])'
  BY <1>2 DEF CallInv, IdleCall, Fetching, Waiting
<1>8. ArtworkInv' /\ DownloadInv'
  BY <1>1 DEF GalleryInv, ArtworkInv, RowHasThumbnail, DownloadInv, NoDownload
<1>9. SaleInv'
  BY <1>1, <1>3 DEF GalleryInv, SaleInv, OfferBacked
<1> QED BY <1>6, <1>7, <1>8, <1>9 DEF GalleryInv

-----------------------------------------------------------------------------
LEMMA CallStepKeeps ==
    ASSUME GalleryInv, NEW c \in Calls, CallStep(c)
    PROVE  GalleryInv'
<1>1. CASE BrokenTicket(c) \/ SaleUnknown(c)
  BY <1>1, CallEnds DEF BrokenTicket, SaleUnknown, At
<1>2. CASE \E t \in Tickets : AskFirst(c, t)
  BY <1>2, AskFirstKeeps
<1>3. CASE FirstAnswer(c) \/ RecommendedAnswer(c)
  BY <1>3, FirstAnswerKeeps, RecommendedAnswerKeeps
<1>4. CASE AskRecommended(c) \/ NoneLeft(c)
  BY <1>4, AskRecommendedKeeps, NoneLeftKeeps
<1>5. CASE OpenThumbnail(c) \/ WriteThumbnail(c)
  BY <1>5, OpenThumbnailKeeps, WriteThumbnailKeeps
<1>6. CASE CreateArtwork(c) \/ ListArtworks(c)
  BY <1>6, CreateArtworkKeeps, ListArtworksKeeps
<1> QED BY <1>1, <1>2, <1>3, <1>4, <1>5, <1>6 DEF CallStep, BodyStep

LEMMA GalleryStep == GalleryInv /\ [Next]_vars => GalleryInv'
<1> SUFFICES ASSUME GalleryInv, [Next]_vars PROVE GalleryInv'
  OBVIOUS
<1>1. CASE Environment
  <2>1. ASSUME NEW c \in Calls, CancelCall(c) PROVE GalleryInv'
    BY <2>1, CallEnds DEF CancelCall, Idle
  <2> QED
    BY <1>1, <2>1, EnvironmentKeeps, SellKeeps, BeginCallKeeps, DownloadKeeps,
       CrashKeeps
       DEF Environment
<1>2. CASE RefreshMasternodes
  BY <1>2, RefreshKeeps
<1>3. CASE \E c \in Calls : CallStep(c)
  BY <1>3, CallStepKeeps
<1>4. CASE SellStep
  BY <1>4, CnodeKeeps, SaveSaleKeeps DEF SellStep
<1>5. CASE DownloadStep
  BY <1>5, DownloadKeeps DEF DownloadStep
<1>6. CASE UNCHANGED vars
  <2>1. /\ UNCHANGED <<activated, mined, sales, table, artwork, file, sellRows, call>>
        /\ UNCHANGED <<seller, download, busy, shown, promised, crashes>>
    BY <1>6 DEF vars
  <2>2. \A c \in Calls : CallInv(call[c])'
    BY <2>1, OthersKeepCalls
  <2>3. GalleryTypeOK'
    BY <2>1 DEF GalleryInv, GalleryTypeOK
  <2>4. ArtworkInv' /\ SaleInv' /\ DownloadInv'
    BY <2>1
       DEF GalleryInv, ArtworkInv, RowHasThumbnail, SaleInv, OfferBacked, DownloadInv
  <2> QED BY <2>2, <2>3, <2>4 DEF GalleryInv
<1> QED BY <1>1, <1>2, <1>3, <1>4, <1>5, <1>6 DEF Next

(* GalleryInv is an inductive invariant of the wallet's artworks. *)
THEOREM GalleryInvariant == SafeSpec => []GalleryInv
<1>1. Init => GalleryInv
  BY GalleryInitially
<1>2. GalleryInv /\ [Next]_vars => GalleryInv'
  BY GalleryStep
<1> QED BY <1>1, <1>2, PTL DEF SafeSpec

(* The types of the tables and of the handlers, and that a handler in its  *)
(* synchronous body is the only one that the event loop runs.              *)
THEOREM GalleryTypeCorrect == SafeSpec => []GalleryTypeOK
<1>1. GalleryInv => GalleryTypeOK
  BY DEF GalleryInv
<1> QED BY <1>1, GalleryInvariant, PTL

(* get_artworks_data: a row in the artwork table has its thumbnail file.   *)
THEOREM RowsHaveThumbnails == SafeSpec => []RowHasThumbnail
<1>1. GalleryInv => RowHasThumbnail
  BY DEF GalleryInv, ArtworkInv
<1> QED BY <1>1, GalleryInvariant, PTL

(* get_artworks_data and register_sell_ticket: a sale that the wallet has  *)
(* on record, or lists on the strength of its record, is one that its own  *)
(* cNode has registered.                                                   *)
THEOREM OffersAreBacked == SafeSpec => []OfferBacked
<1>1. GalleryInv => OfferBacked
  BY DEF GalleryInv, SaleInv
<1> QED BY <1>1, GalleryInvariant, PTL

(* RPCClient and RPCServer: a thumbnail comes from the masternode that was *)
(* asked, whatever host has its address and whatever the clocks.           *)
THEOREM AnswersAreByTheAsked == SafeSpec => []AnsweredByAsked
<1>1. GalleryInv => AnsweredByAsked
  BY DEF GalleryInv, CallInv, AnsweredByAsked
<1> QED BY <1>1, GalleryInvariant, PTL

-----------------------------------------------------------------------------
(* download_image: "not found" is the answer of every masternode.          *)
THEOREM DownloadVerdictHolds == SafeSpec => DownloadVerdict
<1>1. GalleryInv /\ [Next]_vars
        => [ImageNotFound => download.refused = Nodes]_vars
  <2>1. ASSUME GalleryInv, ImageNotFound PROVE download.refused = Nodes
    BY <2>1 DEF GalleryInv, GalleryTypeOK, DownloadInv, ImageNotFound
  <2> QED BY <2>1
<1> QED BY <1>1, GalleryInvariant, PTL DEF SafeSpec, DownloadVerdict

(* get_artworks_data: a list has all that was activated when it was asked  *)
(* for, whatever the other calls did while it waited; apart from tickets   *)
(* that the cNode cannot return.                                           *)
THEOREM ListsAreComplete == SafeSpec => ListComplete
<1> DEFINE Complete ==
      \A c \in Calls : ListArtworks(c) =>
          \A t \in call[c].due \ Broken : shown'[t] # "not listed"
<1>1. GalleryInv /\ [Next]_vars => [Complete]_vars
  <2>1. ASSUME GalleryInv, NEW c \in Calls, ListArtworks(c)
        PROVE  \A t \in call[c].due \ Broken : shown'[t] # "not listed"
    <3>1. call[c].due \subseteq artwork
      BY <2>1, HandlerFacts DEF ListArtworks, CallInv
    <3>2. call[c].due \subseteq Tickets
      BY <2>1, HandlerFacts DEF CallRecords
    <3>3. \A t \in call[c].due : shown'[t] = Entry(t)
      BY <2>1, <3>2 DEF ListArtworks
    <3>4. \A t \in call[c].due : Entry(t) # "not listed"
      BY <3>1 DEF Entry
    <3> QED BY <3>3, <3>4
  <2> QED BY <2>1
<1> QED BY <1>1, GalleryInvariant, PTL DEF SafeSpec, ListComplete

(* get_artworks_data after register_sell_ticket: a sale that was answered  *)
(* without an error is in every later list, after a restart too.           *)
THEOREM SalesAreShown == SafeSpec => SalesShown
<1> DEFINE Shown ==
      \A c \in Calls : ListArtworks(c) =>
          \A t \in promised : shown'[t] \in {"offered", "for sale"}
<1>1. GalleryInv /\ [Next]_vars => [Shown]_vars
  <2>1. ASSUME GalleryInv, NEW c \in Calls, ListArtworks(c), NEW t \in promised
        PROVE  shown'[t] \in {"offered", "for sale"}
    <3>1. t \in Tickets /\ t \in artwork /\ t \in sellRows
      BY <2>1, SellerFacts DEF SaleInv
    <3>2. shown'[t] = Entry(t)
      BY <2>1, <3>1 DEF ListArtworks
    <3> QED BY <3>1, <3>2 DEF Entry
  <2> QED BY <2>1
<1> QED BY <1>1, GalleryInvariant, PTL DEF SafeSpec, SalesShown

(* get_artworks_data: the thumbnail of a row changes only in the hands of  *)
(* a call that had found the ticket without a row.                         *)
THEOREM ThumbnailsAreFinal == SafeSpec => ThumbnailFinal
<1> DEFINE Final ==
      \A t \in artwork : (\A c \in Calls : t \notin call[c].todo)
                             => file'[t] = file[t]
<1>1. GalleryInv /\ [Next]_vars => [Final]_vars
  <2>1. ASSUME GalleryInv, Next,
               NEW t \in artwork, \A c \in Calls : t \notin call[c].todo
        PROVE  file'[t] = file[t]
    <3>1. CASE \E c \in Calls : OpenThumbnail(c) \/ WriteThumbnail(c)
      <4>1. PICK c \in Calls : OpenThumbnail(c) \/ WriteThumbnail(c)
        BY <3>1
      <4>2. call[c].ticket \in call[c].todo
        BY <2>1, <4>1, HandlerFacts
           DEF OpenThumbnail, WriteThumbnail, At, CallInv, Fetching
      <4>3. t # call[c].ticket
        BY <2>1, <4>2
      <4> QED BY <2>1, <4>1, <4>3
            DEF OpenThumbnail, WriteThumbnail, GalleryInv, GalleryTypeOK
    <3>2. CASE UNCHANGED file
      BY <3>2
    <3>3. ASSUME NEW c \in Calls, CallStep(c)
          PROVE  UNCHANGED file \/ OpenThumbnail(c) \/ WriteThumbnail(c)
      BY <3>3
         DEF CallStep, BodyStep, AskFirst, BrokenTicket, FirstAnswer,
             AskRecommended, NoneLeft, RecommendedAnswer, CreateArtwork,
             ListArtworks, SaleUnknown, disk
    <3>4. Environment \/ RefreshMasternodes \/ SellStep \/ DownloadStep
             => UNCHANGED file
      BY DEF Environment, Activate, MineSale, Sell, BeginCall, CancelCall,
             BeginDownload, Crash, RefreshMasternodes, SellStep, CnodeRegisters,
             CnodeRefuses, CnodeDisconnects, CnodeAnswers, SaveSale,
             DownloadStep, ImageNotFound, AskForImage, disk
    <3> QED BY <2>1, <3>1, <3>2, <3>3, <3>4 DEF Next
  <2> QED BY <2>1
<1> QED BY <1>1, GalleryInvariant, PTL DEF SafeSpec, ThumbnailFinal

=============================================================================
