------------------------------ MODULE Gallery ------------------------------
(***************************************************************************)
(* The wallet's artworks: its HTTP interface for the list of artworks with *)
(* their thumbnails, for putting one up for sale and for downloading an    *)
(* image, with the masternodes that answer it and the cNode of the wallet. *)
(*                                                                         *)
(* The wallet is one process with an event loop: a handler runs until it   *)
(* awaits a masternode, so the only steps between which other handlers run *)
(* are those calls.  `busy' names the handler that is in the middle of a   *)
(* synchronous body: the process may be killed between its file operations,*)
(* its SQL statements and its calls to the cNode, which block the loop.    *)
(***************************************************************************)
EXTENDS RpcTransport, Sequences, FiniteSets

CONSTANTS
    Tickets,      \* registration tickets of artworks
    Broken,       \* tickets the cNode cannot return, or not their activation
    Recommended,  \* owners of a thumbnail in the ranking of the masternodes
    Calls,        \* the handlers of /artworks_data
    Seller,       \* the handler of /create_sell_ticket
    NoCall,       \* no handler is in a synchronous body
    NoTicket,
    NoNode,
    MaxSales,     \* bound: sell tickets the cNode registers for a ticket
    MaxCrashes    \* bound: how often the wallet is killed

ASSUME GalleryAssumption ==
    /\ IsFiniteSet(Nodes)
    /\ Broken \subseteq Tickets
    /\ Recommended \in [Tickets -> Seq(Nodes)]
    /\ NoTicket \notin Tickets
    /\ NoNode \notin Nodes
    /\ Seller \notin Calls
    /\ NoCall \notin Calls \cup {Seller}
    /\ MaxSales \in Nat
    /\ MaxCrashes \in Nat

VARIABLES
    activated,  \* external: registration tickets with an activation ticket
    mined,      \* external: artworks with a sell ticket, of anyone, that
                \* find_ticket returns
    sales,      \* external: sell tickets the wallet's cNode has registered
    table,      \* the wallet's masternode table, in the order of the ids
    artwork,    \* tickets with a row in the artwork table
    file,       \* thumbnail files
    sellRows,   \* tickets with a row in the sellticket table
    call,       \* the handlers of /artworks_data
    seller,     \* the handler of /create_sell_ticket
    download,   \* the handler of /download_image
    busy,       \* the handler in a synchronous body
    shown,      \* the last list of artworks answered
    promised,   \* history: sales that were answered without an error
    crashes     \* how often the wallet was killed

vars == <<activated, mined, sales, table, artwork, file, sellRows, call,
          seller, download, busy, shown, promised, crashes>>

chain == <<activated, mined, sales>>
disk  == <<artwork, file, sellRows>>
past  == <<shown, promised, crashes>>

Files     == {"absent", "empty", "image"}
Entries   == {"not listed", "not for sale", "offered", "for sale"}
Waiting   == {"asking", "retrying"}
Bodies    == {"next", "choose", "open", "write", "create"}

IdleCall   == [at |-> "idle", due |-> {}, todo |-> {}, ticket |-> NoTicket,
               peer |-> NoNode, rest |-> <<>>, image |-> NoNode]
IdleSeller == [at |-> "idle", ticket |-> NoTicket]
NoDownload == [at |-> "idle", left |-> {}, refused |-> {}]

Elements(s) == {s[i] : i \in DOMAIN s}

Init ==
    /\ activated = {} /\ mined = {} /\ sales = [t \in Tickets |-> 0]
    /\ table = <<>>
    /\ artwork = {} /\ file = [t \in Tickets |-> "absent"] /\ sellRows = {}
    /\ call = [c \in Calls |-> IdleCall]
    /\ seller = IdleSeller /\ download = NoDownload /\ busy = NoCall
    /\ shown = [t \in Tickets |-> "not listed"]
    /\ promised = {} /\ crashes = 0

-----------------------------------------------------------------------------
(* The world around the wallet. *)

Activate(t) ==
    /\ t \notin activated
    /\ activated' = activated \cup {t}
    /\ UNCHANGED <<mined, sales, table, disk, call, seller, download, busy,
                   past>>

(* The wallet lists everyone's artworks, and anyone may sell: the ticket   *)
(* may be one of this wallet's cNode or somebody else's.                   *)
MineSale(t) ==
    /\ t \in activated \ mined
    /\ mined' = mined \cup {t}
    /\ UNCHANGED <<activated, sales, table, disk, call, seller, download,
                   busy, past>>

(***************************************************************************)
(* receive_rpc_download_thumbnail.  A masternode has no row of the         *)
(* thumbnail, a row whose chunk it does not store, the stored chunk, or a  *)
(* row that says stored while its persistent storage has no file.          *)
(***************************************************************************)
Found(host)    == [is |-> "found", from |-> host]
Missing(nodes) == [is |-> "missing", masternodes |-> nodes]

ServeThumbnail(h, t) ==
    {Missing(<<>>), Missing(Recommended[t]), Found(h), Exception}

(* receive_rpc_download_image: too few chunks, the image, or a missing file *)
ServeImage(h) == {Missing(<<>>), Found(h), Exception}

-----------------------------------------------------------------------------
Idle == busy = NoCall

(* refresh_masternode_list: new ones are inserted, none is ever removed. *)
RefreshMasternodes ==
    /\ Idle
    /\ \E added \in SUBSET (Nodes \ Elements(table)) :
         /\ added # {}
         /\ \E order \in [1 .. Cardinality(added) -> added] :
              /\ Elements(order) = added
              /\ table' = table \o order
    /\ UNCHANGED <<chain, disk, call, seller, download, busy, past>>

Update(c, record) == call' = [call EXCEPT ![c] = record]

(* Mutant of BeginCall: it does not wait until the body in progress ends. *)
BeginCallAnytime(c) ==
    /\ call[c].at = "idle"
    /\ activated \subseteq artwork \/ table # <<>>
    /\ Update(c, [IdleCall EXCEPT !.at = "next", !.due = activated,
                                  !.todo = activated \ artwork])
    /\ busy' = c
    /\ UNCHANGED <<chain, table, disk, seller, download, past>>

(***************************************************************************)
(* get_artworks_data.  Without a known masternode a call with something to *)
(* fetch ends in an IndexError, which changes nothing.                     *)
(***************************************************************************)
BeginCall(c) ==
    /\ Idle
    /\ call[c].at = "idle"
    /\ activated \subseteq artwork \/ table # <<>>
    /\ Update(c, [IdleCall EXCEPT !.at = "next", !.due = activated,
                                  !.todo = activated \ artwork])
    /\ busy' = c
    /\ UNCHANGED <<chain, table, disk, seller, download, past>>

At(c, place) == busy = c /\ call[c].at = place

(* An exception that nobody catches: HTTP status 500. *)
EndCall(c) == Update(c, IdleCall) /\ busy' = NoCall

(* Mutant of AskFirst: artworks that have a row are fetched again. *)
AskFirstAgain(c, t) ==
    /\ At(c, "next")
    /\ t \in call[c].due \ Broken
    /\ table # <<>>
    /\ Update(c, [call[c] EXCEPT !.at = "asking", !.ticket = t, !.peer = table[1]])
    /\ busy' = NoCall
    /\ UNCHANGED <<chain, table, disk, seller, download, past>>

(* get_ticket and find_ticket, and the request to the first masternode *)
AskFirst(c, t) ==
    /\ At(c, "next")
    /\ t \in call[c].todo \ Broken
    /\ Update(c, [call[c] EXCEPT !.at = "asking", !.ticket = t, !.peer = table[1]])
    /\ busy' = NoCall
    /\ UNCHANGED <<chain, table, disk, seller, download, past>>

(***************************************************************************)
(* The row that is to keep a broken ticket from being read again leaves    *)
(* out columns that must not be NULL: its INSERT raises.                   *)
(***************************************************************************)
BrokenTicket(c) ==
    /\ At(c, "next")
    /\ call[c].todo \cap Broken # {}
    /\ EndCall(c)
    /\ UNCHANGED <<chain, table, disk, seller, download, past>>

(***************************************************************************)
(* What may come of a call to masternode n: the request reaches the host   *)
(* at n's address, which may by now be another one, or the connection      *)
(* fails.  The handler changes no state and nothing it reads is modelled,  *)
(* so that a call and its answer are one step, the one that ends the wait. *)
(***************************************************************************)
Outcomes(n, results) ==
    {Exception} \cup
    UNION {{Receive(Wallet, Process(h, Request(Wallet, n), result, a), a + b) :
               result \in results[h], a \in Delays, b \in Delays} : h \in Nodes}

ThumbnailAnswers ==
    [n \in Nodes |-> [t \in Tickets |->
        Outcomes(n, [h \in Nodes |-> ServeThumbnail(h, t)])]]

ImageAnswers == [n \in Nodes |-> Outcomes(n, [h \in Nodes |-> ServeImage(h)])]

(* The thumbnail, from which masternode, or none *)
Save(c, from) == Update(c, [call[c] EXCEPT !.at = "open", !.rest = <<>>,
                                           !.image = from])

(* Nothing protects the call to the first masternode. *)
FirstAnswer(c) ==
    /\ Idle
    /\ call[c].at = "asking"
    /\ \E answer \in ThumbnailAnswers[call[c].peer][call[c].ticket] :
         \/ /\ answer = Exception
            /\ EndCall(c)
         \/ /\ answer.is = "found"
            /\ Save(c, answer.from)
            /\ busy' = c
         \/ /\ answer.is = "missing"
            /\ Update(c, [call[c] EXCEPT !.at = "choose", !.peer = NoNode,
                                         !.rest = answer.masternodes])
            /\ busy' = c
    /\ UNCHANGED <<chain, table, disk, seller, download, past>>

(* The client of the wallet is gone: aiohttp 3.5.4 cancels the handler. *)
CancelCall(c) ==
    /\ call[c].at = "asking"
    /\ Idle
    /\ EndCall(c)
    /\ UNCHANGED <<chain, table, disk, seller, download, past>>

(* Mutant of AskRecommended: the masternode stays in the list. *)
AskRecommendedAgain(c) ==
    /\ At(c, "choose")
    /\ call[c].rest # <<>>
    /\ LET n == Head(call[c].rest)
       IN  IF n \in Elements(table)
             THEN /\ Update(c, [call[c] EXCEPT !.at = "retrying", !.peer = n])
                  /\ busy' = NoCall
             ELSE /\ Update(c, [call[c] EXCEPT !.rest = Tail(@)])
                  /\ UNCHANGED busy
    /\ UNCHANGED <<chain, table, disk, seller, download, past>>

(***************************************************************************)
(* The recommended masternodes one after the other; one that the wallet    *)
(* does not know is passed over, without any left the thumbnail is empty.  *)
(***************************************************************************)
AskRecommended(c) ==
    /\ At(c, "choose")
    /\ call[c].rest # <<>>
    /\ LET n == Head(call[c].rest)
       IN  IF n \in Elements(table)
             THEN /\ Update(c, [call[c] EXCEPT !.at = "retrying", !.peer = n,
                                               !.rest = Tail(@)])
                  /\ busy' = NoCall
             ELSE /\ Update(c, [call[c] EXCEPT !.rest = Tail(@)])
                  /\ UNCHANGED busy
    /\ UNCHANGED <<chain, table, disk, seller, download, past>>

(* Mutant of NoneLeft: without a thumbnail no file is written. *)
NoneLeftSkips(c) ==
    /\ At(c, "choose")
    /\ call[c].rest = <<>>
    /\ Update(c, [call[c] EXCEPT !.at = "create"])
    /\ UNCHANGED <<chain, table, disk, seller, download, busy, past>>

(* Mutant of NoneLeft: an artwork without a thumbnail is passed over. *)
NoneLeftPassesOver(c) ==
    /\ At(c, "choose")
    /\ call[c].rest = <<>>
    /\ Update(c, [IdleCall EXCEPT !.at = "next", !.due = call[c].due,
                                  !.todo = call[c].todo \ {call[c].ticket}])
    /\ UNCHANGED <<chain, table, disk, seller, download, busy, past>>

NoneLeft(c) ==
    /\ At(c, "choose")
    /\ call[c].rest = <<>>
    /\ Save(c, NoNode)
    /\ UNCHANGED <<chain, table, disk, seller, download, busy, past>>

(* Here every exception is caught, a cancellation included. *)
RecommendedAnswer(c) ==
    /\ Idle
    /\ call[c].at = "retrying"
    /\ \E answer \in ThumbnailAnswers[call[c].peer][call[c].ticket] :
         \/ /\ answer.is = "found"
            /\ Save(c, answer.from)
         \/ /\ answer.is # "found"
            /\ Update(c, [call[c] EXCEPT !.at = "choose", !.peer = NoNode])
    /\ busy' = c
    /\ UNCHANGED <<chain, table, disk, seller, download, past>>

OpenThumbnail(c) ==
    /\ At(c, "open")
    /\ file' = [file EXCEPT ![call[c].ticket] = "empty"]
    /\ Update(c, [call[c] EXCEPT !.at = "write"])
    /\ UNCHANGED <<chain, table, artwork, sellRows, seller, download, busy,
                   past>>

WriteThumbnail(c) ==
    /\ At(c, "write")
    /\ file' = [file EXCEPT ![call[c].ticket] =
                    IF call[c].image = NoNode THEN "empty" ELSE "image"]
    /\ Update(c, [call[c] EXCEPT !.at = "create"])
    /\ UNCHANGED <<chain, table, artwork, sellRows, seller, download, busy,
                   past>>

(* reg_ticket_txid is unique: the second of two concurrent calls fails. *)
CreateArtwork(c) ==
    /\ At(c, "create")
    /\ LET t == call[c].ticket
       IN  \/ /\ t \notin artwork
              /\ artwork' = artwork \cup {t}
              /\ Update(c, [IdleCall EXCEPT !.at = "next", !.due = call[c].due,
                                            !.todo = call[c].todo \ {t}])
              /\ UNCHANGED busy
           \/ /\ t \in artwork
              /\ EndCall(c)
              /\ UNCHANGED artwork
    /\ UNCHANGED <<chain, table, file, sellRows, seller, download, past>>

(* Mutant of Entry: only the blockchain is asked for a sale. *)
EntryFromChain(t) == CASE t \notin artwork         -> "not listed"
                       [] t \in artwork \cap mined -> "for sale"
                       [] OTHER                     -> "not for sale"

(***************************************************************************)
(* The list: every artwork with a row, with its sale from the blockchain,  *)
(* or else from the wallet's own table.                                    *)
(***************************************************************************)
Entry(t) == CASE t \notin artwork                  -> "not listed"
              [] t \in artwork \cap mined          -> "for sale"
              [] t \in (artwork \cap sellRows) \ mined  -> "offered"
              [] OTHER                             -> "not for sale"

ListArtworks(c) ==
    /\ At(c, "next")
    /\ call[c].todo = {}
    /\ shown' = [t \in Tickets |-> Entry(t)]
    /\ EndCall(c)
    /\ UNCHANGED <<chain, table, disk, seller, download, promised, crashes>>

(***************************************************************************)
(* Nothing protects find_ticket('sell', ..) either: a JSONRPCException for *)
(* one artwork, or an answer that is a string but not `Key is not found',  *)
(* whose `txid' is looked up in the string itself, ends the whole call.    *)
(***************************************************************************)
SaleUnknown(c) ==
    /\ At(c, "next")
    /\ call[c].todo = {} /\ artwork # {}
    /\ EndCall(c)
    /\ UNCHANGED <<chain, table, disk, seller, download, past>>

-----------------------------------------------------------------------------
(* Mutant of Sell: the row is written before the cNode is called. *)
SellSavingFirst(t) ==
    /\ Idle
    /\ shown[t] # "not listed"
    /\ seller' = [at |-> "calling", ticket |-> t]
    /\ busy' = Seller
    /\ sellRows' = sellRows \cup {t}
    /\ UNCHANGED <<chain, table, artwork, file, call, download, past>>

(***************************************************************************)
(* register_sell_ticket.  The JSON-RPC call of the cNode is repeated when  *)
(* the connection breaks, also when the cNode had carried it out.  A       *)
(* request with the image_hash that http_server.py:123 expects beside txid *)
(* and price is a TypeError before that: it changes nothing, a stutter.    *)
(***************************************************************************)
Sell(t) ==
    /\ Idle
    /\ shown[t] # "not listed"
    /\ seller' = [at |-> "calling", ticket |-> t]
    /\ busy' = Seller
    /\ UNCHANGED <<chain, table, disk, call, download, past>>

CnodeRegisters ==
    /\ seller.at = "calling"
    /\ sales[seller.ticket] < MaxSales
    /\ sales' = [sales EXCEPT ![seller.ticket] = @ + 1]
    /\ seller' = [seller EXCEPT !.at = "registered"]
    /\ UNCHANGED <<activated, mined, table, disk, call, download, busy, past>>

(* JSONRPCException: the user gets an error *)
CnodeRefuses ==
    /\ seller.at = "calling"
    /\ seller' = IdleSeller
    /\ busy' = NoCall
    /\ UNCHANGED <<chain, table, disk, call, download, past>>

(* BrokenPipeError, RemoteDisconnected: reconnect and call again *)
CnodeDisconnects ==
    /\ seller.at = "registered"
    /\ seller' = [seller EXCEPT !.at = "calling"]
    /\ UNCHANGED <<chain, table, disk, call, download, busy, past>>

CnodeAnswers ==
    /\ seller.at = "registered"
    /\ seller' = [seller EXCEPT !.at = "answered"]
    /\ UNCHANGED <<chain, table, disk, call, download, busy, past>>

SaveSale ==
    /\ seller.at = "answered"
    /\ sellRows' = sellRows \cup {seller.ticket}
    /\ promised' = promised \cup {seller.ticket}
    /\ seller' = IdleSeller
    /\ busy' = NoCall
    /\ UNCHANGED <<chain, table, artwork, file, call, download, shown, crashes>>

-----------------------------------------------------------------------------
(***************************************************************************)
(* download_image asks the masternodes of the cNode's list in turn, until  *)
(* one has the image.  The handler reads nothing that others write while   *)
(* it waits, so a call and its answer are one step.                        *)
(***************************************************************************)
BeginDownload ==
    /\ Idle
    /\ download.at = "idle"
    /\ download' = [at |-> "asking", left |-> Nodes, refused |-> {}]
    /\ UNCHANGED <<chain, table, disk, call, seller, busy, past>>

(* Mutant of AskForImage: a masternode that fails is passed over. *)
AskForImagePatiently(n) ==
    /\ Idle
    /\ download.at = "asking"
    /\ n \in download.left
    /\ \E answer \in ImageAnswers[n] :
         \/ /\ answer.is = "found"
            /\ download' = NoDownload
         \/ /\ answer.is = "missing"
            /\ download' = [download EXCEPT !.left = @ \ {n},
                                            !.refused = @ \cup {n}]
         \/ /\ answer = Exception
            /\ download' = [download EXCEPT !.left = @ \ {n}]
    /\ UNCHANGED <<chain, table, disk, call, seller, busy, past>>

AskForImage(n) ==
    /\ Idle
    /\ download.at = "asking"
    /\ n \in download.left
    /\ \E answer \in ImageAnswers[n] :
         \/ /\ answer.is # "missing"
            /\ download' = NoDownload
         \/ /\ answer.is = "missing"
            /\ download' = [download EXCEPT !.left = @ \ {n},
                                            !.refused = @ \cup {n}]
    /\ UNCHANGED <<chain, table, disk, call, seller, busy, past>>

ImageNotFound ==
    /\ Idle
    /\ download.at = "asking"
    /\ download.left = {}
    /\ download' = NoDownload
    /\ UNCHANGED <<chain, table, disk, call, seller, busy, past>>

-----------------------------------------------------------------------------
(* The process is killed; a new one empties the masternode table. *)
Crash ==
    /\ crashes < MaxCrashes
    /\ crashes' = crashes + 1
    /\ table' = <<>>
    /\ call' = [c \in Calls |-> IdleCall]
    /\ seller' = IdleSeller /\ download' = NoDownload /\ busy' = NoCall
    /\ UNCHANGED <<chain, disk, shown, promised>>

(* A step that the wallet takes itself, without a masternode. *)
BodyStep(c) ==
    \/ \E t \in Tickets : AskFirst(c, t)
    \/ BrokenTicket(c) \/ AskRecommended(c) \/ NoneLeft(c)
    \/ OpenThumbnail(c) \/ WriteThumbnail(c) \/ CreateArtwork(c)
    \/ ListArtworks(c) \/ SaleUnknown(c)

CallStep(c) == BodyStep(c) \/ FirstAnswer(c) \/ RecommendedAnswer(c)

SellStep == CnodeRegisters \/ CnodeRefuses \/ CnodeDisconnects \/ CnodeAnswers
            \/ SaveSale

Environment ==
    \/ \E t \in Tickets : Activate(t) \/ MineSale(t) \/ Sell(t)
    \/ \E c \in Calls : BeginCall(c) \/ CancelCall(c)
    \/ BeginDownload
    \/ Crash

DownloadStep == ImageNotFound \/ \E n \in Nodes : AskForImage(n)

Next ==
    \/ Environment
    \/ RefreshMasternodes
    \/ \E c \in Calls : CallStep(c)
    \/ SellStep
    \/ DownloadStep

(***************************************************************************)
(* A handler in its synchronous body goes on: it holds the event loop, and *)
(* the cNode it may call there runs beside the wallet.  Of a masternode    *)
(* nothing is assumed.  The client limits the time to connect only         *)
(* (rpc_client.py:57), so one that accepts and stays silent is waited for  *)
(* without end; nor is the cNode taken to answer a sale.                   *)
(***************************************************************************)
Fairness == \A c \in Calls : WF_vars(BodyStep(c))

SafeSpec == Init /\ [][Next]_vars
Spec     == SafeSpec /\ Fairness

-----------------------------------------------------------------------------
CallRecords == [at : {"idle"} \cup Waiting \cup Bodies,
                due : SUBSET Tickets, todo : SUBSET Tickets,
                ticket : Tickets \cup {NoTicket}, peer : Nodes \cup {NoNode},
                rest : Seq(Nodes), image : Nodes \cup {NoNode}]

(* Every variable has its type, and a handler in its synchronous body is   *)
(* the one that `busy' names.                                              *)
GalleryTypeOK ==
    /\ activated \subseteq Tickets /\ mined \subseteq Tickets
    /\ sales \in [Tickets -> 0 .. MaxSales]
    /\ table \in Seq(Nodes)
    /\ artwork \subseteq Tickets
    /\ file \in [Tickets -> Files]
    /\ sellRows \subseteq Tickets
    /\ call \in [Calls -> CallRecords]
    /\ \A c \in Calls : (call[c].at \in Bodies) <=> (busy = c)
    /\ seller \in [at : {"idle", "calling", "registered", "answered"},
                   ticket : Tickets \cup {NoTicket}]
    /\ (seller.at # "idle") <=> (busy = Seller)
    /\ download \in [at : {"idle", "asking"}, left : SUBSET Nodes,
                     refused : SUBSET Nodes]
    /\ busy \in Calls \cup {Seller, NoCall}
    /\ shown \in [Tickets -> Entries]
    /\ promised \subseteq Tickets
    /\ crashes \in 0 .. MaxCrashes

(* An artwork that the wallet lists has a thumbnail file, perhaps an empty *)
(* one: the row is written after the file, whenever the wallet is killed.  *)
RowHasThumbnail == \A t \in artwork : file[t] # "absent"

(***************************************************************************)
(* The row of a sale, and a sale that is listed because of the row alone,  *)
(* has a sell ticket that the cNode has registered, wherever the wallet is *)
(* killed or the call repeated.  A sale of the blockchain may be anyone's. *)
(***************************************************************************)
OfferBacked == \A t \in Tickets :
                   t \in sellRows \/ shown[t] = "offered" => sales[t] > 0

(* The client does not compare the sender.  That a thumbnail comes from    *)
(* the masternode that was asked, when another host is now at its address, *)
(* rests on the host refusing a request for someone else.                  *)
AnsweredByAsked == \A c \in Calls : call[c].image \in {call[c].peer, NoNode}

(* The user is told that no masternode has the image only when every       *)
(* masternode of the list has said so itself.                              *)
DownloadVerdict == [][ImageNotFound => download.refused = Nodes]_vars

(* A list has every artwork that was activated when the call began and     *)
(* whose tickets the cNode returns, with a thumbnail or without.           *)
ListComplete ==
    [][\A c \in Calls : ListArtworks(c) =>
           \A t \in call[c].due \ Broken : shown'[t] # "not listed"]_vars

(***************************************************************************)
(* "to avoid processing invalid txid multiple times - write in to the DB   *)
(* with height=-1" (get_artworks_data, wallet/pastel_client.py:181): a     *)
(* call that meets a broken ticket leaves a row for it.                    *)
(***************************************************************************)
BrokenTicketStored ==
    [][\A c \in Calls : BrokenTicket(c) =>
           \E t \in call[c].todo \cap Broken : t \in artwork']_vars

(* A sale that was answered without an error is in every later list, also  *)
(* before the blockchain has it and after a restart of the wallet.         *)
SalesShown ==
    [][\A c \in Calls : ListArtworks(c) =>
           \A t \in promised : shown'[t] \in {"offered", "for sale"}]_vars

(* The thumbnail file of a row is never touched again, except by a call    *)
(* that had found the ticket without a row.                                *)
ThumbnailFinal ==
    [][\A t \in artwork : (\A c \in Calls : t \notin call[c].todo)
                              => file'[t] = file[t]]_vars

(***************************************************************************)
(* Every call is answered or ends with an error, or it waits without end   *)
(* for one masternode that stays silent: it never goes round among the     *)
(* recommended masternodes or the tickets, whatever they answer and        *)
(* however many calls run at once.                                         *)
(***************************************************************************)
CallsAnswered ==
    \A c \in Calls : \/ []<>(call[c].at = "idle")
                     \/ <>[](call[c].at \in Waiting)

=============================================================================
