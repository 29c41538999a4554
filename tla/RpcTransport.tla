---------------------------- MODULE RpcTransport ----------------------------
(***************************************************************************)
(* One remote call between hosts of the network: RPCClient packs a request *)
(* as an RPCMessage, RPCServer unpacks it, dispatches it to the handler    *)
(* and packs the answer, and RPCClient unpacks that.                       *)
(*                                                                         *)
(* A message carries the receiver's PastelID and the sender's clock.  Both *)
(* sides refuse a message for someone else and one whose time differs from *)
(* their own clock by Window or more; nobody looks at the sender or at the *)
(* signature.  Messages between hosts of this code are well-formed, so the *)
(* format of the container is not modelled.  Moments are counted from the  *)
(* moment the request was packed.                                          *)
(***************************************************************************)
EXTENDS Integers

CONSTANTS
    Wallet,   \* PastelID of the wallet
    Nodes,    \* PastelIDs of the masternodes
    Skew,     \* Skew[h]: how far the clock of host h is ahead
    Window,   \* 60 seconds
    Delays    \* times a message may take

Hosts == Nodes \cup {Wallet}

ASSUME TransportAssumption ==
    /\ Wallet \notin Nodes
    /\ Skew \in [Hosts -> Int]
    /\ Window \in Nat \ {0}
    /\ Delays \subseteq Nat

(* What comes instead of an RPCMessage: the text of HTTP status 500. *)
HttpError == [is |-> "text"]

Packet(from, to, status, body, now) ==
    [is |-> "message", sender |-> from, receiver |-> to,
     sent |-> now + Skew[from], status |-> status, body |-> body]

Request(from, to) == Packet(from, to, "REQUEST", "arguments", 0)

(* The two comparisons with time.time(). *)
Fresh(elapsed) == -Window < elapsed /\ elapsed < Window

ForUs(host, packet)       == packet.receiver = host
Timely(host, packet, now) == Fresh(now + Skew[host] - packet.sent)

(* Mutant of Reconstruct: whose message it is does not matter. *)
ReconstructAnyones(host, packet, now) ==
    CASE packet.is # "message" -> "ValueError"
      [] OTHER                 -> IF Timely(host, packet, now)
                                    THEN "ok" ELSE "AssertionError"

(* The receiver is compared before the time. *)
Reconstruct(host, packet, now) ==
    IF packet.is = "message" /\ ForUs(host, packet)
      THEN IF Timely(host, packet, now) THEN "ok" ELSE "AssertionError"
      ELSE "ValueError"

(***************************************************************************)
(* __http_proccess of a server: an exception outside the handler makes     *)
(* aiohttp answer with status 500; one of the handler's is packed.         *)
(***************************************************************************)
Exception == [is |-> "exception"]

Process(host, request, result, now) ==
    IF Reconstruct(host, request, now) # "ok"
      THEN HttpError
      ELSE Packet(host, request.sender,
                  IF result = Exception THEN "ERROR" ELSE "SUCCESS", result, now)

(***************************************************************************)
(* __send_rpc_to_mn: the answer's body.  Its None for a ValueError and its *)
(* exceptions come to the same, since the callers subscript the answer.    *)
(***************************************************************************)
Receive(host, packet, now) ==
    IF Reconstruct(host, packet, now) = "ok" /\ packet.status = "SUCCESS"
      THEN packet.body
      ELSE Exception

=============================================================================
