---------------------------- MODULE PeerExchange ----------------------------
(***************************************************************************)
(* What one offered world package does: the peer exchange receives it      *)
(* (autonomous_world_peer_exchange.js), the subscription court filters it  *)
(* (autonomous_world_subscription_court.js), and a transport event ties an *)
(* offer to the package a carrier brought, if it brought one               *)
(* (autonomous_world_live_transport_adapter.js).                           *)
(*                                                                         *)
(* A package is a record of its receipt, whether verifySyncPackage passes  *)
(* it, the identities of its snapshots, the worlds they are of and whether *)
(* one of them is a merge.                                                 *)
(***************************************************************************)
EXTENDS Integers, Sequences, FiniteSets

CONSTANTS Registry,      \* the declared peers and the receipt of each
          Subscription,  \* the local filters: peer, world, history mode
          Anything,      \* the filter "*"
          None           \* null

NoPackage == [receipt |-> None, valid |-> FALSE, snapshots |-> {},
              worlds |-> {}, merged |-> FALSE]

\* Fault: whatever package is there is taken for the one that was offered.
RejectedReasonAnyPackage(offer, package) ==
  IF offer.peer \notin DOMAIN Registry             THEN "unknown-peer"
  ELSE IF offer.peerReceipt # Registry[offer.peer] THEN "peer-receipt-mismatch"
  ELSE IF offer.packageReceipt = None              THEN "missing-package-receipt"
  ELSE IF ~package.valid                           THEN "invalid-sync-package"
  ELSE "none"

\* Why a package is not accepted, in the order the code objects.
RejectedReason(offer, package) ==
  IF offer.peer \notin DOMAIN Registry             THEN "unknown-peer"
  ELSE IF offer.peerReceipt # Registry[offer.peer] THEN "peer-receipt-mismatch"
  ELSE IF offer.packageReceipt = None              THEN "missing-package-receipt"
  ELSE IF \/ package = NoPackage
          \/ package.receipt # offer.packageReceipt THEN "offered-package-receipt-mismatch"
  ELSE IF ~package.valid                           THEN "invalid-sync-package"
  ELSE "none"

ReceivePackage(offer, package) ==
  LET reason   == RejectedReason(offer, package)
      imported == IF reason = "none" THEN package ELSE NoPackage
  IN  [peer |-> offer.peer, offered |-> offer.packageReceipt,
       accepted |-> reason = "none", reason |-> reason,
       snapshots |-> imported.snapshots, imported |-> imported]

PeerMatches(exchange) == Subscription.peer \in {Anything, exchange.peer}

WorldMatches(exchange) == \/ Subscription.world = Anything
                          \/ Subscription.world \in exchange.imported.worlds

HistoryMatches(exchange) ==
  \/ Subscription.mode = Anything
  \/ Subscription.mode = "admitted-only" /\ exchange.accepted
  \/ Subscription.mode = "merged-only" /\ exchange.imported.merged

\* evaluateSubscription: the snapshots the subscription admits.
Admitted(exchange) ==
  IF /\ exchange.accepted
     /\ PeerMatches(exchange) /\ WorldMatches(exchange) /\ HistoryMatches(exchange)
  THEN exchange.snapshots ELSE {}

\* A transport event as it is stored, whose receipt names it: it does not
\* cover the package.
TransportEvent(receipt, success, offer, package) ==
  [receipt |-> receipt, success |-> success, offer |-> offer, package |-> package]

ProcessTransportEvent(event) ==
  LET exchange == ReceivePackage(event.offer, IF event.success THEN event.package
                                                               ELSE NoPackage)
  IN  [event |-> event.receipt, success |-> event.success,
       exchange |-> exchange, accepted |-> Admitted(exchange)]
=============================================================================
