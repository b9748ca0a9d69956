----------------------------- MODULE MCEvidence -----------------------------
(* Instances of EvidenceStore and EvidenceRequests for TLC. *)
EXTENDS EvidenceRequests

CONSTANTS alice, bob, world, snapA, snapB, evA, evB, evC, evD, evE, pkg1, pkg2

Peers == [p \in {alice} |-> alice]
AdmittedOnly == [peer |-> Anything, world |-> world, mode |-> "admitted-only"]

Pkg(receipt, snapshots, worlds) ==
  [receipt |-> receipt, valid |-> TRUE, snapshots |-> snapshots,
   worlds |-> worlds, merged |-> FALSE]
Offer(peer, package) ==
  [peer |-> peer, peerReceipt |-> peer, packageReceipt |-> package.receipt]

P1 == Pkg(pkg1, {snapA}, {world})
P2 == Pkg(pkg2, {snapA, snapB}, {world})

\* One that is accepted, another that is and admits more, one whose carrier
\* failed, one from a peer nobody declared, one that came without its package.
EventA == TransportEvent(evA, TRUE, Offer(alice, P1), P1)
EventB == TransportEvent(evB, TRUE, Offer(alice, P2), P2)
EventC == TransportEvent(evC, FALSE, Offer(alice, P2), P2)
EventD == TransportEvent(evD, TRUE, Offer(bob, P1), P1)
EventE == TransportEvent(evE, TRUE, Offer(alice, P1), NoPackage)

UpToThree == UNION {[1 .. n -> {EventA, EventB, EventC}] : n \in 1 .. 3}
              \cup {<<EventD>>, <<EventD, EventA>>, <<EventE, EventD>>}

TwoEvents == {<<EventA, EventB>>}

Rank(order, max) == [order |-> order, max |-> max]
ThreePolicies == {Rank(<<"corrupt", "missing", "repairable">>, None),
                  Rank(<<"repairable">>, 1),
                  Rank(<<"missing", "repairable">>, -1)}
=============================================================================
