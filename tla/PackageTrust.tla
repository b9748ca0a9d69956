---------------------------- MODULE PackageTrust ----------------------------
(***************************************************************************)
(* The trust bundle beside a composer package: signers attest to the       *)
(* receipts of packages, in any order, and importPackage takes the bundle  *)
(* or throws (package_trust.js, composer_package.js).                      *)
(***************************************************************************)
EXTENDS TrustBundles

CONSTANTS Packages,    \* the receipts of packages
          Texts,       \* review statuses signers may give
          MaxRecords   \* bound: signatures of the bundle

VARIABLE bundle        \* the trust bundle, if any

ReportPackageTrust(package, b) == ReportTrust(package, b)

\* importPackage of a package that is whole: it throws for a bundle that does
\* not stand for the package.
Trusts(package, b) == ValidTrust(package, b)

AppendedStatus(signatures) ==
  IF \E record \in Range(signatures) : record.status = "approved" THEN "approved"
  ELSE IF \A record \in Range(signatures) : record.status = "unsigned" THEN "unsigned"
  ELSE "pending"

\* Fault: the receipt is left as it was.
AppendTrustRecordOnly(b, record) ==
  LET old == IF b = None THEN Untrusted(record.of) ELSE b
      signatures == Append(old.signatures, record)
  IN  [of |-> record.of, signatures |-> signatures,
       status |-> AppendedStatus(signatures), receipt |-> old.receipt]

\* appendTrustRecord: the bundle becomes one for the record's package.
AppendTrustRecord(b, record) ==
  LET old == IF b = None THEN Untrusted(record.of) ELSE b
      signatures == Append(old.signatures, record)
      status == AppendedStatus(signatures)
  IN  [of |-> record.of, signatures |-> signatures, status |-> status,
       receipt |-> TrustReceipt(record.of, signatures, status)]
-----------------------------------------------------------------------------
Init == bundle = None

\* A bundle is made for a package anew.
Build(package, texts) == bundle' = BuildTrustBundle(package, texts)

\* A signer's record is appended; it may have been damaged.
Attest(record) ==
  /\ bundle # None => Len(bundle.signatures) < MaxRecords
  /\ bundle' = AppendTrustRecord(bundle, record)

Records == {[SignerEnvelope(package, text) EXCEPT !.whole = whole] :
              package \in Packages, text \in Texts, whole \in BOOLEAN}

Next == \/ \E package \in Packages, text \in Texts : Build(package, <<text>>)
        \/ \E record \in Records : Attest(record)

Spec == Init /\ [][Next]_bundle
-----------------------------------------------------------------------------
(* Properties. *)

\* Type of the bundle: its status is one a reader is told.
TypeOK ==
  bundle # None =>
    /\ bundle.of \in Packages /\ Len(bundle.signatures) <= MaxRecords
    /\ bundle.status \in {"unsigned", "pending", "approved"}

Approves(record, package) ==
  record.whole /\ record.of = package /\ record.status = "approved"

\* A package is reported as approved only if someone approved that very
\* package, in whatever order records of this and of other packages were
\* appended, damaged ones among them.
ApprovalIsSigned ==
  \A package \in Packages :
    ReportPackageTrust(package, bundle).status = "approved" =>
      \E record \in Range(bundle.signatures) : Approves(record, package)

\* "Trust metadata is append-only attestation over the package receipt"
\* (docs/PHASE-62): a whole record of the package a bundle stands for leaves
\* it standing, and no record takes an approval back.
AttestationsAdd ==
  [][\A package \in Packages :
       /\ bundle # None /\ Trusts(package, bundle)
       /\ Len(bundle'.signatures) > Len(bundle.signatures)
       /\ VerifyTrustRecord(package, Last(bundle'.signatures))
       => /\ Trusts(package, bundle')
          /\ bundle.status = "approved" => bundle'.status = "approved"]_bundle
=============================================================================
