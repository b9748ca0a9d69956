---------------------------- MODULE TrustBundles ----------------------------
(***************************************************************************)
(* Trust bundles: signatures over one receipt, of a composition            *)
(* (composition_trust.js) or of a package (package_trust.js, which is the  *)
(* same but for its names and for appendTrustRecord).                      *)
(*                                                                         *)
(* A receipt or a signature value is a hash, taken to be free of           *)
(* collisions: it is the content it was computed of.                       *)
(***************************************************************************)
EXTENDS Naturals, Sequences, SequencesExt

CONSTANTS None,    \* no trust bundle, no file
          Zero     \* the receipt of nothing
-----------------------------------------------------------------------------
NormalizeStatus(text) ==
  CASE text \in {"approved", "reviewed", "signed"} -> "approved"
    [] text \in {"rejected", "blocked"} -> "rejected"
    [] text = "pending" -> "pending"
    [] OTHER -> "unsigned"

SignerEnvelope(of, text) == [of |-> of, status |-> NormalizeStatus(text), whole |-> TRUE]

TrustReceipt(of, signatures, status) == <<of, signatures, status>>

\* Fault: one signer is enough, whatever it says.
ReviewStatusOfAny(signatures) == IF signatures = <<>> THEN "unsigned" ELSE "approved"

\* A rejection is told as "pending".
ReviewStatus(signatures) ==
  IF signatures = <<>> THEN "unsigned"
  ELSE IF \E record \in Range(signatures) : record.status = "approved"
       THEN "approved" ELSE "pending"

BuildTrustBundle(of, texts) ==
  LET signatures == [i \in DOMAIN texts |-> SignerEnvelope(of, texts[i])]
      status == ReviewStatus(signatures)
  IN  [of |-> of, signatures |-> signatures, status |-> status,
       receipt |-> TrustReceipt(of, signatures, status)]

VerifyTrustRecord(of, record) == record.of = of /\ record.whole

Untrusted(of) == [of |-> of, signatures |-> <<>>, status |-> "unsigned", receipt |-> Zero]

\* validateTrustBundle: whether it stands, and the bundle it returns then.
ValidTrust(of, bundle) ==
  bundle # None =>
    /\ bundle.of = of
    /\ \A record \in Range(bundle.signatures) : VerifyTrustRecord(of, record)
    /\ bundle.signatures # <<>>
         => bundle.receipt = TrustReceipt(of, bundle.signatures, bundle.status)

NormalizedTrust(of, bundle) ==
  IF bundle = None THEN Untrusted(of)
  ELSE IF bundle.signatures = <<>>
       THEN [bundle EXCEPT !.status = "unsigned",
                           !.receipt = TrustReceipt(of, <<>>, "unsigned")]
       ELSE bundle

\* reportTrust. What does not stand is reported with an error and names
\* no identity.
ReportTrust(of, bundle) ==
  IF ValidTrust(of, bundle) THEN NormalizedTrust(of, bundle)
  ELSE [of |-> None, signatures |-> <<>>, status |-> "error", receipt |-> Zero]
=============================================================================
