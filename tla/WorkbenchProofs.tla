--------------------------- MODULE WorkbenchProofs ---------------------------
(***************************************************************************)
(* Theorems about the workbench, for any packages, texts, templates,       *)
(* reviews and bounds: the trust of packages, the packages in a directory, *)
(* the index of raw bytes, compositions with their bundles, block images,  *)
(* the regions of a stream, the shell and the graphics backends, each with *)
(* the types of its state.  What is proved of a part holds in the          *)
(* workbench, because the steps of the others leave its variables alone.   *)
(*                                                                         *)
(* Trust of packages: the bundle as it is stored has records for           *)
(* signatures, one at least, and the status it is stored with is borne out *)
(* by one of them.                                                         *)
(*                                                                         *)
(* Packages: every manifest, in the directory, in the package being        *)
(* written or in a reader's hands, was made by an export, and the files of *)
(* a package being written are in the directory but for those still to     *)
(* come. While one is written none is settled, which is why a crash leaves *)
(* nothing to show.                                                        *)
(*                                                                         *)
(* The index of raw bytes: the chunk of a byte is a quotient, and damage   *)
(* is told at exactly the chunks where the bytes differ.                   *)
(*                                                                         *)
(* Compositions: a trust bundle, given or sealed into an exported bundle,  *)
(* has the receipt of the status its signatures give, if it has any, so    *)
(* one whose status was rewritten does not stand.  The bundle that was     *)
(* given is of the content of its time, and content only grows until it is *)
(* composed anew, so none stands after a change of content.                *)
(*                                                                         *)
(* Block images: what is declared is the draft, laid out, and what was     *)
(* exported is what was declared.  A layout without gaps increases, and    *)
(* only one list of its chunks does, so the order they are given in does   *)
(* not matter, and what comes back from an export is what was exported.    *)
(*                                                                         *)
(* The regions of a stream: they have their places in order.  The overlays *)
(* at an index are then listed from the broadest to the narrowest, and     *)
(* what is counted region by region is, byte by byte, what is around it.   *)
(*                                                                         *)
(* The shell: the components and the relations of the scene are, one after *)
(* another, the proposals of the edit log for them.                        *)
(*                                                                         *)
(* The graphics backends: a plan is what its backend makes of the stream   *)
(* whose receipt it has, and a stream that has a plan has both its ends.   *)
(* The metadata are then those of the first command that names a path, and *)
(* two plans of one stream differ in the primitives they draw, if at all.  *)
(***************************************************************************)
EXTENDS MCWorkbench, SequenceTheorems, FiniteSetTheorems, TLAPS

-----------------------------------------------------------------------------
(* Numbers and lists. *)

\* The lesser of two numbers.
LEMMA MinOfTwo ==
  ASSUME NEW x \in Int, NEW y \in Int
  PROVE  Streams!Min({x, y}) = IF x <= y THEN x ELSE y
<1> DEFINE m == IF x <= y THEN x ELSE y
<1>1. /\ m \in {x, y} /\ \A z \in {x, y} : m <= z
      /\ \A w \in {x, y} : (\A z \in {x, y} : w <= z) => w = m
  OBVIOUS
<1>2. QED  BY <1>1 DEF Streams!Min

\* A sequence and one more element are over one set.
LEMMA ListGrows ==
  ASSUME NEW S, NEW s \in Seq(S), NEW e
  PROVE  \E T : s \in Seq(T) /\ e \in T /\ Append(s, e) \in Seq(T)
<1> DEFINE T == S \cup {e}
<1>1. s \in Seq(T) /\ e \in T  OBVIOUS
<1>2. Append(s, e) \in Seq(T)  BY <1>1
<1>3. QED  BY <1>1, <1>2

\* Appending to a list keeps what it holds.
LEMMA ListAppended ==
  ASSUME NEW S, NEW s \in Seq(S), NEW e
  PROVE  /\ Len(s) \in Nat /\ Len(Append(s, e)) = Len(s) + 1
         /\ Append(s, e)[Len(s) + 1] = e
         /\ \A i \in 1 .. Len(s) : Append(s, e)[i] = s[i]
<1>1. PICK T : s \in Seq(T) /\ e \in T  BY ListGrows
<1>2. QED  BY <1>1

-----------------------------------------------------------------------------
(* The trust of packages. *)

Statuses == {Trust!NormalizeStatus(text) : text \in Texts}
Signatures == [of : Packages, status : Statuses, whole : BOOLEAN]

Signed(signatures) ==
  \E i \in DOMAIN signatures : signatures[i].status = "approved"

TrustInv ==
  bundle # None =>
    /\ bundle = [of |-> bundle.of, signatures |-> bundle.signatures,
                 status |-> bundle.status, receipt |-> bundle.receipt]
    /\ bundle.signatures \in Seq(Signatures)
    /\ Len(bundle.signatures) > 0
    /\ bundle.status = "approved" => Signed(bundle.signatures)

\* What any signer writes is a record with a status.
LEMMA RecordFacts ==
  ASSUME NEW record \in Trust!Records
  PROVE  record \in Signatures
<1>1. PICK package \in Packages, text \in Texts, whole \in BOOLEAN :
        record = [Trust!SignerEnvelope(package, text) EXCEPT !.whole = whole]
  BY DEF Trust!Records
<1>2. Trust!NormalizeStatus(text) \in Statuses  BY DEF Statuses
<1>3. QED  BY <1>1, <1>2 DEF Trust!SignerEnvelope, Signatures

\* A bundle as it is built: one signature, which gives it its status.
LEMMA BuildFacts ==
  ASSUME NEW package \in Packages, NEW text \in Texts,
         Trust!Build(package, <<text>>)
  PROVE  TrustInv' /\ Len(bundle'.signatures) = 1
<1> DEFINE record == Trust!SignerEnvelope(package, text)
           signatures == [i \in DOMAIN <<text>> |->
                           Trust!SignerEnvelope(package, <<text>>[i])]
<1>1. Trust!NormalizeStatus(text) \in Statuses  BY DEF Statuses
<1>2. record \in Signatures  BY <1>1 DEF Trust!SignerEnvelope, Signatures
<1>3. signatures = [i \in 1 .. 1 |-> record]  OBVIOUS
<1>4. signatures \in Seq(Signatures) /\ Len(signatures) = 1  BY <1>2, <1>3
<1>5. signatures # <<>>  BY <1>4
<1>6. bundle' = [of |-> package, signatures |-> signatures,
                 status |-> Trust!ReviewStatus(signatures),
                 receipt |-> Trust!TrustReceipt(package, signatures,
                   Trust!ReviewStatus(signatures))]
  BY DEF Trust!Build, Trust!BuildTrustBundle
<1>7. Trust!ReviewStatus(signatures) = "approved" => Signed(signatures)
  BY <1>5 DEF Trust!ReviewStatus, Signed, Trust!Range
<1> HIDE DEF signatures
<1>8. /\ bundle'.signatures = signatures
      /\ bundle'.status = Trust!ReviewStatus(signatures)
      /\ bundle' = [of |-> bundle'.of, signatures |-> bundle'.signatures,
                    status |-> bundle'.status, receipt |-> bundle'.receipt]
  BY <1>6
<1>9. bundle'.status = "approved" => Signed(bundle'.signatures)
  BY <1>7, <1>8
<1>10. bundle'.signatures \in Seq(Signatures) /\ Len(bundle'.signatures) = 1
  BY <1>4, <1>8
<1>11. TrustInv'  BY <1>8, <1>9, <1>10 DEF TrustInv, Signed
<1>12. QED  BY <1>10, <1>11

\* A record appended: the bundle is of its package, the signatures there were
\* stay and it comes last.
LEMMA AttestFacts ==
  ASSUME TrustInv, NEW record \in Trust!Records, Trust!Attest(record)
  PROVE  /\ TrustInv'
         /\ bundle' # None => bundle'.of = record.of
         /\ bundle'.receipt
              = Trust!TrustReceipt(record.of, bundle'.signatures,
                bundle'.status)
         /\ bundle # None
              => bundle'.signatures = Append(bundle.signatures, record)
         /\ Signed(bundle'.signatures) => bundle'.status = "approved"
<1> DEFINE old == IF bundle = None THEN Trust!Untrusted(record.of) ELSE bundle
           signatures == Append(old.signatures, record)
           status == Trust!AppendedStatus(signatures)
<1>1. old.signatures \in Seq(Signatures)  BY DEF TrustInv, Trust!Untrusted
<1>2. record \in Signatures  BY RecordFacts
<1>3. signatures \in Seq(Signatures) /\ Len(signatures) > 0
  BY <1>1, <1>2, AppendProperties
<1>4. bundle # None => signatures = Append(bundle.signatures, record)  OBVIOUS
<1>5. bundle' = [of |-> record.of, signatures |-> signatures, status |-> status,
                 receipt |-> Trust!TrustReceipt(record.of, signatures, status)]
  BY DEF Trust!Attest, Trust!AppendTrustRecord
<1>6. status = "approved" <=> Signed(signatures)
  BY DEF Trust!AppendedStatus, Signed, Trust!Range
<1> HIDE DEF signatures, status
<1>7. QED  BY <1>3, <1>4, <1>5, <1>6 DEF TrustInv, Signed

\* The stored bundle is well formed and its status borne out, whatever records
\* were appended.
THEOREM TrustInvariance == Trust!Spec => []TrustInv
<1>1. Trust!Init => TrustInv  BY DEF Trust!Init, TrustInv
<1>2. TrustInv /\ [Trust!Next]_bundle => TrustInv'
  <2> SUFFICES ASSUME TrustInv, [Trust!Next]_bundle  PROVE TrustInv'
    OBVIOUS
  <2>1. CASE \E package \in Packages, text \in Texts :
               Trust!Build(package, <<text>>)
    BY <2>1, BuildFacts
  <2>2. CASE \E record \in Trust!Records : Trust!Attest(record)
    BY <2>2, AttestFacts
  <2>3. CASE UNCHANGED bundle
    BY <2>3 DEF TrustInv
  <2>4. QED  BY <2>1, <2>2, <2>3 DEF Trust!Next
<1>3. QED  BY <1>1, <1>2, PTL DEF Trust!Spec

\* The invariant gives what is approved its signature.
LEMMA TrustApproved == TrustInv => Trust!ApprovalIsSigned
<1> SUFFICES ASSUME TrustInv, NEW package \in Packages,
                    Trust!ReportPackageTrust(package, bundle).status
                      = "approved"
             PROVE  \E record \in Trust!Range(bundle.signatures) :
                      Trust!Approves(record, package)
  BY DEF Trust!ApprovalIsSigned
<1>1. Trust!ValidTrust(package, bundle)
  BY DEF Trust!ReportPackageTrust, Trust!ReportTrust
<1>2. Trust!NormalizedTrust(package, bundle).status = "approved"
  BY <1>1 DEF Trust!ReportPackageTrust, Trust!ReportTrust
<1>3. bundle # None  BY <1>2 DEF Trust!NormalizedTrust, Trust!Untrusted
<1>4. bundle.signatures # <<>>  BY <1>3 DEF TrustInv
<1>5. bundle.status = "approved"  BY <1>2, <1>3, <1>4 DEF Trust!NormalizedTrust
<1>6. PICK i \in DOMAIN bundle.signatures :
        bundle.signatures[i].status = "approved"
  BY <1>3, <1>5 DEF TrustInv, Signed
<1>7. bundle.signatures[i] \in Trust!Range(bundle.signatures)
  BY DEF Trust!Range
<1>8. Trust!VerifyTrustRecord(package, bundle.signatures[i])
  BY <1>1, <1>3, <1>7 DEF Trust!ValidTrust
<1>9. QED  BY <1>6, <1>7, <1>8 DEF Trust!VerifyTrustRecord, Trust!Approves

\* A package is reported as approved only if someone approved that package.
THEOREM TrustApproval == Trust!Spec => []Trust!ApprovalIsSigned
BY TrustInvariance, TrustApproved, PTL

\* A whole record appended to a bundle that stands leaves it standing, and
\* takes no approval back.
LEMMA AttestationAdds ==
  ASSUME TrustInv, [Trust!Next]_bundle, NEW package \in Packages,
         bundle # None, Trust!Trusts(package, bundle),
         Len(bundle'.signatures) > Len(bundle.signatures),
         Trust!VerifyTrustRecord(package, Trust!Last(bundle'.signatures))
  PROVE  /\ Trust!Trusts(package, bundle')
         /\ bundle.status = "approved" => bundle'.status = "approved"
<1>0. bundle.signatures \in Seq(Signatures)
        /\ Len(bundle.signatures) \in Nat \ {0}
  BY DEF TrustInv
<1>1. CASE \E p \in Packages, text \in Texts : Trust!Build(p, <<text>>)
  <2>1. Len(bundle'.signatures) = 1  BY <1>1, BuildFacts
  <2>2. QED  BY <1>0, <2>1
<1>2. CASE UNCHANGED bundle
  BY <1>0, <1>2
<1>3. CASE \E record \in Trust!Records : Trust!Attest(record)
  <2>1. PICK record \in Trust!Records : Trust!Attest(record)  BY <1>3
  <2>2. /\ bundle' # None => bundle'.of = record.of
        /\ bundle'.receipt
             = Trust!TrustReceipt(record.of, bundle'.signatures, bundle'.status)
        /\ bundle'.signatures = Append(bundle.signatures, record)
        /\ Signed(bundle'.signatures) => bundle'.status = "approved"
    BY <2>1, AttestFacts
  <2>3. record \in Signatures  BY RecordFacts
  <2> DEFINE s == bundle.signatures
             t == bundle'.signatures
  <2>4. /\ t \in Seq(Signatures) /\ Len(t) = Len(s) + 1
        /\ \A i \in 1 .. Len(s) : t[i] = s[i]
        /\ t[Len(s) + 1] = record
    BY <1>0, <2>2, <2>3, AppendProperties
  <2>5. Trust!Last(t) = record  BY <2>4 DEF Trust!Last
  <2>6. Trust!VerifyTrustRecord(package, record)  BY <2>5
  <2>7. record.of = package  BY <2>6 DEF Trust!VerifyTrustRecord
  <2>8. DOMAIN s = 1 .. Len(s) /\ DOMAIN t = 1 .. Len(s) + 1
    BY <1>0, <2>4, LenProperties
  <2>9. \A i \in DOMAIN t : Trust!VerifyTrustRecord(package, t[i])
    <3>1. SUFFICES ASSUME NEW i \in 1 .. Len(s) + 1
                   PROVE  Trust!VerifyTrustRecord(package, t[i])
      BY <2>8
    <3>2. CASE i = Len(s) + 1  BY <2>4, <2>6, <3>2
    <3>3. CASE i # Len(s) + 1
      <4>1. i \in 1 .. Len(s)  BY <1>0, <3>3
      <4>2. s[i] \in Trust!Range(s)  BY <2>8, <4>1 DEF Trust!Range
      <4>3. Trust!VerifyTrustRecord(package, s[i])
        BY <4>2 DEF Trust!Trusts, Trust!ValidTrust
      <4>4. QED  BY <2>4, <4>1, <4>3
    <3>4. QED  BY <3>2, <3>3
  <2>10. Trust!Trusts(package, bundle')
    <3>1. \A r \in Trust!Range(t) : Trust!VerifyTrustRecord(package, r)
      BY <2>9 DEF Trust!Range
    <3>2. QED  BY <2>2, <2>7, <3>1 DEF Trust!Trusts, Trust!ValidTrust
  <2>11. ASSUME bundle.status = "approved"  PROVE bundle'.status = "approved"
    <3>1. PICK i \in DOMAIN s : s[i].status = "approved"
      BY <2>11 DEF TrustInv, Signed
    <3>2. i \in DOMAIN t /\ t[i].status = "approved"
      BY <1>0, <2>4, <2>8, <3>1
    <3>3. QED  BY <2>2, <3>2 DEF Signed
  <2>12. QED  BY <2>10, <2>11
<1>4. QED  BY <1>1, <1>2, <1>3 DEF Trust!Next

\* Trust metadata is append-only attestation over the receipt of a package.
THEOREM Attestation == Trust!Spec => Trust!AttestationsAdd
<1>1. TrustInv /\ [Trust!Next]_bundle =>
        [\A package \in Packages :
           /\ bundle # None /\ Trust!Trusts(package, bundle)
           /\ Len(bundle'.signatures) > Len(bundle.signatures)
           /\ Trust!VerifyTrustRecord(package, Trust!Last(bundle'.signatures))
           => /\ Trust!Trusts(package, bundle')
              /\ bundle.status = "approved"
                   => bundle'.status = "approved"]_bundle
  BY AttestationAdds
<1>2. QED  BY <1>1, TrustInvariance, PTL DEF Trust!Spec, Trust!AttestationsAdd

\* A workbench is a bundle of signers' records, and whatever else it does.
LEMMA TrustSpec == Spec => Trust!Spec
<1>1. Init => Trust!Init  BY DEF Init
<1>2. [Next]_vars => [Trust!Next]_(bundle)  BY DEF Next, vars
<1>3. QED  BY <1>1, <1>2, PTL DEF Spec, Trust!Spec

\* A bundle has as many signatures as it may.
LEMMA BundleTypes ==
  ASSUME MaxRecords \in Nat \ {0}
  PROVE  TrustInv /\ Trust!TypeOK /\ [Trust!Next]_bundle => Trust!TypeOK'
<1> SUFFICES ASSUME TrustInv, Trust!TypeOK, [Trust!Next]_bundle
             PROVE  Trust!TypeOK'
  OBVIOUS
<1>1. ASSUME NEW package \in Packages, NEW text \in Texts,
             Trust!Build(package, <<text>>)
      PROVE  Trust!TypeOK'
  <2>1. Len(bundle'.signatures) = 1  BY <1>1, BuildFacts
  <2>2. /\ bundle'.of = package
        /\ bundle'.status
             = Trust!ReviewStatus(
                 [i \in DOMAIN <<text>> |->
                    Trust!SignerEnvelope(package, <<text>>[i])])
    BY <1>1 DEF Trust!Build, Trust!BuildTrustBundle
  <2>3. bundle'.status \in {"unsigned", "pending", "approved"}
    BY <2>2 DEF Trust!ReviewStatus
  <2>4. QED  BY <2>1, <2>2, <2>3 DEF Trust!TypeOK
<1>2. ASSUME NEW record \in Trust!Records, Trust!Attest(record)
      PROVE  Trust!TypeOK'
  <2> DEFINE old == IF bundle = None THEN Trust!Untrusted(record.of) ELSE bundle
             signatures == Append(old.signatures, record)
             status == Trust!AppendedStatus(signatures)
  <2>1. record \in Signatures  BY RecordFacts
  <2>2. /\ bundle'.of = record.of /\ bundle'.signatures = signatures
        /\ bundle'.status = status
    BY <1>2 DEF Trust!Attest, Trust!AppendTrustRecord
  <2>3. status \in {"unsigned", "pending", "approved"}
    BY DEF Trust!AppendedStatus
  <2>4. old.signatures \in Seq(Signatures)
          /\ Len(old.signatures) + 1 <= MaxRecords
    <3>1. CASE bundle = None  BY <3>1 DEF Trust!Untrusted
    <3>2. CASE bundle # None
      <4>1. bundle.signatures \in Seq(Signatures)  BY <3>2 DEF TrustInv
      <4>2. Len(bundle.signatures) < MaxRecords
        BY <1>2, <3>2 DEF Trust!Attest
      <4>3. QED  BY <3>2, <4>1, <4>2
    <3>3. QED  BY <3>1, <3>2
  <2>5. Len(signatures) <= MaxRecords  BY <2>1, <2>4, AppendProperties
  <2>6. record.of \in Packages  BY <2>1 DEF Signatures
  <2>7. QED  BY <2>2, <2>3, <2>5, <2>6 DEF Trust!TypeOK
<1>3. CASE UNCHANGED bundle  BY <1>3 DEF Trust!TypeOK
<1>4. QED  BY <1>1, <1>2, <1>3 DEF Trust!Next

\* Types of the stored bundle.
LEMMA TrustTypes ==
  ASSUME MaxRecords \in Nat \ {0}  PROVE Trust!Spec => []Trust!TypeOK
<1>1. Trust!Init => Trust!TypeOK  BY DEF Trust!Init, Trust!TypeOK
<1>2. TrustInv /\ Trust!TypeOK /\ [Trust!Next]_bundle => Trust!TypeOK'
  BY BundleTypes
<1>3. QED  BY <1>1, <1>2, TrustInvariance, PTL DEF Trust!Spec

-----------------------------------------------------------------------------
(* The packages in a directory. *)

States == [source : Nat, mode : {0, 1}]

Exported(x) ==
  \/ x \in {None, Torn}
  \/ \E kind \in Store!Kinds, s \in States : x = Store!Manifest(kind, s)

\* What is exported is never taken for a file that is not there or was cut off.
ExportsAreFiles ==
  \A kind \in Store!Kinds, s \in States :
    /\ Store!Manifest(kind, s) \notin {None, Torn}
    /\ \A f \in Store!RequiredFiles(kind) : Store!Content(kind, f, s) # None

Whole(kind, files) ==
  \E s \in States : \A f \in Store!Range(Store!Files(kind)) :
    files[f] = Store!ExportPackage(kind, s)[f]

DirInv ==
  /\ dir = [f \in Store!AllFiles |-> dir[f]]
  /\ Exported(dir["manifest.json"])

WritingInv ==
  writing # None =>
    /\ settled = None
    /\ writing = [kind |-> writing.kind, package |-> writing.package,
         todo |-> writing.todo]
    /\ writing.kind \in Store!Kinds
    /\ \E s \in States : writing.package = Store!ExportPackage(writing.kind, s)
    /\ writing.todo \in Seq(Store!Range(Store!Files(writing.kind)))
    /\ \A f \in Store!Range(Store!Files(writing.kind)) :
         f \in Store!Range(writing.todo) \/ dir[f] = writing.package[f]

ReadingInv ==
  reading # None =>
    /\ reading = [todo |-> reading.todo, files |-> reading.files]
    /\ reading.files = [f \in Store!AllFiles |-> reading.files[f]]
    /\ Exported(reading.files["manifest.json"])

SettledInv == settled # None => settled \in Store!Kinds /\ Whole(settled, dir)

StoreInv == state \in States /\ DirInv /\ WritingInv /\ ReadingInv /\ SettledInv

\* The files of a package are listed, and its manifest is one of them.
LEMMA FilesFacts ==
  /\ \A kind \in Store!Kinds :
       /\ Store!Files(kind) \in Seq(Store!Range(Store!Files(kind)))
       /\ "manifest.json" \in Store!Range(Store!Files(kind))
       /\ Store!Range(Store!Files(kind)) \subseteq Store!AllFiles
  /\ "manifest.json" \in Store!AllFiles
<1>1. ASSUME NEW kind \in Store!Kinds
      PROVE  /\ Store!Files(kind) \in Seq(Store!Range(Store!Files(kind)))
             /\ "manifest.json" \in Store!Range(Store!Files(kind))
  <2> DEFINE files == Store!Files(kind)
  <2>1. \/ files = <<"README.org", "artifacts", "manifest.json", "plans",
             "receipts">>
        \/ files = <<"README.org", "declaration", "manifest.json", "overlays",
             "receipts">>
    BY DEF Store!Files
  <2> HIDE DEF files
  <2>2. Len(files) = 5 /\ files[3] = "manifest.json"  BY <2>1
  <2>3. DOMAIN files = 1 .. 5 /\ files = [i \in 1 .. 5 |-> files[i]]  BY <2>1
  <2>4. \A i \in 1 .. 5 : files[i] \in Store!Range(files)
    BY <2>3 DEF Store!Range
  <2>5. files \in [1 .. 5 -> Store!Range(files)]  BY <2>3, <2>4
  <2>6. files \in Seq(Store!Range(files))  BY <2>5, SeqDef
  <2>7. "manifest.json" \in Store!Range(files)  BY <2>2, <2>4
  <2>8. QED  BY <2>6, <2>7 DEF files
<1>2. \A kind \in Store!Kinds :
        Store!Range(Store!Files(kind)) \subseteq Store!AllFiles
  BY DEF Store!AllFiles
<1>3. "composer" \in Store!Kinds  BY DEF Store!Kinds
<1>4. QED  BY <1>1, <1>2, <1>3

\* What is left to do once the first of it is done.
LEMMA TodoFacts ==
  ASSUME NEW S, NEW todo \in Seq(S), todo # <<>>
  PROVE  /\ Tail(todo) \in Seq(S) /\ Head(todo) \in S
         /\ \A x \in Store!Range(todo) :
              x = Head(todo) \/ x \in Store!Range(Tail(todo))
<1>1. /\ Tail(todo) \in Seq(S) /\ Head(todo) \in S /\ Head(todo) = todo[1]
      /\ Len(todo) \in Nat \ {0} /\ Len(Tail(todo)) = Len(todo) - 1
      /\ \A i \in 1 .. Len(Tail(todo)) : Tail(todo)[i] = todo[i + 1]
  BY HeadTailProperties, EmptySeq
<1>2. ASSUME NEW i \in 1 .. Len(todo)
      PROVE  todo[i] = Head(todo) \/ todo[i] \in Store!Range(Tail(todo))
  <2>1. CASE i = 1  BY <1>1, <2>1
  <2>2. CASE i # 1
    <3>1. i - 1 \in 1 .. Len(Tail(todo)) /\ (i - 1) + 1 = i  BY <1>1, <2>2
    <3>2. Tail(todo)[i - 1] = todo[i]  BY <1>1, <3>1
    <3>3. i - 1 \in DOMAIN Tail(todo)  BY <1>1, <3>1
    <3>4. QED  BY <3>2, <3>3 DEF Store!Range
  <2>3. QED  BY <2>1, <2>2
<1>3. QED  BY <1>1, <1>2 DEF Store!Range

\* The invariant of the store holds at first.
LEMMA StoreInit == Store!Init => StoreInv
<1> SUFFICES ASSUME Store!Init  PROVE StoreInv
  OBVIOUS
<1>1. state \in States  BY DEF Store!Init, States
<1>2. DirInv  BY FilesFacts DEF Store!Init, DirInv, Exported
<1>3. WritingInv /\ ReadingInv /\ SettledInv
  BY DEF Store!Init, WritingInv, ReadingInv, SettledInv
<1>4. QED  BY <1>1, <1>2, <1>3 DEF StoreInv

\* Editing the project keeps the invariant of the store.
LEMMA EditKeeps == ASSUME StoreInv, Store!Edit  PROVE StoreInv'
<1>1. state' \in States
  BY DEF StoreInv, Store!Edit, States
<1>2. UNCHANGED <<dir, writing, settled, reading>>  BY DEF Store!Edit
<1>3. QED
  BY <1>1, <1>2
     DEF StoreInv, DirInv, WritingInv, ReadingInv, SettledInv, Exported, Whole

\* Beginning to write a package keeps the invariant of the store.
LEMMA BeginWriteKeeps ==
  ASSUME StoreInv, NEW kind \in Store!Kinds, Store!BeginWrite(kind)
  PROVE  StoreInv'
<1>1. UNCHANGED <<state, dir, reading>> /\ settled' = None
  BY DEF Store!BeginWrite
<1>2. writing' = [kind |-> kind, package |-> Store!ExportPackage(kind, state),
                  todo |-> Store!Files(kind)]
  BY DEF Store!BeginWrite
<1>3. state \in States
        /\ Store!Files(kind) \in Seq(Store!Range(Store!Files(kind)))
  BY FilesFacts DEF StoreInv
<1>4. WritingInv'  BY <1>1, <1>2, <1>3 DEF WritingInv
<1>5. QED  BY <1>1, <1>4 DEF StoreInv, DirInv, ReadingInv, SettledInv, Exported

\* Writing one file keeps the invariant of the store.
LEMMA WriteFileKeeps == ASSUME StoreInv, Store!WriteFile  PROVE StoreInv'
<1> DEFINE f == Head(writing.todo)
           kind == writing.kind
           package == writing.package
<1>1. /\ writing # None /\ writing.todo # <<>>
      /\ UNCHANGED <<state, settled, reading>>
      /\ dir' = [dir EXCEPT ![f] = package[f]]
      /\ writing' = [writing EXCEPT !.todo = Tail(writing.todo)]
  BY DEF Store!WriteFile
<1>2. /\ writing.todo \in Seq(Store!Range(Store!Files(kind)))
           /\ kind \in Store!Kinds
      /\ settled = None
      /\ writing = [kind |-> kind, package |-> package, todo |-> writing.todo]
  BY <1>1 DEF StoreInv, WritingInv
<1>3. writing' = [kind |-> kind, package |-> package,
        todo |-> Tail(writing.todo)]
  BY <1>1, <1>2
<1>4. /\ Tail(writing.todo) \in Seq(Store!Range(Store!Files(kind)))
      /\ f \in Store!Range(Store!Files(kind))
      /\ \A x \in Store!Range(writing.todo) :
           x = f \/ x \in Store!Range(Tail(writing.todo))
  BY <1>1, <1>2, TodoFacts
<1>5. f \in Store!AllFiles  BY <1>2, <1>4, FilesFacts
<1>6. PICK s \in States : package = Store!ExportPackage(kind, s)
  BY <1>1 DEF StoreInv, WritingInv
<1>7. /\ dir' = [x \in Store!AllFiles |-> IF x = f THEN package[f] ELSE dir[x]]
  BY <1>1, <1>5 DEF StoreInv, DirInv
<1>8. DirInv'
  <2>1. \A x \in Store!AllFiles : dir'[x] = IF x = f THEN package[f] ELSE dir[x]
    BY <1>7
  <2>2. dir' = [x \in Store!AllFiles |-> dir'[x]]  BY <1>7
  <2>3. "manifest.json" \in Store!Range(Store!Files(kind))
          /\ "manifest.json" \in Store!AllFiles
    BY <1>2, FilesFacts
  <2>4. package["manifest.json"] = Store!Manifest(kind, s)
    BY <1>6, <2>3 DEF Store!ExportPackage
  <2>5. dir'["manifest.json"] \in {dir["manifest.json"],
          Store!Manifest(kind, s)}
    BY <2>1, <2>3, <2>4
  <2>6. QED  BY <1>2, <2>2, <2>5 DEF DirInv, StoreInv, Exported
<1>9. \A x \in Store!Range(Store!Files(kind)) :
        x \in Store!Range(Tail(writing.todo)) \/ dir'[x] = package[x]
  <2>1. \A x \in Store!Range(Store!Files(kind)) : x \in Store!AllFiles
    BY <1>2, FilesFacts
  <2>2. \A x \in Store!Range(Store!Files(kind)) :
          x \in Store!Range(writing.todo) \/ dir[x] = package[x]
    BY <1>1 DEF StoreInv, WritingInv
  <2>3. QED  BY <1>4, <1>7, <2>1, <2>2
<1> HIDE DEF f, kind, package
<1>10. WritingInv'
  <2>0. settled' = None  BY <1>1, <1>2
  <2>1. /\ writing'.kind = kind /\ writing'.package = package
        /\ writing'.todo = Tail(writing.todo)
        /\ writing' = [kind |-> writing'.kind, package |-> writing'.package,
                       todo |-> writing'.todo]
    BY <1>3
  <2>2. \E t \in States :
          writing'.package = Store!ExportPackage(writing'.kind, t)
    BY <1>6, <2>1
  <2>3. /\ writing'.todo \in Seq(Store!Range(Store!Files(writing'.kind)))
        /\ \A x \in Store!Range(Store!Files(writing'.kind)) :
             x \in Store!Range(writing'.todo) \/ dir'[x] = writing'.package[x]
    BY <1>4, <1>9, <2>1
  <2>4. QED  BY <1>2, <2>0, <2>1, <2>2, <2>3 DEF WritingInv
<1>11. QED
  BY <1>1, <1>2, <1>8, <1>10 DEF StoreInv, ReadingInv, SettledInv, Exported

\* A package written to its end is whole.
LEMMA EndWriteKeeps == ASSUME StoreInv, Store!EndWrite  PROVE StoreInv'
<1>1. /\ writing # None /\ writing.todo = <<>> /\ writing' = None
      /\ settled' = writing.kind /\ UNCHANGED <<state, dir, reading>>
  BY DEF Store!EndWrite
<1>2. PICK s \in States : writing.package = Store!ExportPackage(writing.kind, s)
  BY <1>1 DEF StoreInv, WritingInv
<1>3. Store!Range(writing.todo) = {}  BY <1>1 DEF Store!Range
<1>4. \A f \in Store!Range(Store!Files(writing.kind)) :
        dir[f] = writing.package[f]
  BY <1>1, <1>3 DEF StoreInv, WritingInv
<1>5. writing.kind \in Store!Kinds /\ Whole(writing.kind, dir)
  BY <1>1, <1>2, <1>4 DEF StoreInv, WritingInv, Whole
<1>6. SettledInv'  BY <1>1, <1>5 DEF SettledInv, Whole
<1>7. QED  BY <1>1, <1>6 DEF StoreInv, DirInv, WritingInv, ReadingInv, Exported

\* A write that stops, in a file or between two, keeps the invariant of the
\* store.
LEMMA CrashKeeps == ASSUME StoreInv, Store!Crash  PROVE StoreInv'
<1> DEFINE f == Head(writing.todo)
<1>1. /\ writing # None /\ writing.todo # <<>> /\ writing' = None
      /\ UNCHANGED <<state, settled, reading>>
      /\ dir' = dir \/ dir' = [dir EXCEPT ![f] = Torn]
  BY DEF Store!Crash
<1>2. settled = None
        /\ writing.todo \in Seq(Store!Range(Store!Files(writing.kind)))
  BY <1>1 DEF StoreInv, WritingInv
<1>3. DirInv'
  <2>1. CASE dir' = dir  BY <2>1 DEF StoreInv, DirInv, Exported
  <2>2. CASE dir' = [dir EXCEPT ![f] = Torn]
    <3>1. dir' = [x \in Store!AllFiles |-> IF x = f THEN Torn ELSE dir[x]]
      BY <2>2 DEF StoreInv, DirInv
    <3>2. dir'["manifest.json"] \in {dir["manifest.json"], Torn}
      BY <3>1, FilesFacts
    <3>3. dir' = [x \in Store!AllFiles |-> dir'[x]]  BY <3>1
    <3>4. QED  BY <3>2, <3>3 DEF StoreInv, DirInv, Exported
  <2>3. QED  BY <1>1, <2>1, <2>2
<1>4. QED
  BY <1>1, <1>2, <1>3 DEF StoreInv, WritingInv, ReadingInv, SettledInv, Exported

\* Reading keeps the invariant of the store.
LEMMA ReadsKeep ==
  ASSUME StoreInv,
         \/ Store!BeginRead \/ Store!EndRead
         \/ \E f \in Store!AllFiles : Store!ReadFile(f)
  PROVE  StoreInv'
<1>1. UNCHANGED <<state, dir, writing, settled>>
  BY DEF Store!BeginRead, Store!EndRead, Store!ReadFile
<1>2. ReadingInv'
  <2>1. CASE Store!BeginRead
    BY <2>1, FilesFacts DEF Store!BeginRead, ReadingInv, Exported
  <2>2. CASE Store!EndRead  BY <2>2 DEF Store!EndRead, ReadingInv
  <2>3. ASSUME NEW f \in Store!AllFiles, Store!ReadFile(f)  PROVE ReadingInv'
    <3>1. /\ reading # None
          /\ reading = [todo |-> reading.todo, files |-> reading.files]
          /\ reading.files = [x \in Store!AllFiles |-> reading.files[x]]
          /\ Exported(reading.files["manifest.json"])
               /\ Exported(dir["manifest.json"])
      BY <2>3 DEF StoreInv, ReadingInv, DirInv, Store!ReadFile
    <3> DEFINE files == [x \in Store!AllFiles |->
                           IF x = f THEN dir[f] ELSE reading.files[x]]
    <3>2. reading' = [todo |-> reading.todo \ {f}, files |-> files]
      BY <2>3, <3>1 DEF Store!ReadFile
    <3>3. files["manifest.json"] \in {dir["manifest.json"],
            reading.files["manifest.json"]}
      BY FilesFacts
    <3>4. Exported(files["manifest.json"])  BY <3>1, <3>3
    <3>5. files = [x \in Store!AllFiles |-> files[x]]  OBVIOUS
    <3> HIDE DEF files
    <3>6. QED  BY <3>2, <3>4, <3>5 DEF ReadingInv, Exported
  <2>4. QED  BY <2>1, <2>2, <2>3
<1>3. QED
  BY <1>1, <1>2 DEF StoreInv, DirInv, WritingInv, SettledInv, Exported, Whole

\* Every manifest about was made by an export, and what is being written is in
\* the directory but for what is still to come.
THEOREM StoreInvariance == Store!Spec => []StoreInv
<1>1. Store!Init => StoreInv  BY StoreInit
<1>2. StoreInv /\ [Store!Next]_(Store!vars) => StoreInv'
  <2> SUFFICES ASSUME StoreInv, [Store!Next]_(Store!vars)  PROVE StoreInv'
    OBVIOUS
  <2>1. CASE Store!Edit  BY <2>1, EditKeeps
  <2>2. CASE \E kind \in Store!Kinds : Store!BeginWrite(kind)
    BY <2>2, BeginWriteKeeps
  <2>3. CASE Store!WriteFile  BY <2>3, WriteFileKeeps
  <2>4. CASE Store!EndWrite  BY <2>4, EndWriteKeeps
  <2>5. CASE Store!Crash  BY <2>5, CrashKeeps
  <2>6. CASE \/ Store!BeginRead \/ Store!EndRead
             \/ \E f \in Store!AllFiles : Store!ReadFile(f)
    BY <2>6, ReadsKeep
  <2>7. CASE UNCHANGED Store!vars
    BY <2>7
       DEF Store!vars, StoreInv, DirInv, WritingInv, ReadingInv, SettledInv,
           Exported, Whole
  <2>8. QED  BY <2>1, <2>2, <2>3, <2>4, <2>5, <2>6, <2>7 DEF Store!Next
<1>3. QED  BY <1>1, <1>2, PTL DEF Store!Spec

\* Files that are imported together are those of one export.
LEMMA ReadingIsOneExport == StoreInv => Store!ImportedIsOneExport
<1> SUFFICES ASSUME StoreInv, Store!HasRead, NEW kind \in Store!Kinds,
                      Store!Imports(kind, reading.files),
                    NEW f \in Store!RequiredFiles(kind)
             PROVE  reading.files[f]
                      = Store!Content(kind, f,
                        reading.files["manifest.json"].state)
  BY DEF Store!ImportedIsOneExport
<1> DEFINE manifest == reading.files["manifest.json"]
<1>1. Exported(manifest)  BY DEF StoreInv, ReadingInv, Store!HasRead
<1>2. manifest \notin {None, Torn} /\ manifest.kind = kind
      /\ Store!FilesAreWhole(reading.files, manifest)
  BY DEF Store!Imports
<1>3. PICK k \in Store!Kinds, s \in States : manifest = Store!Manifest(k, s)
  BY <1>1, <1>2 DEF Exported
<1>4. k = kind /\ manifest.state = s
      /\ manifest.fileReceipts
           = [x \in Store!RequiredFiles(kind) |-> Store!Content(kind, x, s)]
  BY <1>2, <1>3 DEF Store!Manifest
<1>5. reading.files[f] = manifest.fileReceipts[f]
  BY <1>2 DEF Store!FilesAreWhole
<1>6. QED  BY <1>4, <1>5

\* A package that is imported is one export, whole, whatever was written,
\* cut off and read in between.
THEOREM StoreOneExport == Store!Spec => []Store!ImportedIsOneExport
BY StoreInvariance, ReadingIsOneExport, PTL

\* A whole package can be imported.
LEMMA WholeImports ==
  ASSUME ExportsAreFiles, NEW kind \in Store!Kinds, Whole(kind, dir)
  PROVE  Store!Imports(kind, dir)
<1>1. PICK s \in States : \A f \in Store!Range(Store!Files(kind)) :
        dir[f] = Store!ExportPackage(kind, s)[f]
  BY DEF Whole
<1>2. "manifest.json" \in Store!Range(Store!Files(kind))  BY FilesFacts
<1>3. dir["manifest.json"] = Store!Manifest(kind, s)
  BY <1>1, <1>2 DEF Store!ExportPackage
<1>4. \A f \in Store!RequiredFiles(kind) : dir[f] = Store!Content(kind, f, s)
  BY <1>1 DEF Store!ExportPackage, Store!RequiredFiles
<1> DEFINE manifest == Store!Manifest(kind, s)
<1>5. manifest.kind = kind /\ manifest.state = s
      /\ manifest.fileReceipts
           = [f \in Store!RequiredFiles(kind) |-> Store!Content(kind, f, s)]
  BY DEF Store!Manifest
<1>6. manifest \notin {None, Torn}
      /\ \A f \in Store!RequiredFiles(kind) : Store!Content(kind, f, s) # None
  BY DEF ExportsAreFiles
<1> HIDE DEF manifest
<1>7. Store!FilesAreWhole(dir, manifest)
  BY <1>4, <1>5, <1>6 DEF Store!FilesAreWhole
<1>8. CASE kind = "composer"
  <2>1. {"receipts", "artifacts"} \subseteq Store!RequiredFiles(kind)
    <3>1. Store!Files(kind)[5] = "receipts"
            /\ Store!Files(kind)[2] = "artifacts"
          /\ DOMAIN Store!Files(kind) = 1 .. 5
      BY <1>8 DEF Store!Files
    <3>2. QED  BY <3>1 DEF Store!RequiredFiles, Store!Range
  <2>2. dir["receipts"] = <<kind, "receipts", Store!Source(s)>>
        /\ dir["artifacts"] = <<kind, "artifacts", Store!Source(s)>>
    BY <1>4, <1>8, <2>1 DEF Store!Content
  <2>3. Store!ComposerFilesAgree(dir, manifest)
    BY <1>5, <2>2 DEF Store!ComposerFilesAgree
  <2>4. QED  BY <1>3, <1>5, <1>6, <1>7, <1>8, <2>3 DEF Store!Imports, manifest
<1>9. CASE kind = "stream"
  <2>1. {"receipts", "declaration", "overlays"}
          \subseteq Store!RequiredFiles(kind)
    <3>1. Store!Files(kind)[5] = "receipts"
            /\ Store!Files(kind)[2] = "declaration"
          /\ Store!Files(kind)[4] = "overlays"
               /\ DOMAIN Store!Files(kind) = 1 .. 5
      BY <1>9 DEF Store!Files
    <3>2. QED  BY <3>1 DEF Store!RequiredFiles, Store!Range
  <2>2. dir["receipts"] = <<kind, "receipts", s>>
        /\ dir["overlays"] = <<kind, "overlays", s>>
        /\ dir["declaration"] = <<kind, "declaration", Store!Source(s)>>
    BY <1>4, <1>9, <2>1 DEF Store!Content
  <2>3. s = [source |-> s.source, mode |-> s.mode]  BY DEF States
  <2>4. Store!StreamFilesAgree(dir, manifest)
    BY <1>5, <2>2, <2>3 DEF Store!StreamFilesAgree, Store!Source
  <2>5. QED  BY <1>3, <1>5, <1>6, <1>7, <1>9, <2>4 DEF Store!Imports, manifest
<1>10. QED  BY <1>8, <1>9 DEF Store!Kinds

\* What is settled is whole.
LEMMA SettledImports ==
  ASSUME ExportsAreFiles  PROVE StoreInv => Store!SettledCanBeImported
BY WholeImports DEF StoreInv, SettledInv, Store!SettledCanBeImported

\* What was written to its end, and left alone, can be imported, over the
\* remains of whatever other packages it was written.
THEOREM StoreSettled ==
  ASSUME ExportsAreFiles  PROVE Store!Spec => []Store!SettledCanBeImported
<1>1. StoreInv => Store!SettledCanBeImported  BY SettledImports
<1>2. QED  BY <1>1, StoreInvariance, PTL

\* A workbench is a directory of packages, and whatever else it does.
LEMMA StoreSpec == Spec => Store!Spec
<1>1. Init => Store!Init  BY DEF Init
<1>2. [Next]_vars => [Store!Next]_(Store!vars)
  BY DEF Next, vars, storeVars, Store!vars
<1>3. QED  BY <1>1, <1>2, PTL DEF Spec, Store!Spec

\* Types of the state of the packages in a directory.
LEMMA StoreTypes ==
  ASSUME MaxEdits \in Nat  PROVE Store!Spec => []Store!TypeOK
<1> DEFINE Edited == state \in [source : 0 .. MaxEdits, mode : {0, 1}]
           Reads == reading # None => reading.todo \subseteq Store!AllFiles
<1>1. Store!Init => Edited /\ Reads
  BY DEF Store!Init
<1>2. StoreInv /\ Edited /\ Reads /\ [Store!Next]_(Store!vars)
        => Edited' /\ Reads'
  <2> SUFFICES ASSUME StoreInv, Edited, Reads, [Store!Next]_(Store!vars)
               PROVE  Edited' /\ Reads'
    OBVIOUS
  <2>1. CASE Store!Edit  BY <2>1 DEF Store!Edit
  <2>2. CASE Store!BeginRead  BY <2>2 DEF Store!BeginRead
  <2>3. ASSUME NEW f \in Store!AllFiles, Store!ReadFile(f)
        PROVE  Edited' /\ Reads'
    BY <2>3 DEF Store!ReadFile, StoreInv, ReadingInv
  <2>4. CASE Store!EndRead  BY <2>4 DEF Store!EndRead
  <2>5. CASE UNCHANGED <<state, reading>>  BY <2>5
  <2>6. QED
    BY <2>1, <2>2, <2>3, <2>4, <2>5
       DEF Store!Next, Store!vars, Store!BeginWrite, Store!WriteFile,
           Store!EndWrite, Store!Crash
<1>3. StoreInv /\ Edited /\ Reads => Store!TypeOK
  <2> SUFFICES ASSUME StoreInv, Edited, Reads  PROVE Store!TypeOK
    OBVIOUS
  <2>1. DOMAIN dir = Store!AllFiles  BY DEF StoreInv, DirInv
  <2>2. ASSUME writing # None
        PROVE  Store!Range(writing.todo)
                 \subseteq Store!Range(Store!Files(writing.kind))
    <3>1. writing.todo \in Seq(Store!Range(Store!Files(writing.kind)))
      BY <2>2 DEF StoreInv, WritingInv
    <3>2. QED  BY <3>1 DEF Store!Range
  <2>3. settled \in Store!Kinds \cup {None}  BY DEF StoreInv, SettledInv
  <2>4. QED  BY <2>1, <2>2, <2>3 DEF Store!TypeOK
<1> HIDE DEF Edited, Reads
<1>4. QED  BY <1>1, <1>2, <1>3, StoreInvariance, PTL DEF Store!Spec

-----------------------------------------------------------------------------
(* The index of raw bytes. *)

\* A larger factor makes no smaller product.
LEMMA TimesGrows ==
  ASSUME NEW a \in Int, NEW b \in Int, NEW B \in Nat, a <= b
  PROVE  a * B <= b * B
OBVIOUS

\* A quotient is where the multiples of the divisor pass.
LEMMA QuotientFacts ==
  ASSUME NEW B \in Nat \ {0}, NEW x \in Nat
  PROVE  /\ x \div B \in Nat /\ (x \div B) * B \in Nat
         /\ (x \div B) * B <= x /\ x < (x \div B) * B + B
OBVIOUS

\* The chunk of a place is the one that starts at it or before and ends behind.
LEMMA QuotientIs ==
  ASSUME NEW B \in Nat \ {0}, NEW x \in Nat, NEW k \in Nat
  PROVE  x \div B = k <=> k * B <= x /\ x < k * B + B
<1> DEFINE q == x \div B
<1>1. /\ q \in Nat /\ q * B \in Nat /\ q * B <= x /\ x < q * B + B
  BY QuotientFacts
<1> HIDE DEF q
<1>2. k * B \in Nat /\ (k + 1) * B = k * B + B /\ (q + 1) * B = q * B + B
  BY <1>1
<1>3. ASSUME k * B <= x, x < k * B + B  PROVE q = k
  <2>1. CASE q < k
    <3>1. (q + 1) * B <= k * B  BY <1>1, <2>1, TimesGrows
    <3>2. QED  BY <1>1, <1>2, <1>3, <3>1
  <2>2. CASE k < q
    <3>1. (k + 1) * B <= q * B  BY <1>1, <2>2, TimesGrows
    <3>2. QED  BY <1>1, <1>2, <1>3, <3>1
  <2>3. QED  BY <1>1, <2>1, <2>2
<1>4. QED  BY <1>1, <1>3 DEF q

\* The number of chunks of so many bytes.
Count(length) == (length + BlockSize - 1) \div BlockSize

\* Every byte is in a chunk, and every chunk begins at a byte.
LEMMA CountFacts ==
  ASSUME BlockSize \in Nat \ {0}, NEW length \in Nat
  PROVE  /\ Count(length) \in Nat
         /\ \A k \in 1 .. Count(length) :
              (k - 1) * BlockSize \in Nat /\ (k - 1) * BlockSize < length
         /\ \A i \in 1 .. length :
              (i - 1) \div BlockSize + 1 \in 1 .. Count(length)
<1> DEFINE B == BlockSize
           n == Count(length)
<1>1. B \in Nat \ {0}  OBVIOUS
<1> HIDE DEF B
<1>2. length + B - 1 \in Nat  BY <1>1
<1>3. n \in Nat /\ n * B \in Nat
      /\ n * B <= length + B - 1 /\ length + B - 1 < n * B + B
  BY <1>1, <1>2, QuotientFacts DEF Count, B
<1> HIDE DEF n
<1>4. ASSUME NEW k \in 1 .. n
      PROVE  (k - 1) * B \in Nat /\ (k - 1) * B < length
  <2>1. k \in Nat /\ k - 1 \in Nat /\ k <= n  BY <1>3
  <2>2. (k - 1) * B \in Nat /\ k * B = (k - 1) * B + B  BY <1>1, <2>1
  <2>3. k * B <= n * B  BY <1>1, <1>3, <2>1, TimesGrows
  <2>4. QED  BY <1>1, <1>3, <2>2, <2>3
<1>5. ASSUME NEW i \in 1 .. length  PROVE (i - 1) \div B + 1 \in 1 .. n
  <2> DEFINE q == (i - 1) \div B
  <2>1. i - 1 \in Nat  OBVIOUS
  <2>2. q \in Nat /\ q * B \in Nat /\ q * B <= i - 1
    BY <1>1, <2>1, QuotientFacts
  <2> HIDE DEF q
  <2>3. ASSUME n <= q  PROVE FALSE
    <3>1. n * B <= q * B  BY <1>1, <1>3, <2>2, <2>3, TimesGrows
    <3>2. QED  BY <1>1, <1>3, <2>2, <3>1
  <2>4. q + 1 \in 1 .. n  BY <1>3, <2>2, <2>3
  <2>5. QED  BY <2>4 DEF q
<1>6. QED  BY <1>3, <1>4, <1>5 DEF n, B

\* A chunk of raw bytes has those whose places it is the quotient of.
LEMMA RawChunkFacts ==
  ASSUME BlockSize \in Nat \ {0}, NEW s \in Seq(Nat),
         NEW k \in 1 .. Count(Len(s))
  PROVE  /\ DOMAIN Blocks!RawChunks(s) = 1 .. Count(Len(s))
         /\ Blocks!RawChunks(s)[k] \in Seq(Nat)
         /\ \E low \in Nat, length \in Nat :
              /\ low = (k - 1) * BlockSize
              /\ length = (IF k * BlockSize <= Len(s) THEN k * BlockSize
                           ELSE Len(s)) - low
              /\ Len(Blocks!RawChunks(s)[k]) = length
              /\ \A m \in 1 .. length :
                   /\ Blocks!RawChunks(s)[k][m] = s[low + m]
                   /\ low + m \in 1 .. Len(s)
              /\ \A i \in 1 .. Len(s) :
                   (i - 1) \div BlockSize = k - 1
                     <=> i - low \in 1 .. length
<1> DEFINE B == BlockSize
           N == Len(s)
           low == (k - 1) * B
           high == Blocks!Min({k * B, N})
           chunk == SubSeq(s, low + 1, high)
           length == high - low
<1>1. B \in Nat \ {0} /\ N \in Nat  OBVIOUS
<1>2. k \in Nat /\ k - 1 \in Nat  BY CountFacts
<1>3. low \in Nat /\ low < N  BY CountFacts
<1>4. k * B = low + B  BY <1>1, <1>2
<1>5. high = IF k * B <= N THEN k * B ELSE N
  <2> DEFINE end == k * B
  <2>1. end \in Int /\ N \in Int  BY <1>1, <1>3, <1>4
  <2>2. Streams!Min({end, N}) = IF end <= N THEN end ELSE N
    <3> HIDE DEF end, N
    <3>1. QED  BY <2>1, MinOfTwo
  <2>3. high = Streams!Min({end, N})  BY DEF Blocks!Min, Streams!Min
  <2>4. QED  BY <2>2, <2>3
<1>6. /\ DOMAIN Blocks!RawChunks(s) = 1 .. Count(N)
      /\ Blocks!RawChunks(s)[k] = chunk
  BY DEF Blocks!RawChunks, Count
<1> HIDE DEF B, low, high
<1>7. high \in Nat /\ low + 1 <= high /\ high <= N /\ length \in Nat
  BY <1>1, <1>3, <1>4, <1>5
<1>8. /\ chunk \in Seq(Nat) /\ Len(chunk) = length
      /\ \A m \in 1 .. length : chunk[m] = s[low + m]
  <2>1. \A i \in low + 1 .. high : s[i] \in Nat  BY <1>3, <1>7
  <2>2. low + 1 \in Int /\ high \in Int  BY <1>3, <1>7
  <2>3. /\ chunk \in Seq(Nat)
        /\ Len(chunk) = IF low + 1 <= high THEN high - (low + 1) + 1 ELSE 0
        /\ \A m \in 1 .. high - (low + 1) + 1 : chunk[m] = s[(low + 1) + m - 1]
    BY <2>1, <2>2, SubSeqProperties
  <2>4. high - (low + 1) + 1 = length  BY <1>3, <1>7
  <2>5. \A m \in 1 .. length : (low + 1) + m - 1 = low + m  BY <1>3, <1>7
  <2> HIDE DEF chunk, length
  <2>6. QED  BY <1>7, <2>3, <2>4, <2>5
<1> HIDE DEF chunk
<1>9. \A m \in 1 .. length : low + m \in 1 .. N  BY <1>1, <1>3, <1>7
<1>10. ASSUME NEW i \in 1 .. N
       PROVE  (i - 1) \div B = k - 1 <=> i - low \in 1 .. length
  <2>1. i - 1 \in Nat  BY <1>1
  <2>2. (i - 1) \div B = k - 1 <=> low <= i - 1 /\ i - 1 < low + B
    BY <1>1, <1>2, <2>1, QuotientIs DEF low
  <2>3. low <= i - 1 /\ i - 1 < low + B <=> i - low \in 1 .. length
    BY <1>1, <1>3, <1>4, <1>5, <1>7
  <2>4. QED  BY <2>2, <2>3
<1> HIDE DEF N
<1>11. length = (IF k * B <= N THEN k * B ELSE N) - low  BY <1>5
<1> HIDE DEF length
<1>12. QED
  BY <1>3, <1>6, <1>7, <1>8, <1>9, <1>10, <1>11 DEF B, N, low

\* The receipts of two chunks in one place are the same if the chunks are.
LEMMA IndexTells ==
  ASSUME BlockSize \in Nat \ {0}, NEW s \in Seq(Nat), NEW t \in Seq(Nat),
         Len(s) = Len(t), NEW k \in 1 .. Count(Len(s))
  PROVE  /\ DOMAIN Blocks!ChunkIndex(s) = 1 .. Count(Len(s))
         /\ Blocks!ChunkIndex(t)[k] # Blocks!ChunkIndex(s)[k]
              <=> \E i \in DOMAIN s :
                    t[i] # s[i] /\ (i - 1) \div BlockSize = k - 1
<1> DEFINE N == Len(s)
           c == Blocks!RawChunks(s)[k]
           d == Blocks!RawChunks(t)[k]
<1>1. N \in Nat /\ DOMAIN s = 1 .. N /\ DOMAIN t = 1 .. N  OBVIOUS
<1>2. k \in 1 .. Count(Len(t)) /\ Count(Len(s)) = Count(Len(t))  OBVIOUS
<1>3. PICK low \in Nat, length \in Nat :
        /\ low = (k - 1) * BlockSize
        /\ length = (IF k * BlockSize <= N THEN k * BlockSize ELSE N) - low
        /\ Len(c) = length
        /\ \A m \in 1 .. length : c[m] = s[low + m] /\ low + m \in 1 .. N
        /\ \A i \in 1 .. N :
             (i - 1) \div BlockSize = k - 1 <=> i - low \in 1 .. length
  BY RawChunkFacts
<1>4. /\ Len(d) = length
      /\ \A m \in 1 .. length : d[m] = t[low + m]
  <2>1. PICK low2 \in Nat, length2 \in Nat :
          /\ low2 = (k - 1) * BlockSize
          /\ length2 = (IF k * BlockSize <= Len(t) THEN k * BlockSize
                        ELSE Len(t)) - low2
          /\ Len(d) = length2
          /\ \A m \in 1 .. length2 :
               d[m] = t[low2 + m] /\ low2 + m \in 1 .. Len(t)
          /\ \A i \in 1 .. Len(t) :
               (i - 1) \div BlockSize = k - 1 <=> i - low2 \in 1 .. length2
    BY <1>2, RawChunkFacts
  <2>2. low2 = low  BY <1>3, <2>1
  <2>3. length2 = length  BY <1>3, <2>1, <2>2
  <2>4. QED  BY <2>1, <2>2, <2>3
<1>5. c \in Seq(Nat) /\ d \in Seq(Nat)  BY <1>2, RawChunkFacts
<1>6. /\ DOMAIN Blocks!RawChunks(s) = 1 .. Count(N)
      /\ DOMAIN Blocks!RawChunks(t) = 1 .. Count(N)
  BY <1>2, RawChunkFacts
<1> DEFINE Entry(b) == [size |-> Len(b), sparse |-> Blocks!IsSparse(b),
                        contentHash |-> IF Blocks!IsSparse(b) THEN None ELSE b]
<1>7. /\ DOMAIN Blocks!ChunkIndex(s) = 1 .. Count(N)
      /\ Blocks!ChunkIndex(s)[k] = Entry(c)
      /\ Blocks!ChunkIndex(t)[k] = Entry(d)
  BY <1>6 DEF Blocks!ChunkIndex
<1> HIDE DEF c, d
<1>8. DOMAIN c = 1 .. length /\ DOMAIN d = 1 .. length  BY <1>3, <1>4, <1>5
<1>9. Entry(c) = Entry(d) <=> c = d
  <2>1. ASSUME Entry(c) = Entry(d)  PROVE c = d
    <3>1. /\ Entry(c).sparse = Entry(d).sparse
          /\ Entry(c).contentHash = Entry(d).contentHash
      BY <2>1
    <3>2. Blocks!IsSparse(c) <=> Blocks!IsSparse(d)  BY <3>1
    <3>3. CASE Blocks!IsSparse(c)
      <4>1. \A m \in 1 .. length : c[m] = 0 /\ d[m] = 0
        BY <1>8, <3>2, <3>3 DEF Blocks!IsSparse
      <4>2. Len(c) = Len(d) /\ \A m \in 1 .. Len(c) : c[m] = d[m]
        BY <1>3, <1>4, <4>1
      <4>3. QED  BY <1>5, <4>2, SeqEqual
    <3>4. CASE ~Blocks!IsSparse(c)  BY <3>1, <3>2, <3>4
    <3>5. QED  BY <3>3, <3>4
  <2>2. QED  BY <2>1
<1> HIDE DEF Entry
<1>10. c = d <=> \A m \in 1 .. length : s[low + m] = t[low + m]
  <2>1. ASSUME \A m \in 1 .. length : s[low + m] = t[low + m]  PROVE c = d
    <3>1. \A m \in 1 .. length : c[m] = d[m]  BY <1>3, <1>4, <2>1
    <3>2. QED  BY <1>3, <1>4, <1>5, <3>1, SeqEqual
  <2>2. ASSUME c = d, NEW m \in 1 .. length
        PROVE  s[low + m] = t[low + m]
    <3>1. c[m] = s[low + m] /\ d[m] = t[low + m]  BY <1>3, <1>4
    <3>2. QED  BY <2>2, <3>1
  <2>3. QED  BY <2>1, <2>2
<1>11. (\A m \in 1 .. length : s[low + m] = t[low + m])
        <=> \A i \in 1 .. N : (i - 1) \div BlockSize = k - 1 => s[i] = t[i]
  <2>1. ASSUME \A m \in 1 .. length : s[low + m] = t[low + m],
               NEW i \in 1 .. N, (i - 1) \div BlockSize = k - 1
        PROVE  s[i] = t[i]
    <3>1. i - low \in 1 .. length  BY <1>3, <2>1
    <3>2. low + (i - low) = i  BY <1>1, <1>3
    <3>3. s[low + (i - low)] = t[low + (i - low)]  BY <2>1, <3>1
    <3>4. QED  BY <3>2, <3>3
  <2>2. ASSUME \A i \in 1 .. N :
                 (i - 1) \div BlockSize = k - 1 => s[i] = t[i],
               NEW m \in 1 .. length
        PROVE  s[low + m] = t[low + m]
    <3> DEFINE i == low + m
    <3>1. i \in 1 .. N /\ i - low = m  BY <1>3
    <3> HIDE DEF i
    <3>2. (i - 1) \div BlockSize = k - 1  BY <1>3, <3>1
    <3>3. s[i] = t[i]  BY <2>2, <3>1, <3>2
    <3>4. QED  BY <3>3 DEF i
  <2>3. QED  BY <2>1, <2>2
<1>12. QED  BY <1>1, <1>7, <1>9, <1>10, <1>11

\* The raw bytes are bytes.
RawInv == raw \in Seq(Nat)

\* A changed byte changes the receipt of its chunk and of the index, and no
\* other chunk's.
THEOREM BlockDamage ==
  ASSUME BlockSize \in Nat \ {0}  PROVE Blocks!Spec => Blocks!DamageIsLocated
<1>1. Blocks!Init => RawInv  BY DEF Blocks!Init, RawInv
<1>2. RawInv /\ [Blocks!Next]_(Blocks!vars) => RawInv'
  <2> SUFFICES ASSUME RawInv, [Blocks!Next]_(Blocks!vars)  PROVE RawInv'
    OBVIOUS
  <2>1. ASSUME NEW byte \in {0, 1, 255}, Blocks!GrowRaw(byte)  PROVE RawInv'
    BY <2>1 DEF Blocks!GrowRaw, RawInv
  <2>2. ASSUME NEW byte \in {0, 1, 255}, NEW i \in DOMAIN raw,
               Blocks!ChangeRaw(i, byte)
        PROVE  RawInv'
    BY <2>2 DEF Blocks!ChangeRaw, RawInv
  <2>3. CASE UNCHANGED raw  BY <2>3 DEF RawInv
  <2>4. QED
    BY <2>1, <2>2, <2>3
       DEF Blocks!Next, Blocks!GiveChunk, Blocks!Declare, Blocks!Export,
           Blocks!Import, Blocks!vars
<1> DEFINE Located ==
      (Len(raw') = Len(raw) /\ raw' # raw) =>
        /\ Blocks!IndexReceipt(raw') # Blocks!IndexReceipt(raw)
        /\ \A k \in DOMAIN Blocks!ChunkIndex(raw) :
             Blocks!ChunkIndex(raw')[k] # Blocks!ChunkIndex(raw)[k]
               <=> \E i \in DOMAIN raw :
                     raw'[i] # raw[i] /\ (i - 1) \div BlockSize = k - 1
<1>3. RawInv /\ RawInv' => Located
  <2> SUFFICES ASSUME RawInv, RawInv', Len(raw') = Len(raw), raw' # raw
               PROVE  /\ Blocks!IndexReceipt(raw') # Blocks!IndexReceipt(raw)
                      /\ \A k \in DOMAIN Blocks!ChunkIndex(raw) :
                           Blocks!ChunkIndex(raw')[k] # Blocks!ChunkIndex(raw)[k]
                             <=> \E i \in DOMAIN raw :
                                   /\ raw'[i] # raw[i]
                                   /\ (i - 1) \div BlockSize = k - 1
    OBVIOUS
  <2>1. raw \in Seq(Nat) /\ raw' \in Seq(Nat)  BY DEF RawInv
  <2>2. PICK i \in 1 .. Len(raw) : raw'[i] # raw[i]  BY <2>1, SeqEqual
  <2>3. (i - 1) \div BlockSize + 1 \in 1 .. Count(Len(raw))
    <3>1. Len(raw) \in Nat  BY <2>1
    <3>2. QED  BY <3>1, CountFacts
  <2>4. ASSUME NEW k \in 1 .. Count(Len(raw))
        PROVE  Blocks!ChunkIndex(raw')[k] # Blocks!ChunkIndex(raw)[k]
                 <=> \E j \in DOMAIN raw :
                       /\ raw'[j] # raw[j]
                       /\ (j - 1) \div BlockSize = k - 1
    BY <2>1, IndexTells
  <2>5. DOMAIN Blocks!ChunkIndex(raw) = 1 .. Count(Len(raw))
    BY <2>1, <2>3, IndexTells
  <2>6. Blocks!IndexReceipt(raw') # Blocks!IndexReceipt(raw)
    <3> DEFINE k == (i - 1) \div BlockSize + 1
    <3>1. k \in 1 .. Count(Len(raw)) /\ i \in DOMAIN raw  BY <2>1, <2>3
    <3>2. (i - 1) \div BlockSize = k - 1
      <4>1. i - 1 \in Nat  OBVIOUS
      <4>2. (i - 1) \div BlockSize \in Nat  BY <4>1, QuotientFacts
      <4>3. QED  BY <4>2
    <3> HIDE DEF k
    <3>3. Blocks!ChunkIndex(raw')[k] # Blocks!ChunkIndex(raw)[k]
      BY <2>2, <2>4, <3>1, <3>2
    <3>4. Blocks!ChunkIndex(raw') # Blocks!ChunkIndex(raw)  BY <3>3
    <3>5. QED  BY <3>4 DEF Blocks!IndexReceipt
  <2>7. QED  BY <2>4, <2>5, <2>6
<1> HIDE DEF Located
<1>4. RawInv /\ RawInv' => [Located]_raw  BY <1>3
<1>5. Blocks!DamageIsLocated <=> [][Located]_raw
  BY DEF Blocks!DamageIsLocated, Located
<1>6. QED  BY <1>1, <1>2, <1>4, <1>5, PTL DEF Blocks!Spec

-----------------------------------------------------------------------------
(* Compositions. *)

\* The bundles there are to offer, rewritten ones among them.
Built(b) ==
  /\ b = [of |-> b.of, signatures |-> b.signatures, status |-> b.status,
          receipt |-> b.receipt]
  /\ b.signatures # <<>> =>
       b.receipt
         = Composition!TrustReceipt(b.of, b.signatures,
           Composition!ReviewStatus(b.signatures))

GivenInv == trust # None => Built(trust)

SentInv ==
  \A box \in exported : \E identity, m, given :
    Built(given)
      /\ box = Composition!CompositionBundle(identity, m, given, None)

CompositionInv == GivenInv /\ SentInv

\* None is no trust box and no file of a composition.
NoneIsNothing ==
  /\ \A of, signatures, status, receipt :
       None # [of |-> of, signatures |-> signatures, status |-> status,
         receipt |-> receipt]
  /\ \A identity, m : None # [identity |-> identity, mode |-> m]
  /\ None # "readme"

\* A bundle that is built is built of its own text.
LEMMA BuildIsBuilt ==
  ASSUME NEW of, NEW texts
  PROVE  /\ Built(Composition!BuildTrustBundle(of, texts))
         /\ Built([Composition!BuildTrustBundle(of, texts)
                      EXCEPT !.status = "approved"])
<1> DEFINE signatures == [i \in DOMAIN texts |->
                           Composition!SignerEnvelope(of, texts[i])]
           receipt == Composition!TrustReceipt(of, signatures,
             Composition!ReviewStatus(signatures))
<1>1. Composition!BuildTrustBundle(of, texts)
        = [of |-> of, signatures |-> signatures,
          status |-> Composition!ReviewStatus(signatures),
           receipt |-> receipt]
  BY DEF Composition!BuildTrustBundle
<1> HIDE DEF signatures
<1>2. [Composition!BuildTrustBundle(of, texts) EXCEPT !.status = "approved"]
        = [of |-> of, signatures |-> signatures, status |-> "approved",
          receipt |-> receipt]
  BY <1>1
<1>3. QED  BY <1>1, <1>2 DEF Built

\* A bundle that is offered was built of some text.
LEMMA OfferedIsBuilt == ASSUME NEW b \in Composition!Offered  PROVE Built(b)
<1> DEFINE earlier == IF scene.components = <<>> THEN Composition!EmptyScene
                      ELSE [scene EXCEPT !.components = Composition!Front(@)]
<1>1. \E of, texts :
         \/ b = Composition!BuildTrustBundle(of, texts)
         \/ b = [Composition!BuildTrustBundle(of, texts)
                      EXCEPT !.status = "approved"]
  BY DEF Composition!Offered
<1>2. PICK of, texts : \/ b = Composition!BuildTrustBundle(of, texts)
                       \/ b = [Composition!BuildTrustBundle(of, texts)
                                EXCEPT !.status = "approved"]
  BY <1>1
<1>3. Built(Composition!BuildTrustBundle(of, texts))
      /\ Built([Composition!BuildTrustBundle(of, texts)
                   EXCEPT !.status = "approved"])
  BY BuildIsBuilt
<1>4. QED  BY <1>2, <1>3

\* A report is a box that was built, or tells of none or of an error.
LEMMA ReportIsBuilt ==
  ASSUME NEW of, NEW b, b # None => Built(b)
  PROVE  Built(Composition!ReportTrust(of, b))
<1>1. CASE ~Composition!ValidTrust(of, b)
  BY <1>1 DEF Composition!ReportTrust, Built
<1>2. CASE Composition!ValidTrust(of, b) /\ b = None
  BY <1>2
     DEF Composition!ReportTrust, Composition!NormalizedTrust,
         Composition!Untrusted, Built
<1>3. CASE Composition!ValidTrust(of, b) /\ b # None /\ b.signatures = <<>>
  <2>1. Composition!ReportTrust(of, b) = [b EXCEPT !.status = "unsigned",
                                       !.receipt =
                                         Composition!TrustReceipt(of, <<>>,
                                               "unsigned")]
    BY <1>3 DEF Composition!ReportTrust, Composition!NormalizedTrust
  <2>2. b = [of |-> b.of, signatures |-> b.signatures, status |-> b.status,
             receipt |-> b.receipt]
    BY <1>3 DEF Built
  <2>3. Composition!ReportTrust(of, b)
          = [of |-> b.of, signatures |-> <<>>, status |-> "unsigned",
             receipt |-> Composition!TrustReceipt(of, <<>>, "unsigned")]
    BY <1>3, <2>1, <2>2
  <2>4. QED  BY <2>3 DEF Built
<1>4. CASE Composition!ValidTrust(of, b) /\ b # None /\ b.signatures # <<>>
  BY <1>4 DEF Composition!ReportTrust, Composition!NormalizedTrust
<1>5. QED  BY <1>1, <1>2, <1>3, <1>4

\* What stands and is told as approved was approved by a signer.
LEMMA ReportIsSigned ==
  ASSUME NEW of, NEW b, b # None => Built(b)
  PROVE  Composition!ApprovedBySomeone(of, Composition!ReportTrust(of, b))
<1> SUFFICES ASSUME Composition!ReportTrust(of, b).status = "approved"
             PROVE  \E record \in
                       Composition!Range(Composition!ReportTrust(of,
                         b).signatures) :
                      record.status = "approved" /\ record.of = of
  BY DEF Composition!ApprovedBySomeone
<1>1. Composition!ValidTrust(of, b)  BY DEF Composition!ReportTrust
<1>2. Composition!ReportTrust(of, b) = Composition!NormalizedTrust(of, b)
  BY <1>1 DEF Composition!ReportTrust
<1>3. b # None  BY <1>2 DEF Composition!NormalizedTrust, Composition!Untrusted
<1>4. Built(b)  BY <1>3
<1>5. b.signatures # <<>>
  <2>1. SUFFICES ASSUME b.signatures = <<>>  PROVE FALSE
    OBVIOUS
  <2>2. Composition!ReportTrust(of, b) = [b EXCEPT !.status = "unsigned",
                                       !.receipt =
                                         Composition!TrustReceipt(of, <<>>,
                                               "unsigned")]
    BY <1>2, <1>3, <2>1 DEF Composition!NormalizedTrust
  <2>3. b = [of |-> b.of, signatures |-> b.signatures, status |-> b.status,
             receipt |-> b.receipt]
    BY <1>4 DEF Built
  <2>4. Composition!ReportTrust(of, b).status = "unsigned"  BY <2>2, <2>3
  <2>5. QED  BY <2>4
<1>6. Composition!ReportTrust(of, b) = b
  BY <1>2, <1>3, <1>5 DEF Composition!NormalizedTrust
<1>7. /\ b.receipt = Composition!TrustReceipt(of, b.signatures, "approved")
      /\ b.receipt
           = Composition!TrustReceipt(b.of, b.signatures,
             Composition!ReviewStatus(b.signatures))
  BY <1>1, <1>3, <1>4, <1>5, <1>6 DEF Composition!ValidTrust, Built
<1>8. Composition!ReviewStatus(b.signatures) = "approved"
  BY <1>7 DEF Composition!TrustReceipt
<1>9. PICK record \in Composition!Range(b.signatures) :
        record.status = "approved"
  BY <1>5, <1>8 DEF Composition!ReviewStatus
<1>10. record.of = of
  BY <1>1, <1>3, <1>9 DEF Composition!ValidTrust, Composition!VerifyTrustRecord
<1>11. QED  BY <1>6, <1>9, <1>10

\* The invariant of the composition holds at first.
LEMMA CompositionInit == Composition!Init => CompositionInv
BY DEF Composition!Init, CompositionInv, GivenInv, SentInv

\* What is known of the bundle that is attached is kept.
LEMMA GivenIsKept ==
  ASSUME CompositionInv, [Composition!Next]_(Composition!vars)
  PROVE  GivenInv'
<1>1. CASE Composition!Compose  BY <1>1 DEF Composition!Compose, GivenInv
<1>2. CASE \E t \in Templates : Composition!AddTemplate(t)
  BY <1>2 DEF Composition!AddTemplate, CompositionInv, GivenInv, Built
<1>3. CASE \E from, to \in Templates \ Unreadable :
             Composition!Connect(from, to)
  BY <1>3 DEF Composition!Connect, CompositionInv, GivenInv, Built
<1>4. CASE Composition!SetMode
  BY <1>4 DEF Composition!SetMode, CompositionInv, GivenInv, Built
<1>5. ASSUME NEW b \in Composition!Offered, Composition!SetTrustBundle(b)
      PROVE GivenInv'
  <2>1. Composition!ValidTrust(Composition!Identity, b)
          /\ trust' = Composition!NormalizedTrust(Composition!Identity, b)
    BY <1>5 DEF Composition!SetTrustBundle
  <2>2. trust' = Composition!ReportTrust(Composition!Identity, b)
    BY <2>1 DEF Composition!ReportTrust
  <2>3. Built(Composition!ReportTrust(Composition!Identity, b))
    BY OfferedIsBuilt, ReportIsBuilt
  <2>4. QED  BY <2>2, <2>3 DEF GivenInv, Built
<1>6. ASSUME NEW texts \in Reviews, Composition!Seal(texts)  PROVE GivenInv'
  <2>1. trust' = Composition!BuildTrustBundle(Composition!Identity, texts)
    BY <1>6 DEF Composition!Seal
  <2>2. Built(Composition!BuildTrustBundle(Composition!Identity, texts))
    BY BuildIsBuilt
  <2>3. QED  BY <2>1, <2>2 DEF GivenInv, Built
<1>7. CASE \E option \in Composition!Offered \cup {None} :
             Composition!Export(option)
  BY <1>7 DEF Composition!Export, CompositionInv, GivenInv, Built
<1>8. CASE UNCHANGED Composition!vars
  BY <1>8 DEF Composition!vars, CompositionInv, GivenInv, Built
<1>9. QED  BY <1>1, <1>2, <1>3, <1>4, <1>5, <1>6, <1>7, <1>8
        DEF Composition!Next

\* What is known of the bundles that are exported is kept.
LEMMA SentIsKept ==
  ASSUME CompositionInv, [Composition!Next]_(Composition!vars)
  PROVE  SentInv'
<1>1. ASSUME NEW option \in Composition!Offered \cup {None},
             Composition!Export(option)
      PROVE  SentInv'
  <2> DEFINE given == IF option = None THEN Composition!TrustStatus ELSE option
             sent == Composition!CompositionBundle(Composition!Identity, mode,
               Composition!TrustStatus, option)
  <2>1. Built(Composition!TrustStatus)
    BY ReportIsBuilt DEF Composition!TrustStatus, CompositionInv, GivenInv
  <2>2. Built(given)  BY <2>1, OfferedIsBuilt
  <2>3. sent = Composition!CompositionBundle(Composition!Identity, mode, given,
          None)
    BY DEF Composition!CompositionBundle
  <2>4. exported' = exported \cup {sent}  BY <1>1 DEF Composition!Export
  <2> HIDE DEF given, sent
  <2>5. \A box \in exported' : \E identity, m, g :
          Built(g) /\ box = Composition!CompositionBundle(identity, m, g, None)
    BY <2>2, <2>3, <2>4 DEF CompositionInv, SentInv
  <2>6. QED  BY <2>5 DEF SentInv
<1>2. CASE UNCHANGED exported  BY <1>2 DEF CompositionInv, SentInv
<1>3. (\E option \in Composition!Offered \cup {None} :
        Composition!Export(option)) \/ UNCHANGED exported
  BY DEF Composition!Next, Composition!vars, Composition!Compose,
         Composition!AddTemplate, Composition!Connect, Composition!SetMode,
         Composition!SetTrustBundle, Composition!Seal
<1>4. QED  BY <1>1, <1>2, <1>3

\* Every trust box about has the receipt its signatures give it.
THEOREM CompositionInvariance == Composition!Spec => []CompositionInv
<1>1. CompositionInv /\ [Composition!Next]_(Composition!vars) => CompositionInv'
  BY GivenIsKept, SentIsKept DEF CompositionInv
<1>2. QED  BY <1>1, CompositionInit, PTL DEF Composition!Spec

\* What a carrier makes of a box that can still be imported: the very files
\* it was sent with, under the identity it was sent with.
LEMMA CarriedFacts ==
  ASSUME NEW identity, NEW m, NEW given, NEW sent,
         sent = Composition!CompositionBundle(identity, m, given, None),
         NEW box \in Composition!Carried(sent), Composition!ValidBundle(box)
  PROVE  /\ box.files["composition"] = [identity |-> identity, mode |-> m]
         /\ box.files["gallery"] = [identity |-> identity, mode |-> m]
         /\ box.files["trust"] = Composition!TrustForBundle(identity, given)
         /\ Composition!ValidTrust(identity, box.files["trust"])
<1> DEFINE sealed == Composition!TrustForBundle(identity, given)
           files == [f \in Composition!RequiredFiles |->
                  CASE f = "composition" -> [identity |-> identity, mode |-> m]
                    [] f = "gallery"     -> [identity |-> identity, mode |-> m]
                    [] f = "trust"       -> sealed
                    [] f = "readme"      -> "readme"]
           manifest == [identity |-> identity,
             view |-> Composition!ViewReceipt(identity, m),
                     mode |-> m, review |-> sealed.status,
                     trustReceipt |-> sealed.receipt,
                     fileReceipts |-> files, intact |-> TRUE]
<1>1. sent = [files |-> files, manifest |-> manifest]
  BY DEF Composition!CompositionBundle
<1>2. manifest.identity = identity /\ manifest.fileReceipts = files  OBVIOUS
<1>3. {"composition", "gallery", "trust"} \subseteq Composition!RequiredFiles
  BY DEF Composition!RequiredFiles
<1>4. /\ files["composition"] = [identity |-> identity, mode |-> m]
      /\ files["gallery"] = [identity |-> identity, mode |-> m]
      /\ files["trust"] = sealed
  BY <1>3
<1> HIDE DEF files, sealed
<1>5. box.manifest.identity = identity /\ box.manifest.fileReceipts = files
  <2>1. \/ \E f \in Composition!RequiredFiles : \E w :
             box = [sent EXCEPT !.files[f] = w]
        \/ box = [sent EXCEPT !.manifest.intact = FALSE]
        \/ \E w : box = [sent EXCEPT !.manifest.mode = w]
    BY DEF Composition!Carried
  <2> DEFINE named == sent.manifest
  <2>2. named = manifest  BY <1>1
  <2>3. CASE \E f \in Composition!RequiredFiles : \E w :
               box = [sent EXCEPT !.files[f] = w]
    <3>1. box.manifest = named  BY <1>1, <2>3
    <3>2. QED  BY <1>2, <2>2, <3>1
  <2>4. CASE box = [sent EXCEPT !.manifest.intact = FALSE]
    <3>1. box.manifest = [named EXCEPT !.intact = FALSE]  BY <1>1, <2>4
    <3>2. QED  BY <2>2, <3>1
  <2>5. CASE \E w : box = [sent EXCEPT !.manifest.mode = w]
    <3>1. PICK w : box = [sent EXCEPT !.manifest.mode = w]  BY <2>5
    <3>2. box.manifest = [named EXCEPT !.mode = w]  BY <1>1, <3>1
    <3>3. QED  BY <2>2, <3>2
  <2>6. QED  BY <2>1, <2>3, <2>4, <2>5
<1>6. \A f \in Composition!RequiredFiles : box.files[f] = files[f]
  BY <1>5 DEF Composition!ValidBundle, Composition!FilesAreWhole
<1>7. Composition!ValidTrust(identity, box.files["trust"])
  BY <1>5 DEF Composition!ValidBundle
<1>8. QED  BY <1>3, <1>4, <1>6, <1>7 DEF sealed

\* What is reported as approved was approved by a signer for this content, in
\* the composition and in every box that can be imported.
THEOREM CompositionApproval ==
  Composition!Spec => []Composition!ApprovalIsSigned
<1>1. ASSUME CompositionInv  PROVE Composition!ApprovalIsSigned
  <2>1. Composition!ApprovedBySomeone(Composition!Identity,
          Composition!TrustStatus)
    BY <1>1, ReportIsSigned
         DEF Composition!TrustStatus, CompositionInv, GivenInv
  <2>2. ASSUME NEW sent \in exported, NEW box \in Composition!Carried(sent),
             Composition!ValidBundle(box)
        PROVE  Composition!ApprovedBySomeone(box.files["composition"].identity,
                                 box.files["trust"])
    <3>1. PICK identity, m, given :
            Built(given)
              /\ sent = Composition!CompositionBundle(identity, m, given, None)
      BY <1>1 DEF CompositionInv, SentInv
    <3>2. /\ box.files["composition"] = [identity |-> identity, mode |-> m]
          /\ box.files["trust"] = Composition!TrustForBundle(identity, given)
      BY <2>2, <3>1, CarriedFacts
    <3>3. CASE Composition!ValidTrust(identity, given)
      <4>1. box.files["trust"] = Composition!ReportTrust(identity, given)
        BY <3>2, <3>3 DEF Composition!TrustForBundle
      <4>2. Composition!ApprovedBySomeone(identity,
              Composition!ReportTrust(identity, given))
        BY <3>1, ReportIsSigned
      <4>3. QED  BY <3>2, <4>1, <4>2
    <3>4. CASE ~Composition!ValidTrust(identity, given)
      <4>1. box.files["trust"].status = "invalid"
        BY <3>2, <3>4 DEF Composition!TrustForBundle, Composition!Untrusted
      <4>2. QED  BY <4>1 DEF Composition!ApprovedBySomeone
    <3>5. QED  BY <3>3, <3>4
  <2>3. QED  BY <2>1, <2>2 DEF Composition!ApprovalIsSigned
<1>2. QED  BY <1>1, CompositionInvariance, PTL

\* A box that can be imported has files of one export.
THEOREM CompositionOneExport ==
  Composition!Spec => []Composition!ImportedIsOneExport
<1>1. ASSUME CompositionInv  PROVE Composition!ImportedIsOneExport
  <2>1. ASSUME NEW sent \in exported, NEW box \in Composition!Carried(sent),
             Composition!ValidBundle(box)
        PROVE  box.files["gallery"] = box.files["composition"]
    <3>1. PICK identity, m, given :
            Built(given)
              /\ sent = Composition!CompositionBundle(identity, m, given, None)
      BY <1>1 DEF CompositionInv, SentInv
    <3>2. /\ box.files["composition"] = [identity |-> identity, mode |-> m]
          /\ box.files["gallery"] = [identity |-> identity, mode |-> m]
      BY <2>1, <3>1, CarriedFacts
    <3>3. QED  BY <3>2
  <2>2. QED  BY <2>1 DEF Composition!ImportedIsOneExport
<1>2. QED  BY <1>1, CompositionInvariance, PTL

\* What stands is carried as it is told, and is told the same again.
LEMMA SealedFacts ==
  ASSUME NoneIsNothing, NEW of, NEW given, Built(given),
         Composition!ValidTrust(of, given)
  PROVE  /\ Composition!ValidTrust(of, Composition!ReportTrust(of, given))
         /\ Composition!ReportTrust(of, Composition!ReportTrust(of, given))
              = Composition!ReportTrust(of, given)
         /\ Composition!ReportTrust(of, given).status # "invalid"
<1> DEFINE told == Composition!ReportTrust(of, given)
<1>1. given # None  BY DEF NoneIsNothing, Built
<1>2. told = Composition!NormalizedTrust(of, given)
  BY DEF Composition!ReportTrust
<1>3. given.of = of  BY <1>1 DEF Composition!ValidTrust
<1>4. CASE given.signatures # <<>>
  <2>1. told = given  BY <1>1, <1>2, <1>4 DEF Composition!NormalizedTrust
  <2>2. given.receipt
          = Composition!TrustReceipt(of, given.signatures, given.status)
        /\ given.receipt
             = Composition!TrustReceipt(of, given.signatures,
               Composition!ReviewStatus(given.signatures))
    BY <1>1, <1>3, <1>4 DEF Composition!ValidTrust, Built
  <2>3. given.status = Composition!ReviewStatus(given.signatures)
    BY <2>2 DEF Composition!TrustReceipt
  <2>4. given.status # "invalid"  BY <2>3 DEF Composition!ReviewStatus
  <2>5. QED  BY <2>1, <2>4
<1>5. CASE given.signatures = <<>>
  <2> DEFINE receipt == Composition!TrustReceipt(of, <<>>, "unsigned")
             unsigned == [of |-> of, signatures |-> <<>>, status |-> "unsigned",
                          receipt |-> receipt]
  <2>1. told = [given EXCEPT !.status = "unsigned", !.receipt = receipt]
    BY <1>1, <1>2, <1>5 DEF Composition!NormalizedTrust
  <2>2. given = [of |-> of, signatures |-> <<>>, status |-> given.status,
                 receipt |-> given.receipt]
    BY <1>3, <1>5 DEF Built
  <2> HIDE DEF receipt, told
  <2>3. told = unsigned
    <3> DEFINE middle == [given EXCEPT !.status = "unsigned"]
    <3>1. middle = [of |-> of, signatures |-> <<>>, status |-> "unsigned",
                    receipt |-> given.receipt]
      BY <2>2
    <3>2. told = [middle EXCEPT !.receipt = receipt]  BY <2>1
    <3> HIDE DEF middle
    <3>3. QED  BY <3>1, <3>2
  <2>4. unsigned # None  BY DEF NoneIsNothing
  <2>5. \A record \in Composition!Range(<<>>) :
          Composition!VerifyTrustRecord(of, record)
    BY DEF Composition!Range
  <2>6. Composition!ValidTrust(of, unsigned)  BY <2>5 DEF Composition!ValidTrust
  <2>7. Composition!NormalizedTrust(of, unsigned)
          = [unsigned EXCEPT !.status = "unsigned", !.receipt = receipt]
    BY <2>4 DEF Composition!NormalizedTrust, receipt
  <2>8. Composition!ReportTrust(of, unsigned) = unsigned
    BY <2>6, <2>7 DEF Composition!ReportTrust
  <2>9. QED  BY <2>3, <2>6, <2>8 DEF told
<1>6. QED  BY <1>4, <1>5

\* An exported bundle verifies exactly when its manifest does not call it
\* invalid.
LEMMA ExportIsValid ==
  ASSUME NoneIsNothing, NEW identity, NEW m, NEW given, Built(given),
         NEW box, box = Composition!CompositionBundle(identity, m, given, None)
  PROVE  Composition!ValidBundle(box) <=> box.manifest.review # "invalid"
<1> DEFINE sealed == Composition!TrustForBundle(identity, given)
           files == [f \in Composition!RequiredFiles |->
                  CASE f = "composition" -> [identity |-> identity, mode |-> m]
                    [] f = "gallery"     -> [identity |-> identity, mode |-> m]
                    [] f = "trust"       -> sealed
                    [] f = "readme"      -> "readme"]
<1>1. box = [files |-> files,
                manifest |-> [identity |-> identity,
                  view |-> Composition!ViewReceipt(identity, m),
                              mode |-> m, review |-> sealed.status,
                              trustReceipt |-> sealed.receipt,
                              fileReceipts |-> files, intact |-> TRUE]]
  BY DEF Composition!CompositionBundle
<1>2. Composition!RequiredFiles = {"composition", "gallery", "trust", "readme"}
  BY DEF Composition!RequiredFiles
<1>3. /\ files["composition"] = [identity |-> identity, mode |-> m]
      /\ files["gallery"] = [identity |-> identity, mode |-> m]
      /\ files["trust"] = sealed
      /\ files["readme"] = "readme"
  BY <1>2
<1> HIDE DEF files, sealed
<1>4. /\ box.files = files /\ box.manifest.fileReceipts = files
      /\ box.manifest.identity = identity /\ box.manifest.intact
      /\ box.manifest.view = Composition!ViewReceipt(identity, m)
      /\ box.manifest.review = sealed.status
      /\ box.manifest.trustReceipt = sealed.receipt
  BY <1>1
<1>5. CASE Composition!ValidTrust(identity, given)
  <2>1. sealed = Composition!ReportTrust(identity, given)
    BY <1>5 DEF Composition!TrustForBundle, sealed
  <2>2. Composition!ValidTrust(identity, sealed)
          /\ Composition!ReportTrust(identity, sealed) = sealed
        /\ sealed.status # "invalid"
    BY <1>5, <2>1, SealedFacts
  <2>3. sealed # None
    BY <2>1, ReportIsBuilt DEF Built, NoneIsNothing
  <2>4. \A f \in Composition!RequiredFiles : files[f] # None
    BY <1>2, <1>3, <2>3 DEF NoneIsNothing
  <2>5. Composition!FilesAreWhole(box)
    BY <1>4, <2>4 DEF Composition!FilesAreWhole
  <2>6. Composition!ValidBundle(box)
    BY <1>3, <1>4, <2>2, <2>5 DEF Composition!ValidBundle
  <2>7. QED  BY <1>4, <2>2, <2>6
<1>6. CASE ~Composition!ValidTrust(identity, given)
  <2>1. sealed = [of |-> identity, signatures |-> <<>>, status |-> "invalid",
          receipt |-> Zero]
    BY <1>6 DEF Composition!TrustForBundle, Composition!Untrusted, sealed
  <2>2. sealed # None  BY <2>1 DEF NoneIsNothing
  <2>3. \/ Composition!ReportTrust(identity, sealed).status = "error"
        \/ Composition!ReportTrust(identity, sealed)
             = Composition!NormalizedTrust(identity, sealed)
    BY DEF Composition!ReportTrust
  <2>4. Composition!NormalizedTrust(identity, sealed)
          = [sealed EXCEPT !.status = "unsigned",
                           !.receipt
                             = Composition!TrustReceipt(identity, <<>>,
                               "unsigned")]
    BY <2>1, <2>2 DEF Composition!NormalizedTrust
  <2>5. Composition!ReportTrust(identity, sealed).status \in {"error",
          "unsigned"}
    BY <2>1, <2>3, <2>4
  <2>6. Composition!ReportTrust(identity, sealed).status # box.manifest.review
    BY <1>4, <2>1, <2>5
  <2>7. ~Composition!ValidBundle(box)
    BY <1>3, <1>4, <2>6 DEF Composition!ValidBundle
  <2>8. QED  BY <1>4, <2>1, <2>7
<1>7. QED  BY <1>5, <1>6

\* A box nobody touched is refused exactly when the trust it was exported
\* with did not stand.
THEOREM CompositionStale ==
  ASSUME NoneIsNothing
  PROVE Composition!Spec => []Composition!OnlyStaleIsRefused
<1>1. ASSUME CompositionInv  PROVE Composition!OnlyStaleIsRefused
  <2>1. ASSUME NEW box \in exported
        PROVE  Composition!ValidBundle(box) <=> box.manifest.review # "invalid"
    <3>1. PICK identity, m, given :
            Built(given)
              /\ box = Composition!CompositionBundle(identity, m, given, None)
      BY <1>1 DEF CompositionInv, SentInv
    <3>2. QED  BY <3>1, ExportIsValid
  <2>2. QED  BY <2>1 DEF Composition!OnlyStaleIsRefused
<1>2. QED  BY <1>1, CompositionInvariance, PTL

\* Trust that was given is of the composition as it was then, and a composition
\* only grows until the next is begun without trust.
Readable == Templates \ Unreadable

Read(components, t) == IF t \in Unreadable THEN components
                       ELSE Append(components, t)
Reading == INSTANCE FoldTheorems WITH Step <- LAMBDA c, acc, e : Read(acc, e)

SceneInv ==
  /\ scene = [components |-> scene.components, relations |-> scene.relations]
  /\ scene.components \in Seq(Readable)
  /\ scene.relations \in Seq(Readable \X Readable)

GivenBefore ==
  trust # None =>
    \E a \in Seq(Readable), b \in Seq(Readable \X Readable) :
      /\ trust.of = <<a, b>>
      /\ Len(a) <= Len(scene.components) /\ Len(b) <= Len(scene.relations)

\* What is composed is made of readable templates.
LEMMA ComposedFacts ==
  ASSUME NEW templates \in Seq(Templates), NEW chain \in BOOLEAN
  PROVE  LET composed == Composition!ComposeTemplates(templates, chain).scene
         IN  \E c \in Seq(Readable), r \in Seq(Readable \X Readable) :
               composed = [components |-> c, relations |-> r]
<1> DEFINE readable == Reading!Fold({}, <<>>, templates)
           n == Len(readable) - 1
           pairs == [i \in 1 .. n |-> <<readable[i], readable[i + 1]>>]
           relations == IF chain THEN pairs ELSE <<>>
<1>1. Composition!ComposeTemplates(templates, chain).scene
        = [components |-> readable, relations |-> relations]
  BY DEF Composition!ComposeTemplates, Reading!Fold, Composition!FoldLeft,
         Composition!MapThenFoldSet, Reading!FoldLeft, Reading!MapThenFoldSet,
         Composition!Max, Reading!Max, Read
<1>2. readable \in Seq(Readable)
  <2>1. <<>> \in Seq(Readable)  OBVIOUS
  <2>2. \A a \in Seq(Readable), e \in Templates : Read(a, e) \in Seq(Readable)
    BY DEF Readable, Read
  <2>3. QED  BY <2>1, <2>2, Reading!FoldKeeps
<1> HIDE DEF readable
<1>3. pairs \in Seq(Readable \X Readable)
  <2>1. n \in Int /\ \A i \in 1 .. n : readable[i] \in Readable
                                     /\ readable[i + 1] \in Readable
    BY <1>2
  <2>2. CASE n \in Nat  BY <2>1, <2>2
  <2>3. CASE n \notin Nat
    <3>1. 1 .. n = 1 .. 0  BY <2>1, <2>3
    <3>2. pairs = [i \in 1 .. 0 |-> <<readable[i], readable[i + 1]>>]  BY <3>1
    <3>3. pairs \in [1 .. 0 -> Readable \X Readable]  BY <3>2
    <3>4. \A f \in [1 .. 0 -> Readable \X Readable] :
            f \in Seq(Readable \X Readable)
      OBVIOUS
    <3>5. QED  BY <3>3, <3>4
  <2>4. QED  BY <2>2, <2>3
<1> HIDE DEF pairs
<1>4. relations \in Seq(Readable \X Readable)  BY <1>3
<1> HIDE DEF relations
<1>5. QED  BY <1>1, <1>2, <1>4

\* The scene only grows while its trust bundle stays.
LEMMA SceneIsKept ==
  ASSUME SceneInv, [Composition!Next]_(Composition!vars)
  PROVE  /\ SceneInv'
         /\ trust' = None \/ /\ Len(scene.components) <= Len(scene'.components)
                             /\ Len(scene.relations) <= Len(scene'.relations)
         /\ scene' = scene \/ trust' = None
              \/ Len(scene'.components) > Len(scene.components)
              \/ Len(scene'.relations) > Len(scene.relations)
<1> DEFINE Good == /\ SceneInv'
                   /\ trust' = None \/
                        /\ Len(scene.components) <= Len(scene'.components)
                        /\ Len(scene.relations) <= Len(scene'.relations)
                   /\ scene' = scene \/ trust' = None
                        \/ Len(scene'.components) > Len(scene.components)
                        \/ Len(scene'.relations) > Len(scene.relations)
<1>1. CASE Composition!Compose
  <2>1. PICK n \in 0 .. MaxTemplates :
          \E templates \in [1 .. n -> Templates], chain \in BOOLEAN :
          /\ scene' = Composition!ComposeTemplates(templates, chain).scene
          /\ trust' = None
    BY <1>1 DEF Composition!Compose
  <2>2. PICK templates \in [1 .. n -> Templates], chain \in BOOLEAN :
          /\ scene' = Composition!ComposeTemplates(templates, chain).scene
          /\ trust' = None
    BY <2>1
  <2>3. templates \in Seq(Templates)  OBVIOUS
  <2>4. PICK c \in Seq(Readable), r \in Seq(Readable \X Readable) :
          scene' = [components |-> c, relations |-> r]
    BY <2>2, <2>3, ComposedFacts
  <2>5. SceneInv'  BY <2>4 DEF SceneInv
  <2>6. QED  BY <2>2, <2>5
<1>2. ASSUME NEW t \in Templates, Composition!AddTemplate(t)  PROVE Good
  <2>1. scene' = [components |-> Append(scene.components, t),
                  relations |-> scene.relations]
    BY <1>2 DEF Composition!AddTemplate, Composition!AddComponent, SceneInv
  <2>2. t \in Readable  BY <1>2 DEF Composition!AddTemplate, Readable
  <2>3. /\ Append(scene.components, t) \in Seq(Readable)
        /\ Len(Append(scene.components, t)) = Len(scene.components) + 1
        /\ Len(scene.components) \in Nat /\ Len(scene.relations) \in Nat
    BY <2>2 DEF SceneInv
  <2>4. SceneInv'  BY <2>1, <2>3 DEF SceneInv
  <2>5. QED  BY <2>1, <2>3, <2>4
<1>3. ASSUME NEW from \in Readable, NEW to \in Readable,
                 Composition!Connect(from, to)
      PROVE  Good
  <2>1. scene' = [components |-> scene.components,
                  relations |-> Append(scene.relations, <<from, to>>)]
    BY <1>3 DEF Composition!Connect, Composition!AddRelation, SceneInv
  <2>2. <<from, to>> \in Readable \X Readable  OBVIOUS
  <2>3. /\ Append(scene.relations, <<from, to>>) \in Seq(Readable \X Readable)
        /\ Len(Append(scene.relations, <<from, to>>)) = Len(scene.relations) + 1
        /\ Len(scene.components) \in Nat /\ Len(scene.relations) \in Nat
    BY <2>2 DEF SceneInv
  <2>4. SceneInv'  BY <2>1, <2>3 DEF SceneInv
  <2>5. QED  BY <2>1, <2>3, <2>4
<1>4. ASSUME UNCHANGED scene  PROVE Good
  <2>1. Len(scene.components) \in Nat /\ Len(scene.relations) \in Nat
    BY DEF SceneInv
  <2>2. SceneInv'  BY <1>4 DEF SceneInv
  <2>3. QED  BY <1>4, <2>1, <2>2
<1>5. \/ Composition!Compose \/ \E t \in Templates : Composition!AddTemplate(t)
      \/ \E from, to \in Readable : Composition!Connect(from, to)
      \/ UNCHANGED scene
  BY DEF Composition!Next, Composition!vars, Composition!SetMode, Readable,
         Composition!SetTrustBundle, Composition!Seal, Composition!Export
<1>6. QED  BY <1>1, <1>2, <1>3, <1>4, <1>5

\* The bundle that is attached stays one of a scene that was.
LEMMA GivenIsBefore ==
  ASSUME GivenInv, SceneInv, GivenBefore, [Composition!Next]_(Composition!vars)
  PROVE  GivenBefore'
<1>1. /\ SceneInv'
      /\ trust' = None \/ /\ Len(scene.components) <= Len(scene'.components)
                          /\ Len(scene.relations) <= Len(scene'.relations)
  BY SceneIsKept
<1>2. ASSUME UNCHANGED trust  PROVE GivenBefore'
  <2>1. SUFFICES ASSUME trust # None
                 PROVE  \E a \in Seq(Readable),
                          b \in Seq(Readable \X Readable) :
                   /\ trust.of = <<a, b>>
                   /\ Len(a) <= Len(scene'.components)
                        /\ Len(b) <= Len(scene'.relations)
    BY <1>2 DEF GivenBefore
  <2>2. PICK a \in Seq(Readable), b \in Seq(Readable \X Readable) :
          /\ trust.of = <<a, b>>
          /\ Len(a) <= Len(scene.components) /\ Len(b) <= Len(scene.relations)
    BY <2>1 DEF GivenBefore
  <2>3. /\ Len(scene.components) <= Len(scene'.components)
        /\ Len(scene.relations) <= Len(scene'.relations)
    BY <1>1, <1>2, <2>1
  <2>4. /\ Len(a) \in Nat /\ Len(b) \in Nat
        /\ Len(scene.components) \in Nat /\ Len(scene.relations) \in Nat
        /\ Len(scene'.components) \in Nat /\ Len(scene'.relations) \in Nat
    BY <1>1 DEF SceneInv
  <2>5. Len(a) <= Len(scene'.components) /\ Len(b) <= Len(scene'.relations)
    BY <2>2, <2>3, <2>4
  <2>6. QED  BY <2>2, <2>5
<1>3. ASSUME UNCHANGED scene, trust' # None => trust'.of = Composition!Identity
      PROVE  GivenBefore'
  <2>1. /\ Composition!Identity = <<scene.components, scene.relations>>
        /\ scene.components \in Seq(Readable)
        /\ scene.relations \in Seq(Readable \X Readable)
        /\ Len(scene.components) \in Nat /\ Len(scene.relations) \in Nat
    BY DEF Composition!Identity, Composition!Receipt, SceneInv
  <2>2. Len(scene.components) <= Len(scene.components)
        /\ Len(scene.relations) <= Len(scene.relations)
    BY <2>1
  <2>3. QED  BY <1>3, <2>1, <2>2 DEF GivenBefore
<1>4. ASSUME NEW b \in Composition!Offered, Composition!SetTrustBundle(b)
      PROVE  GivenBefore'
  <2>1. /\ Composition!ValidTrust(Composition!Identity, b)
        /\ trust' = Composition!NormalizedTrust(Composition!Identity, b)
        /\ UNCHANGED scene
    BY <1>4 DEF Composition!SetTrustBundle
  <2>2. Built(b)  BY OfferedIsBuilt
  <2>3. Composition!NormalizedTrust(Composition!Identity, b).of
          = Composition!Identity
    <3>1. CASE b = None
      BY <3>1 DEF Composition!NormalizedTrust, Composition!Untrusted
    <3>2. CASE b # None
      <4>1. b.of = Composition!Identity
        BY <2>1, <3>2 DEF Composition!ValidTrust
      <4>2. [b EXCEPT !.status = "unsigned",
                      !.receipt
                        = Composition!TrustReceipt(Composition!Identity, <<>>,
                          "unsigned")].of
              = b.of
        BY <2>2 DEF Built
      <4>3. QED  BY <3>2, <4>1, <4>2 DEF Composition!NormalizedTrust
    <3>3. QED  BY <3>1, <3>2
  <2>4. QED  BY <1>3, <2>1, <2>3
<1>5. ASSUME NEW texts \in Reviews, Composition!Seal(texts)  PROVE GivenBefore'
  <2>1. /\ trust' = Composition!BuildTrustBundle(Composition!Identity, texts)
        /\ UNCHANGED scene
    BY <1>5 DEF Composition!Seal
  <2>2. Composition!BuildTrustBundle(Composition!Identity, texts).of
          = Composition!Identity
    BY DEF Composition!BuildTrustBundle
  <2>3. QED  BY <1>3, <2>1, <2>2
<1>6. CASE Composition!Compose  BY <1>6 DEF Composition!Compose, GivenBefore
<1>7. \/ Composition!Compose \/ UNCHANGED trust
      \/ \E b \in Composition!Offered : Composition!SetTrustBundle(b)
      \/ \E texts \in Reviews : Composition!Seal(texts)
  BY DEF Composition!Next, Composition!vars, Composition!SetMode,
         Composition!AddTemplate, Composition!Connect, Composition!Export
<1>8. QED  BY <1>2, <1>4, <1>5, <1>6, <1>7

\* "Trust follows identity, not projection": no step that leaves the content
\* alone changes what is reported of one trust bundle, and none that changes
\* it leaves the bundle standing (trustStatus).
THEOREM CompositionTrust == Composition!Spec => Composition!TrustFollowsIdentity
<1> DEFINE Follows == /\ scene' = scene /\ trust' = trust
                           => Composition!TrustStatus' = Composition!TrustStatus
                      /\ scene' # scene /\ trust' = trust /\ trust # None
                           => ~Composition!ValidTrust(Composition!Identity',
                             trust')
<1>1. Composition!Init => SceneInv /\ GivenBefore
  BY DEF Composition!Init, Composition!EmptyScene, SceneInv, GivenBefore
<1>2. GivenInv /\ SceneInv /\ GivenBefore
        /\ [Composition!Next]_(Composition!vars)
        => SceneInv' /\ GivenBefore'
  BY SceneIsKept, GivenIsBefore
<1>3. ASSUME SceneInv, GivenBefore, [Composition!Next]_(Composition!vars)
      PROVE  Follows
  <2>1. ASSUME scene' = scene, trust' = trust
        PROVE  Composition!TrustStatus' = Composition!TrustStatus
    BY <2>1 DEF Composition!TrustStatus, Composition!Identity
  <2>2. ASSUME scene' # scene, trust' = trust, trust # None,
               Composition!ValidTrust(Composition!Identity', trust')
        PROVE  FALSE
    <3>1. trust.of = <<scene'.components, scene'.relations>>
      BY <2>2 DEF Composition!ValidTrust, Composition!Identity,
         Composition!Receipt
    <3>2. PICK a \in Seq(Readable), b \in Seq(Readable \X Readable) :
            /\ trust.of = <<a, b>>
            /\ Len(a) <= Len(scene.components) /\ Len(b) <= Len(scene.relations)
      BY <1>3, <2>2 DEF GivenBefore
    <3>3. a = scene'.components /\ b = scene'.relations  BY <3>1, <3>2
    <3>4. \/ Len(scene'.components) > Len(scene.components)
          \/ Len(scene'.relations) > Len(scene.relations)
      BY <1>3, <2>2, SceneIsKept
    <3>5. /\ Len(a) \in Nat /\ Len(b) \in Nat
          /\ Len(scene.components) \in Nat /\ Len(scene.relations) \in Nat
      BY <1>3 DEF SceneInv
    <3>6. QED  BY <3>2, <3>3, <3>4, <3>5
  <2>3. QED  BY <2>1, <2>2
<1>4. CompositionInv => GivenInv  BY DEF CompositionInv
<1>5. QED
  BY <1>1, <1>2, <1>3, <1>4, CompositionInvariance, PTL
     DEF Composition!Spec, Composition!TrustFollowsIdentity

\* A workbench is a composition with its bundles, and whatever else it does.
LEMMA CompositionSpec == Spec => Composition!Spec
<1>1. Init => Composition!Init  BY DEF Init
<1>2. [Next]_vars => [Composition!Next]_(Composition!vars)
  BY DEF Next, vars, compositionVars, Composition!vars
<1>3. QED  BY <1>1, <1>2, PTL DEF Spec, Composition!Spec

\* A composition has a component for each readable template, at most.
LEMMA ComposedBounds ==
  ASSUME NEW templates \in Seq(Templates), NEW chain \in BOOLEAN
  PROVE  Len(Composition!ComposeTemplates(templates, chain).scene.components)
           <= Len(templates)
<1> DEFINE readable == Reading!Fold({}, <<>>, templates)
<1>1. Composition!ComposeTemplates(templates, chain).scene.components = readable
  BY DEF Composition!ComposeTemplates, Reading!Fold, Composition!FoldLeft,
         Composition!MapThenFoldSet, Reading!FoldLeft, Reading!MapThenFoldSet,
         Composition!Max, Reading!Max, Read
<1> HIDE DEF readable
<1> DEFINE none == <<>>
           F(t) == Reading!Fold({}, none, t)
           T == {t \in Seq(Templates) :
                   F(t) \in Seq(Readable) /\ Len(F(t)) <= Len(t)}
<1>2. none \in T
  <2>1. /\ none \in Seq(Templates) /\ none \in Seq(Readable)
        /\ Len(none) = 0
    OBVIOUS
  <2>2. F(none) = none  BY Reading!FoldEmpty
  <2> HIDE DEF none, F
  <2>3. F(none) \in Seq(Readable)  BY <2>1, <2>2
  <2>4. Len(F(none)) <= Len(none)
    <3>1. Len(F(none)) = Len(none)  BY <2>2
    <3>2. QED  BY <2>1, <3>1
  <2>5. QED  BY <2>1, <2>3, <2>4
<1>3. ASSUME NEW t \in Seq(Templates), t \in T, NEW e \in Templates
      PROVE  Append(t, e) \in T
  <2> DEFINE c == F(t)
  <2>1. F(Append(t, e)) = Read(c, e)
    BY Reading!FoldAppend
  <2>2. c \in Seq(Readable) /\ Len(c) <= Len(t)  BY <1>3
  <2> HIDE DEF c, F, none
  <2>3. Read(c, e) \in Seq(Readable) /\ Len(Read(c, e)) <= Len(t) + 1
    <3>1. CASE e \in Unreadable  BY <2>2, <3>1 DEF Read
    <3>2. CASE e \notin Unreadable  BY <2>2, <3>2 DEF Read, Readable
    <3>3. QED  BY <3>1, <3>2
  <2>4. Append(t, e) \in Seq(Templates) /\ Len(Append(t, e)) = Len(t) + 1
    OBVIOUS
  <2>5. QED  BY <2>1, <2>3, <2>4
<1>4. Seq(Templates) \subseteq T
  <2> HIDE DEF T, none
  <2>1. QED  BY <1>2, <1>3, Reading!SequencesGrow DEF none
<1>5. QED  BY <1>1, <1>4 DEF readable

\* A scene has as many components and relations as it may.
LEMMA SceneBounds ==
  ASSUME MaxTemplates \in Nat, MaxRelations \in Nat, SceneInv,
         [Composition!Next]_(Composition!vars),
         Len(scene.components) <= MaxTemplates,
         Len(scene.relations) <= MaxRelations
  PROVE  /\ Len(scene'.components) <= MaxTemplates
         /\ Len(scene'.relations) <= MaxRelations
<1> DEFINE Good == /\ Len(scene'.components) <= MaxTemplates
                   /\ Len(scene'.relations) <= MaxRelations
<1>1. ASSUME Composition!Compose  PROVE Good
  <2>0. PICK n \in 0 .. MaxTemplates :
          \E templates \in [1 .. n -> Templates], chain \in BOOLEAN :
            LET composed == Composition!ComposeTemplates(templates, chain)
            IN  /\ scene' = composed.scene
                /\ Len(composed.scene.relations) <= MaxRelations
    BY <1>1 DEF Composition!Compose
  <2>1. PICK templates \in [1 .. n -> Templates], chain \in BOOLEAN :
          /\ scene' = Composition!ComposeTemplates(templates, chain).scene
          /\ Len(Composition!ComposeTemplates(templates, chain).scene.relations)
               <= MaxRelations
    BY <2>0
  <2>2. templates \in Seq(Templates) /\ Len(templates) = n  OBVIOUS
  <2>3. Len(scene'.components) <= n  BY <2>1, <2>2, ComposedBounds
  <2>4. PICK c \in Seq(Readable), r \in Seq(Readable \X Readable) :
          scene' = [components |-> c, relations |-> r]
    BY <2>1, <2>2, ComposedFacts
  <2>5. Len(scene'.components) \in Nat  BY <2>4
  <2>6. QED  BY <2>1, <2>3, <2>5
<1>2. ASSUME NEW t \in Templates, Composition!AddTemplate(t)  PROVE Good
  <2>1. scene' = [components |-> Append(scene.components, t),
                  relations |-> scene.relations]
    BY <1>2 DEF Composition!AddTemplate, Composition!AddComponent, SceneInv
  <2>2. Len(scene.components) < MaxTemplates /\ t \in Readable
    BY <1>2 DEF Composition!AddTemplate, Readable
  <2>3. Len(Append(scene.components, t)) = Len(scene.components) + 1
        /\ Len(scene.components) \in Nat
    BY <2>2 DEF SceneInv
  <2>4. QED  BY <2>1, <2>2, <2>3
<1>3. ASSUME NEW from \in Readable, NEW to \in Readable,
             Composition!Connect(from, to)
      PROVE  Good
  <2>1. scene' = [components |-> scene.components,
                  relations |-> Append(scene.relations, <<from, to>>)]
    BY <1>3 DEF Composition!Connect, Composition!AddRelation, SceneInv
  <2>2. Len(scene.relations) < MaxRelations  BY <1>3 DEF Composition!Connect
  <2>3. Len(Append(scene.relations, <<from, to>>)) = Len(scene.relations) + 1
        /\ Len(scene.relations) \in Nat
    BY DEF SceneInv
  <2>4. QED  BY <2>1, <2>2, <2>3
<1>4. CASE UNCHANGED scene  BY <1>4
<1>5. \/ Composition!Compose \/ \E t \in Templates : Composition!AddTemplate(t)
      \/ \E from, to \in Readable : Composition!Connect(from, to)
      \/ UNCHANGED scene
  BY DEF Composition!Next, Composition!vars, Composition!SetMode, Readable,
         Composition!SetTrustBundle, Composition!Seal, Composition!Export
<1>6. QED  BY <1>1, <1>2, <1>3, <1>4, <1>5

\* Types of a composition and of the bundles there are.
LEMMA CompositionTypes ==
  ASSUME MaxTemplates \in Nat, MaxRelations \in Nat
  PROVE  Composition!Spec => []Composition!TypeOK
<1> DEFINE Bounded == /\ Len(scene.components) <= MaxTemplates
                      /\ Len(scene.relations) <= MaxRelations
           Shown == mode \in {"lazy", "greedy"}
<1>1. Composition!Init => SceneInv /\ Bounded /\ Shown
  BY DEF Composition!Init, Composition!EmptyScene, SceneInv
<1>2. SceneInv /\ Bounded /\ Shown /\ [Composition!Next]_(Composition!vars)
        => SceneInv' /\ Bounded' /\ Shown'
  <2> SUFFICES ASSUME SceneInv, Bounded, Shown,
                      [Composition!Next]_(Composition!vars)
               PROVE  SceneInv' /\ Bounded' /\ Shown'
    OBVIOUS
  <2>1. SceneInv'  BY SceneIsKept
  <2>2. Bounded'  BY SceneBounds
  <2>3. Shown'
    BY DEF Composition!Next, Composition!vars, Composition!Compose,
           Composition!AddTemplate, Composition!Connect, Composition!SetMode,
           Composition!SetTrustBundle, Composition!Seal, Composition!Export
  <2>4. QED  BY <2>1, <2>2, <2>3
<1>3. SceneInv /\ Bounded /\ Shown /\ CompositionInv => Composition!TypeOK
  <2> SUFFICES ASSUME SceneInv, Bounded, Shown, SentInv
               PROVE  Composition!TypeOK
    BY DEF CompositionInv
  <2>1. \A c \in Composition!Range(scene.components) :
          c \in Templates \ Unreadable
    BY DEF SceneInv, Composition!Range, Readable
  <2>2. \A box \in exported : DOMAIN box.files = Composition!RequiredFiles
    BY DEF SentInv, Composition!CompositionBundle
  <2>3. QED  BY <2>1, <2>2 DEF Composition!TypeOK
<1> HIDE DEF Bounded, Shown
<1>4. QED
  BY <1>1, <1>2, <1>3, CompositionInvariance, PTL DEF Composition!Spec

-----------------------------------------------------------------------------
(* Block images. *)

\* The comparison of chunks by the places they are listed at.
PlacedBefore(chunks, i, j) ==
  \/ chunks[i].offset < chunks[j].offset
  \/ chunks[i].offset = chunks[j].offset /\ chunks[i].size < chunks[j].size
  \/ chunks[i].offset = chunks[j].offset /\ chunks[i].size = chunks[j].size
       /\ i < j

Placing == INSTANCE FoldTheorems
  WITH Step <- LAMBDA chunks, i, j : PlacedBefore(chunks, i, j)

Contents == {None} \cup {Bytes(content, length) :
                           content \in {"a", "b"}, length \in Nat}
Labels == {None, "x"} \cup {<<"chunk", n>> : n \in Nat}
ChunkType ==
  [offset : Nat, size : Nat, label : Labels, sparse : BOOLEAN,
   bytes : Contents, hash : Contents, contentHash : Contents]

\* A chunk behind another begins behind it.
Increases(chunks) ==
  \A i, j \in DOMAIN chunks : i < j => chunks[i].offset < chunks[j].offset

\* What is given are chunks.
LEMMA ChunksAreTyped == Chunks \subseteq ChunkType
<1>1. ASSUME NEW at \in Nat, NEW size \in Nat, NEW label \in Labels,
             NEW bytes \in Contents, NEW hash \in Contents,
             NEW contentHash \in Contents
      PROVE  /\ Chunk(at, size, label, bytes, hash, contentHash) \in ChunkType
             /\ Hole(at, size, label, bytes) \in ChunkType
  <2>1. Chunk(at, size, label, bytes, hash, contentHash) \in ChunkType
    BY DEF Chunk, ChunkType
  <2>2. Chunk(at, size, label, bytes, None, None) \in ChunkType
    BY DEF Chunk, ChunkType, Contents
  <2>3. Hole(at, size, label, bytes) \in ChunkType
    BY <2>2 DEF Hole, ChunkType
  <2>4. QED  BY <2>1, <2>3
<1>2. None \in Contents /\ None \in Labels /\ "x" \in Labels
  <2> DEFINE named == {<<"chunk", n>> : n \in Nat}
  <2>1. Labels = {None, "x"} \cup named  BY DEF Labels
  <2> HIDE DEF named
  <2>2. None \in Labels /\ "x" \in Labels  BY <2>1
  <2>3. None \in Contents  BY DEF Contents
  <2>4. QED  BY <2>2, <2>3
<1>3. \A length \in Nat :
        Bytes("a", length) \in Contents /\ Bytes("b", length) \in Contents
  BY DEF Contents
<1>4. ASSUME NEW chunk \in Chunks  PROVE chunk \in ChunkType
  <2> DEFINE Right == UNION {
               {Hole(at, size, label, None),
                Chunk(at, size, label, Bytes("a", size), None, None),
                Chunk(at, size, label, Bytes("a", size), Bytes("b", size), None),
                Chunk(at, size, label, None, Bytes("b", size), None)} :
                  at \in {0, 2, 4}, size \in {2, 4}, label \in {None, "x"}}
             Wrong ==
          {Chunk(0, 2, None, Bytes("a", 1), None, None), Hole(1, 2, None, None),
           Hole(0, 3, None, None),
           Chunk(0, 2, None, Bytes("a", 2), None, Bytes("b", 2)),
           Hole(0, 2, None, Bytes("a", 2)),
           Chunk(0, 2, None, None, None, None)}
  <2>1. CASE chunk \in Right
    <3>1. PICK at \in {0, 2, 4}, size \in {2, 4}, label \in {None, "x"} :
            chunk \in {Hole(at, size, label, None),
              Chunk(at, size, label, Bytes("a", size), None, None),
              Chunk(at, size, label, Bytes("a", size), Bytes("b", size), None),
              Chunk(at, size, label, None, Bytes("b", size), None)}
      BY <2>1
    <3>2. at \in Nat /\ size \in Nat /\ label \in Labels  BY <1>2
    <3>3. QED  BY <1>1, <1>2, <1>3, <3>1, <3>2
  <2>2. CASE chunk \in Wrong
    <3>1. 0 \in Nat /\ 1 \in Nat /\ 2 \in Nat /\ 3 \in Nat  OBVIOUS
    <3>2. QED  BY <1>1, <1>2, <1>3, <2>2, <3>1
  <2>3. Chunks = Right \cup Wrong  BY DEF Chunks
  <2> HIDE DEF Right, Wrong
  <2>4. QED  BY <2>1, <2>2, <2>3
<1>5. QED  BY <1>4

\* Bringing chunks in order lists each of them once, by its offset.
LEMMA InOrderFacts ==
  ASSUME NEW chunks \in Seq(ChunkType)
  PROVE  /\ Blocks!InOrder(chunks) \in Seq(ChunkType)
         /\ Len(Blocks!InOrder(chunks)) = Len(chunks)
         /\ \E order \in Seq(DOMAIN chunks) :
              /\ DOMAIN order = DOMAIN chunks
              /\ \A k \in DOMAIN chunks :
                   Blocks!InOrder(chunks)[k] = chunks[order[k]]
              /\ \A i \in DOMAIN chunks : \E k \in DOMAIN chunks : order[k] = i
              /\ \A k, l \in DOMAIN chunks : order[k] = order[l] => k = l
              /\ \A k, l \in DOMAIN chunks :
                   k < l => PlacedBefore(chunks, order[k], order[l])
<1> DEFINE S == DOMAIN chunks
           order == Placing!Sorted(S, LAMBDA i, j : PlacedBefore(chunks, i, j))
           sorted == [k \in DOMAIN order |-> chunks[order[k]]]
<1>1. Len(chunks) \in Nat /\ S = 1 .. Len(chunks)
  OBVIOUS
<1>2. Cardinality(S) = Len(chunks) /\ IsFiniteSet(S)
  <2>1. IsFiniteSet(1 .. Len(chunks))
        /\ Cardinality(1 .. Len(chunks)) = Len(chunks)
    BY <1>1, FS_Interval
  <2>2. QED  BY <1>1, <2>1
<1>3. Blocks!InOrder(chunks) = sorted
  BY DEF Blocks!InOrder, Blocks!Sorted, Placing!Sorted, PlacedBefore,
         Blocks!Cardinality, Placing!Cardinality
<1>4. \A i \in S : /\ chunks[i].offset \in Nat /\ chunks[i].size \in Nat
                   /\ chunks[i] \in ChunkType /\ i \in Nat
  <2>1. ASSUME NEW i \in S  PROVE chunks[i] \in ChunkType /\ i \in Nat
    BY <1>1
  <2>2. \A chunk \in ChunkType : chunk.offset \in Nat /\ chunk.size \in Nat
    BY DEF ChunkType
  <2>3. QED  BY <2>1, <2>2
<1> HIDE DEF S
<1>5. Placing!Orders(Placing!Pairs(chunks, S), S)
  <2>1. \A i, j \in S : <<i, j>> \in Placing!Pairs(chunks, S)
                          <=> PlacedBefore(chunks, i, j)
    BY DEF Placing!Pairs
  <2>2. \A i \in S : ~PlacedBefore(chunks, i, i)
    BY <1>4 DEF PlacedBefore
  <2>3. ASSUME NEW i \in S, NEW j \in S, NEW k \in S,
               PlacedBefore(chunks, i, j), PlacedBefore(chunks, j, k)
        PROVE  PlacedBefore(chunks, i, k)
    BY <1>4, <2>3 DEF PlacedBefore
  <2>4. \A i, j \in S :
          i # j => PlacedBefore(chunks, i, j) \/ PlacedBefore(chunks, j, i)
    BY <1>4 DEF PlacedBefore
  <2>5. QED  BY <2>1, <2>2, <2>3, <2>4 DEF Placing!Orders
<1>6. Placing!Lists(order, Placing!Pairs(chunks, S), S)
  BY <1>2, <1>5, Placing!SortLists DEF Placing!IsFiniteSet, IsFiniteSet
<1> HIDE DEF order
<1>7. /\ order \in Seq(S) /\ Len(order) = Cardinality(S)
      /\ \A x \in S : \E i \in DOMAIN order : order[i] = x
      /\ \A i, j \in DOMAIN order : order[i] = order[j] => i = j
      /\ \A i, j \in DOMAIN order :
           i < j => <<order[i], order[j]>> \in Placing!Pairs(chunks, S)
  BY <1>6 DEF Placing!Lists, Placing!Cardinality, Cardinality
<1>8. DOMAIN order = S
  <2>1. DOMAIN order = 1 .. Len(order)  BY <1>7
  <2>2. QED  BY <1>1, <1>2, <1>7, <2>1 DEF S
<1>9. \A i, j : <<i, j>> \in Placing!Pairs(chunks, S)
                 => PlacedBefore(chunks, i, j)
  BY DEF Placing!Pairs
<1>10. \A k \in S : order[k] \in S
  <2>1. \A k \in DOMAIN order : order[k] \in S  BY <1>7
  <2>2. QED  BY <1>8, <2>1
<1>11. sorted \in Seq(ChunkType) /\ Len(sorted) = Len(chunks)
       /\ \A k \in S : sorted[k] = chunks[order[k]]
  <2>1. sorted \in [1 .. Len(chunks) -> ChunkType]
    BY <1>1, <1>4, <1>8, <1>10 DEF S
  <2>2. \A k \in S : sorted[k] = chunks[order[k]]  BY <1>8
  <2> HIDE DEF sorted
  <2>3. QED  BY <1>1, <2>1, <2>2, Placing!Listed
<1> HIDE DEF sorted
<1>12. \A k, l \in S : k < l => PlacedBefore(chunks, order[k], order[l])
  BY <1>7, <1>8, <1>9
<1>13. QED  BY <1>3, <1>7, <1>8, <1>11, <1>12 DEF S

\* A layout without gaps has each chunk behind the end of those before.
LEMMA LaidOut ==
  ASSUME NEW chunks \in Seq(ChunkType), Blocks!Contiguous(chunks)
  PROVE  \A i, j \in DOMAIN chunks :
           i < j => chunks[i].offset + chunks[i].size <= chunks[j].offset
<1> DEFINE N == Len(chunks)
           T == {m \in Nat : \A i, j \in 1 .. N :
                   i < j /\ j <= m =>
                     chunks[i].offset + chunks[i].size <= chunks[j].offset}
<1>1. N \in Nat /\ DOMAIN chunks = 1 .. N  OBVIOUS
<1>2. \A i \in 1 .. N : chunks[i].offset \in Nat /\ chunks[i].size \in Nat
  <2>1. \A i \in 1 .. N : chunks[i] \in ChunkType  OBVIOUS
  <2>2. QED  BY <2>1 DEF ChunkType
<1> HIDE DEF N
<1>3. 0 \in T  OBVIOUS
<1>4. ASSUME NEW m \in Nat, m \in T  PROVE m + 1 \in T
  <2>1. SUFFICES ASSUME NEW i \in 1 .. N, NEW j \in 1 .. N, i < j, j <= m + 1
                 PROVE  chunks[i].offset + chunks[i].size <= chunks[j].offset
    OBVIOUS
  <2>2. CASE j <= m  BY <1>4, <2>1, <2>2
  <2>3. CASE j = m + 1
    <3>1. m \in 1 .. N /\ j # 1 /\ j - 1 = m  BY <1>1, <2>1, <2>3
    <3>2. chunks[j].offset = chunks[m].offset + chunks[m].size
      BY <1>1, <3>1 DEF Blocks!Contiguous
    <3>3. CASE i = m  BY <1>2, <3>2, <3>3
    <3>4. CASE i < m
      <4>1. chunks[i].offset + chunks[i].size <= chunks[m].offset
        BY <1>4, <3>1, <3>4
      <4>2. /\ chunks[i].offset + chunks[i].size \in Nat
            /\ chunks[m].offset \in Nat /\ chunks[m].size \in Nat
        BY <1>2, <3>1
      <4>3. chunks[m].offset <= chunks[j].offset  BY <3>2, <4>2
      <4>4. chunks[j].offset \in Nat  BY <3>2, <4>2
      <4>5. QED  BY <4>1, <4>2, <4>3, <4>4
    <3>5. QED  BY <2>1, <2>3, <3>1, <3>3, <3>4
  <2>4. QED  BY <2>1, <2>2, <2>3
<1> HIDE DEF T
<1>5. Nat \subseteq T  BY <1>3, <1>4, Placing!Induction
<1>6. QED  BY <1>1, <1>5 DEF T

\* Two lists of the same chunks, each with every chunk behind those before, are
\* one.
LEMMA IncreasingIsOne ==
  ASSUME NEW s \in Seq(ChunkType), NEW t \in Seq(ChunkType),
         Len(s) = Len(t), Increases(s), Increases(t),
         \A i \in DOMAIN s : \E j \in DOMAIN t : s[i] = t[j],
         \A i \in DOMAIN t : \E j \in DOMAIN s : t[i] = s[j]
  PROVE  s = t
<1> DEFINE N == Len(s)
           D == {k \in 1 .. N : s[k] # t[k]}
<1>1. N \in Nat /\ DOMAIN s = 1 .. N /\ DOMAIN t = 1 .. N  OBVIOUS
<1>2. \A i \in 1 .. N : s[i].offset \in Nat /\ t[i].offset \in Nat
  <2>1. \A i \in 1 .. N : s[i] \in ChunkType /\ t[i] \in ChunkType  OBVIOUS
  <2>2. QED  BY <2>1 DEF ChunkType
<1> HIDE DEF N
<1>3. D = {}
  <2> SUFFICES ASSUME D # {}  PROVE FALSE  OBVIOUS
  <2>1. D \in SUBSET Nat  OBVIOUS
  <2> HIDE DEF D
  <2>2. PICK k \in D : \A x \in D : k <= x  BY <2>1, Placing!LeastNat
  <2> USE DEF D
  <2>3. k \in 1 .. N /\ s[k] # t[k]
        /\ \A x \in 1 .. N : x < k => s[x] = t[x]
    BY <1>1, <2>2
  <2>4. PICK m \in 1 .. N : s[k] = t[m]  BY <1>1, <2>3
  <2>5. PICK l \in 1 .. N : t[k] = s[l]  BY <1>1, <2>3
  <2>6. k < m
    <3>1. CASE m < k
      <4>1. s[m] = s[k]  BY <2>3, <2>4, <3>1
      <4>2. s[m].offset < s[k].offset
        BY <1>1, <2>3, <3>1 DEF Increases
      <4>3. QED  BY <1>2, <2>3, <4>1, <4>2
    <3>2. CASE m = k  BY <2>3, <2>4, <3>2
    <3>3. QED  BY <1>1, <2>3, <3>1, <3>2
  <2>7. k < l
    <3>1. CASE l < k
      <4>1. t[l] = t[k]  BY <2>3, <2>5, <3>1
      <4>2. t[l].offset < t[k].offset
        BY <1>1, <2>3, <3>1 DEF Increases
      <4>3. QED  BY <1>2, <2>3, <4>1, <4>2
    <3>2. CASE l = k  BY <2>3, <2>5, <3>2
    <3>3. QED  BY <1>1, <2>3, <3>1, <3>2
  <2>8. t[k].offset < s[k].offset
    BY <1>1, <2>3, <2>4, <2>6 DEF Increases
  <2>9. s[k].offset < t[k].offset
    BY <1>1, <2>3, <2>5, <2>7 DEF Increases
  <2>10. s[k].offset \in Nat /\ t[k].offset \in Nat  BY <1>2, <2>3
  <2> DEFINE here == s[k].offset
             there == t[k].offset
  <2>11. here \in Nat /\ there \in Nat /\ here < there /\ there < here
    BY <2>8, <2>9, <2>10
  <2> HIDE DEF here, there
  <2>12. QED  BY <2>11
<1>4. \A k \in 1 .. N : s[k] = t[k]  BY <1>3
<1>5. QED  BY <1>4, SeqEqual DEF N

\* Chunks that begin at places of their own.
Apart(chunks) ==
  \A i, j \in DOMAIN chunks : i # j => chunks[i].offset # chunks[j].offset

\* In order they increase, and they were apart if in order they increase.
LEMMA InOrderIncreases ==
  ASSUME NEW chunks \in Seq(ChunkType)
  PROVE  Apart(chunks) <=> Increases(Blocks!InOrder(chunks))
<1> DEFINE S == DOMAIN chunks
           sorted == Blocks!InOrder(chunks)
<1>1. PICK order \in Seq(S) :
        /\ DOMAIN order = S
        /\ \A k \in S : sorted[k] = chunks[order[k]]
        /\ \A i \in S : \E k \in S : order[k] = i
        /\ \A k, l \in S : order[k] = order[l] => k = l
        /\ \A k, l \in S : k < l => PlacedBefore(chunks, order[k], order[l])
  BY InOrderFacts
<1>2. DOMAIN sorted = S
  <2>1. sorted \in Seq(ChunkType) /\ Len(sorted) = Len(chunks)
    BY InOrderFacts
  <2> HIDE DEF sorted
  <2>2. QED  BY <2>1
<1>3. S \subseteq Nat /\ \A k \in S : order[k] \in S
  <2>1. S \subseteq Nat  OBVIOUS
  <2> HIDE DEF S, sorted
  <2>2. order \in Seq(S) /\ DOMAIN order = S  BY <1>1
  <2>3. \A k \in DOMAIN order : order[k] \in S  BY <2>2
  <2>4. QED  BY <2>1, <2>2, <2>3
<1>4. \A i \in S : chunks[i].offset \in Nat
  <2>1. \A i \in S : chunks[i] \in ChunkType  OBVIOUS
  <2>2. QED  BY <2>1 DEF ChunkType
<1> HIDE DEF S, sorted
<1>5. ASSUME \A i, j \in S : i # j => chunks[i].offset # chunks[j].offset,
             NEW k \in S, NEW l \in S, k < l
      PROVE  sorted[k].offset < sorted[l].offset
  <2>1. order[k] \in S /\ order[l] \in S  BY <1>3, <1>5
  <2>2. order[k] # order[l]
    <3>1. k # l  BY <1>3, <1>5
    <3>2. QED  BY <1>1, <1>5, <3>1
  <2>3. PlacedBefore(chunks, order[k], order[l])  BY <1>1, <1>5
  <2>4. chunks[order[k]].offset # chunks[order[l]].offset
    BY <1>5, <2>1, <2>2
  <2>5. chunks[order[k]].offset < chunks[order[l]].offset
    BY <2>3, <2>4 DEF PlacedBefore
  <2>6. QED  BY <1>1, <1>5, <2>5
<1>6. ASSUME \A k, l \in S : k < l => sorted[k].offset < sorted[l].offset,
             NEW i \in S, NEW j \in S, i # j
      PROVE  chunks[i].offset # chunks[j].offset
  <2>1. PICK k \in S : order[k] = i  BY <1>1, <1>6
  <2>2. PICK l \in S : order[l] = j  BY <1>1, <1>6
  <2>3. sorted[k] = chunks[i] /\ sorted[l] = chunks[j]
    BY <1>1, <2>1, <2>2
  <2>4. k < l \/ l < k
    <3>1. k # l  BY <1>6, <2>1, <2>2
    <3>2. QED  BY <1>3, <3>1
  <2>5. sorted[k].offset < sorted[l].offset
        \/ sorted[l].offset < sorted[k].offset
    BY <1>6, <2>4
  <2>6. QED  BY <1>4, <2>3, <2>5
<1>7. QED  BY <1>2, <1>5, <1>6 DEF Apart, Increases, S, sorted

\* Whoever lists chunks that are apart, they are brought in one order.
LEMMA OneOrder ==
  ASSUME NEW c \in Seq(ChunkType), NEW d \in Seq(ChunkType),
         Len(c) = Len(d), Apart(c), Apart(d),
         \A i \in DOMAIN c : \E j \in DOMAIN d : c[i] = d[j],
         \A i \in DOMAIN d : \E j \in DOMAIN c : d[i] = c[j]
  PROVE  Blocks!InOrder(c) = Blocks!InOrder(d)
<1> DEFINE s == Blocks!InOrder(c)
           t == Blocks!InOrder(d)
           D == DOMAIN c
<1>1. DOMAIN d = D  OBVIOUS
<1>2. /\ s \in Seq(ChunkType) /\ t \in Seq(ChunkType)
      /\ Len(s) = Len(c) /\ Len(t) = Len(d)
  BY InOrderFacts
<1>3. Increases(s) /\ Increases(t)  BY InOrderIncreases
<1>4. PICK p \in Seq(D) :
        /\ DOMAIN p = D
        /\ \A k \in D : s[k] = c[p[k]]
        /\ \A i \in D : \E k \in D : p[k] = i
  BY InOrderFacts
<1>5. PICK q \in Seq(D) :
        /\ DOMAIN q = D
        /\ \A k \in D : t[k] = d[q[k]]
        /\ \A i \in D : \E k \in D : q[k] = i
  <2>1. PICK r \in Seq(DOMAIN d) :
          /\ DOMAIN r = DOMAIN d
          /\ \A k \in DOMAIN d : t[k] = d[r[k]]
          /\ \A i \in DOMAIN d : \E k \in DOMAIN d : r[k] = i
    BY InOrderFacts
  <2> HIDE DEF D, t, s
  <2>2. r \in Seq(D) /\ DOMAIN r = D  BY <1>1, <2>1
  <2>3. \A k \in D : t[k] = d[r[k]]  BY <1>1, <2>1
  <2>4. \A i \in D : \E k \in D : r[k] = i  BY <1>1, <2>1
  <2>5. QED  BY <2>2, <2>3, <2>4, Zenon
<1>6. \A k \in D : p[k] \in D /\ q[k] \in D
  <2>1. \A k \in DOMAIN p : p[k] \in D  OBVIOUS
  <2>2. \A k \in DOMAIN q : q[k] \in D  OBVIOUS
  <2>3. QED  BY <1>4, <1>5, <2>1, <2>2
<1>7. /\ \A i \in D : \E j \in D : c[i] = d[j]
      /\ \A i \in D : \E j \in D : d[i] = c[j]
  BY <1>1
<1> HIDE DEF s, t
<1>8. DOMAIN s = D /\ DOMAIN t = D  BY <1>2
<1> HIDE DEF D
<1>9. ASSUME NEW k \in D  PROVE \E m \in D : s[k] = t[m]
  <2>1. PICK j \in D : c[p[k]] = d[j]  BY <1>6, <1>7
  <2>2. PICK m \in D : q[m] = j  BY <1>5
  <2>3. s[k] = c[p[k]]  BY <1>4
  <2>4. t[m] = d[q[m]]  BY <1>5
  <2>5. s[k] = t[m]  BY <2>1, <2>2, <2>3, <2>4
  <2>6. QED  BY <2>5
<1>10. ASSUME NEW k \in D  PROVE \E m \in D : t[k] = s[m]
  <2>1. PICK j \in D : d[q[k]] = c[j]  BY <1>6, <1>7
  <2>2. PICK m \in D : p[m] = j  BY <1>4
  <2>3. t[k] = d[q[k]]  BY <1>5
  <2>4. s[m] = c[p[m]]  BY <1>4
  <2>5. t[k] = s[m]  BY <2>1, <2>2, <2>3, <2>4
  <2>6. QED  BY <2>5
<1>11. s = t  BY <1>2, <1>3, <1>8, <1>9, <1>10, IncreasingIsOne
<1>12. QED  BY <1>11 DEF s, t

\* What is in order already stays as it is.
LEMMA InOrderStays ==
  ASSUME NEW chunks \in Seq(ChunkType), Increases(chunks)
  PROVE  Blocks!InOrder(chunks) = chunks
<1> DEFINE sorted == Blocks!InOrder(chunks)
           S == DOMAIN chunks
<1>1. sorted \in Seq(ChunkType) /\ Len(sorted) = Len(chunks)
  BY InOrderFacts
<1>2. Apart(chunks)
  <2>1. \A i \in S : i \in Nat /\ chunks[i].offset \in Nat
    <3>1. \A i \in S : i \in Nat /\ chunks[i] \in ChunkType  OBVIOUS
    <3>2. QED  BY <3>1 DEF ChunkType
  <2>2. ASSUME NEW i \in S, NEW j \in S, i # j
        PROVE  chunks[i].offset # chunks[j].offset
    <3>1. i < j \/ j < i  BY <2>1, <2>2
    <3>2. QED  BY <2>1, <2>2, <3>1 DEF Increases
  <2>3. QED  BY <2>2 DEF Apart
<1>3. Increases(sorted)  BY <1>2, InOrderIncreases
<1>4. PICK p \in Seq(S) :
        /\ DOMAIN p = S
        /\ \A k \in S : sorted[k] = chunks[p[k]]
        /\ \A i \in S : \E k \in S : p[k] = i
  BY InOrderFacts
<1> HIDE DEF sorted
<1>5. DOMAIN sorted = S  BY <1>1
<1> HIDE DEF S
<1>6. \A k \in S : p[k] \in S
  <2>1. \A k \in DOMAIN p : p[k] \in S  OBVIOUS
  <2>2. QED  BY <1>4, <2>1
<1>7. \A k \in S : \E m \in S : sorted[k] = chunks[m]  BY <1>4, <1>6
<1>8. ASSUME NEW k \in S  PROVE \E m \in S : chunks[k] = sorted[m]
  <2>1. PICK m \in S : p[m] = k  BY <1>4
  <2>2. sorted[m] = chunks[p[m]]  BY <1>4
  <2>3. QED  BY <2>1, <2>2
<1>9. sorted = chunks
  BY <1>1, <1>3, <1>5, <1>7, <1>8, IncreasingIsOne DEF S
<1>10. QED  BY <1>9 DEF sorted

\* None is not the name a chunk gets for its place.
NoneIsNoLabel == \A n \in Nat : None # <<"chunk", n>>

Renamed(chunks) ==
  [i \in DOMAIN chunks |-> Blocks!NormalizeChunk(chunks[i], i - 1)]

Labelled(chunks) == \A i \in DOMAIN chunks : chunks[i].label # None

\* A chunk is named and goes by its hash once, and is then left as it is.
LEMMA NormalizedFacts ==
  ASSUME NEW chunk \in ChunkType, NEW n \in Nat
  PROVE  /\ Blocks!NormalizeChunk(chunk, n) \in ChunkType
         /\ Blocks!NormalizeChunk(chunk, n).offset = chunk.offset
         /\ Blocks!NormalizeChunk(chunk, n).size = chunk.size
         /\ Blocks!NormalizeChunk(chunk, n).sparse = chunk.sparse
         /\ Blocks!NormalizeChunk(chunk, n).bytes = chunk.bytes
         /\ Blocks!NormalizeChunk(chunk, n).contentHash
              = Blocks!ContentHash(chunk)
         /\ Blocks!ContentHash(Blocks!NormalizeChunk(chunk, n))
              = Blocks!ContentHash(chunk)
         /\ NoneIsNoLabel => Blocks!NormalizeChunk(chunk, n).label # None
         /\ \A m \in Nat :
              /\ NoneIsNoLabel
                   => Blocks!NormalizeChunk(Blocks!NormalizeChunk(chunk, n), m)
                        = Blocks!NormalizeChunk(chunk, n)
              /\ chunk.label # None
                   => Blocks!NormalizeChunk(chunk, m)
                        = Blocks!NormalizeChunk(chunk, n)
<1> DEFINE named == <<"chunk", n>>
           label == IF chunk.label = None THEN named ELSE chunk.label
           hash == Blocks!ContentHash(chunk)
           normal == Blocks!NormalizeChunk(chunk, n)
<1>1. named \in Labels  BY DEF Labels
<1>2. NoneIsNoLabel => named # None  BY DEF NoneIsNoLabel
<1>3. /\ chunk.offset \in Nat /\ chunk.size \in Nat /\ chunk.label \in Labels
      /\ chunk.sparse \in BOOLEAN /\ chunk.bytes \in Contents
      /\ chunk.hash \in Contents /\ chunk.contentHash \in Contents
  BY DEF ChunkType
<1>4. hash \in Contents  BY <1>3 DEF Blocks!ContentHash
<1>5. normal = [chunk EXCEPT !.hash = None, !.contentHash = hash,
                             !.label = label]
  BY DEF Blocks!NormalizeChunk
<1> HIDE DEF named
<1>6. label \in Labels /\ (NoneIsNoLabel => label # None)
  BY <1>1, <1>2, <1>3
<1>7. None \in Contents  BY DEF Contents
<1>8. hash = None => chunk.bytes = None  BY DEF Blocks!ContentHash
<1>9. chunk.label # None => label = chunk.label  OBVIOUS
<1> HIDE DEF label, hash, normal
<1>10. /\ normal \in ChunkType /\ normal.offset = chunk.offset
       /\ normal.size = chunk.size /\ normal.sparse = chunk.sparse
       /\ normal.bytes = chunk.bytes /\ normal.contentHash = hash
       /\ normal.label = label /\ normal.hash = None
  BY <1>3, <1>4, <1>5, <1>6, <1>7 DEF ChunkType
<1>11. Blocks!ContentHash(normal) = hash
  BY <1>8, <1>10 DEF Blocks!ContentHash
<1>12. ASSUME NEW m \in Nat, NoneIsNoLabel
       PROVE  Blocks!NormalizeChunk(normal, m) = normal
  <2>1. Blocks!NormalizeChunk(normal, m)
          = [normal EXCEPT !.hash = normal.hash,
                           !.contentHash = normal.contentHash,
                           !.label = normal.label]
    BY <1>6, <1>10, <1>11, <1>12 DEF Blocks!NormalizeChunk
  <2>2. [normal EXCEPT !.hash = normal.hash,
                       !.contentHash = normal.contentHash,
                       !.label = normal.label] = normal
    BY <1>10 DEF ChunkType
  <2>3. QED  BY <2>1, <2>2
<1>13. ASSUME NEW m \in Nat, chunk.label # None
       PROVE  Blocks!NormalizeChunk(chunk, m) = normal
  <2>1. Blocks!NormalizeChunk(chunk, m)
          = [chunk EXCEPT !.hash = None, !.contentHash = hash,
                          !.label = chunk.label]
    BY <1>13 DEF Blocks!NormalizeChunk, hash
  <2>2. QED  BY <1>5, <1>9, <1>13, <2>1
<1>14. QED
  BY <1>6, <1>10, <1>11, <1>12, <1>13 DEF normal, hash

\* Renamed, chunks are chunks at the same places.
LEMMA NamedFacts ==
  ASSUME NEW chunks \in Seq(ChunkType)
  PROVE  /\ Renamed(chunks) \in Seq(ChunkType)
         /\ Len(Renamed(chunks)) = Len(chunks)
         /\ \A i \in DOMAIN chunks :
              /\ Renamed(chunks)[i] = Blocks!NormalizeChunk(chunks[i], i - 1)
              /\ chunks[i] \in ChunkType /\ i - 1 \in Nat
              /\ Renamed(chunks)[i].offset = chunks[i].offset
<1> DEFINE N == Len(chunks)
           named == Renamed(chunks)
<1>1. N \in Nat /\ DOMAIN chunks = 1 .. N
      /\ \A i \in 1 .. N : chunks[i] \in ChunkType /\ i - 1 \in Nat
  OBVIOUS
<1>2. \A i \in 1 .. N :
        /\ Blocks!NormalizeChunk(chunks[i], i - 1) \in ChunkType
        /\ Blocks!NormalizeChunk(chunks[i], i - 1).offset = chunks[i].offset
  BY <1>1, NormalizedFacts
<1>3. named = [i \in 1 .. N |-> Blocks!NormalizeChunk(chunks[i], i - 1)]
  BY <1>1 DEF Renamed
<1>4. named \in [1 .. N -> ChunkType]
      /\ \A i \in 1 .. N : named[i] = Blocks!NormalizeChunk(chunks[i], i - 1)
  BY <1>2, <1>3
<1> HIDE DEF named, N
<1>5. named \in Seq(ChunkType) /\ Len(named) = N
  BY <1>1, <1>4, Placing!Listed
<1>6. QED  BY <1>1, <1>2, <1>4, <1>5 DEF named, N

\* What is declared is laid out without gaps and made of what was given.
LEMMA DeclaredFacts ==
  ASSUME NEW chunks \in Seq(ChunkType),
         Blocks!NormalizeDeclaration(chunks) # None
  PROVE  LET declared == Blocks!NormalizeDeclaration(chunks)
         IN  /\ declared = Blocks!InOrder(Renamed(chunks))
             /\ declared \in Seq(ChunkType) /\ declared # <<>>
             /\ Blocks!Contiguous(declared) /\ Increases(declared)
             /\ \A i \in DOMAIN declared :
                  /\ declared[i].size > 0
                  /\ \E chunk \in ChunkType, n \in Nat :
                       /\ Blocks!ValidChunk(chunk)
                       /\ declared[i] = Blocks!NormalizeChunk(chunk, n)
<1> DEFINE declared == Blocks!NormalizeDeclaration(chunks)
           named == Renamed(chunks)
           D == DOMAIN chunks
<1>1. /\ declared = Blocks!InOrder(named) /\ chunks # <<>>
      /\ \A i \in D : Blocks!ValidChunk(chunks[i])
      /\ Blocks!Contiguous(declared)
  BY DEF Blocks!NormalizeDeclaration, Renamed
<1>2. named \in Seq(ChunkType) /\ Len(named) = Len(chunks)
  BY NamedFacts
<1> HIDE DEF named, declared
<1>3. Len(chunks) \in Nat \ {0} /\ D = 1 .. Len(chunks)
  BY <1>1
<1>4. DOMAIN named = D  BY <1>2, <1>3
<1>5. declared \in Seq(ChunkType) /\ Len(declared) = Len(chunks)
  BY <1>1, <1>2, InOrderFacts
<1>6. DOMAIN declared = D /\ declared # <<>>  BY <1>3, <1>5
<1>7. PICK p \in Seq(DOMAIN named) :
        /\ DOMAIN p = DOMAIN named
        /\ \A k \in DOMAIN named : declared[k] = named[p[k]]
  BY <1>1, <1>2, InOrderFacts
<1>8. \A k \in DOMAIN p : p[k] \in DOMAIN named  OBVIOUS
<1> HIDE DEF D
<1>9. \A k \in D : p[k] \in D /\ declared[k] = named[p[k]]
  BY <1>4, <1>7, <1>8
<1>10. ASSUME NEW k \in D
       PROVE  /\ declared[k].size > 0
              /\ \E chunk \in ChunkType, n \in Nat :
                   /\ Blocks!ValidChunk(chunk)
                   /\ declared[k] = Blocks!NormalizeChunk(chunk, n)
  <2> DEFINE i == p[k]
             chunk == chunks[i]
             n == i - 1
  <2>1. i \in D /\ declared[k] = named[i]  BY <1>9
  <2> HIDE DEF i
  <2>2. /\ named[i] = Blocks!NormalizeChunk(chunk, n)
        /\ chunk \in ChunkType /\ n \in Nat
    BY <2>1, NamedFacts DEF named, D
  <2>3. Blocks!ValidChunk(chunk)  BY <1>1, <2>1
  <2> HIDE DEF chunk, n
  <2>4. declared[k].size = chunk.size  BY <2>1, <2>2, NormalizedFacts
  <2>5. chunk.size > 0  BY <2>3 DEF Blocks!ValidChunk
  <2>6. declared[k] = Blocks!NormalizeChunk(chunk, n)  BY <2>1, <2>2
  <2>7. QED  BY <2>2, <2>3, <2>4, <2>5, <2>6
<1>11. Increases(declared)
  <2>1. \A i, j \in D :
          i < j => declared[i].offset + declared[i].size <= declared[j].offset
    BY <1>1, <1>5, <1>6, LaidOut
  <2>2. \A i \in D : declared[i].offset \in Nat /\ declared[i].size \in Nat
    <3>1. \A i \in DOMAIN declared : declared[i] \in ChunkType  BY <1>5
    <3>2. QED  BY <1>6, <3>1 DEF ChunkType
  <2>3. ASSUME NEW i \in D, NEW j \in D, i < j
        PROVE  declared[i].offset < declared[j].offset
    BY <1>10, <2>1, <2>2, <2>3
  <2>4. QED  BY <1>6, <2>3 DEF Increases
<1>12. QED
  BY <1>1, <1>5, <1>6, <1>10, <1>11 DEF declared, named

\* What was declared is left as it is, or refused, when it is declared again.
LEMMA DeclaredAgain ==
  ASSUME NoneIsNoLabel, NEW chunks \in Seq(ChunkType), NEW declared,
         declared = Blocks!NormalizeDeclaration(chunks), declared # None,
         Blocks!NormalizeDeclaration(declared) # None
  PROVE  Blocks!NormalizeDeclaration(declared) = declared
<1>1. /\ declared \in Seq(ChunkType) /\ Increases(declared)
      /\ \A i \in DOMAIN declared : \E chunk \in ChunkType, n \in Nat :
           declared[i] = Blocks!NormalizeChunk(chunk, n)
  BY DeclaredFacts
<1>2. ASSUME NEW i \in DOMAIN declared  PROVE Renamed(declared)[i] = declared[i]
  <2>1. PICK chunk \in ChunkType, n \in Nat :
          declared[i] = Blocks!NormalizeChunk(chunk, n)
    BY <1>1
  <2>2. Renamed(declared)[i] = Blocks!NormalizeChunk(declared[i], i - 1)
        /\ i - 1 \in Nat
    BY <1>1, NamedFacts
  <2>3. QED  BY <2>1, <2>2, NormalizedFacts
<1>3. Renamed(declared) \in Seq(ChunkType)
      /\ Len(Renamed(declared)) = Len(declared)
  BY <1>1, NamedFacts
<1>4. Renamed(declared) = declared  BY <1>1, <1>2, <1>3, SeqEqual
<1>5. Blocks!InOrder(declared) = declared  BY <1>1, InOrderStays
<1>6. Blocks!NormalizeDeclaration(declared)
        = Blocks!InOrder(Renamed(declared))
  BY <1>1, DeclaredFacts
<1>7. QED  BY <1>4, <1>5, <1>6

\* A layout has every byte once.
LEMMA BytesOnce ==
  ASSUME NEW chunks \in Seq(ChunkType), NEW declared,
         declared = Blocks!NormalizeDeclaration(chunks), declared # None,
         NEW at \in 0 .. Blocks!TotalSize(declared) - 1
  PROVE  Cardinality({i \in DOMAIN declared :
           /\ declared[i].offset <= at
           /\ at < declared[i].offset + declared[i].size}) = 1
<1> DEFINE N == Len(declared)
           D == {i \in 1 .. N : at < declared[i].offset + declared[i].size}
           Has(i) == /\ declared[i].offset <= at
                     /\ at < declared[i].offset + declared[i].size
<1>1. /\ declared \in Seq(ChunkType) /\ declared # <<>>
      /\ Blocks!Contiguous(declared)
      /\ \A i \in DOMAIN declared : declared[i].size > 0
  BY DeclaredFacts
<1>2. N \in Nat \ {0} /\ DOMAIN declared = 1 .. N  BY <1>1
<1>3. \A i \in 1 .. N : declared[i].offset \in Nat /\ declared[i].size \in Nat
  <2>1. \A i \in 1 .. N : declared[i] \in ChunkType  BY <1>1
  <2>2. QED  BY <2>1 DEF ChunkType
<1>4. \A i, j \in 1 .. N :
        i < j => declared[i].offset + declared[i].size <= declared[j].offset
  BY <1>1, <1>2, LaidOut
<1>5. Blocks!TotalSize(declared) = declared[N].offset + declared[N].size
  BY DEF Blocks!TotalSize, Blocks!Last
<1> HIDE DEF N
<1>6. N \in 1 .. N  BY <1>2
<1>7. at \in Nat /\ at < declared[N].offset + declared[N].size
  BY <1>3, <1>5, <1>6
<1>8. D # {} /\ D \in SUBSET Nat  BY <1>6, <1>7
<1> HIDE DEF D
<1>9. PICK i \in D : \A x \in D : i <= x  BY <1>8, Placing!LeastNat
<1> USE DEF D
<1>10. i \in 1 .. N /\ at < declared[i].offset + declared[i].size
       /\ \A x \in 1 .. N :
            at < declared[x].offset + declared[x].size => i <= x
  BY <1>9
<1>11. declared[i].offset <= at
  <2>1. CASE i = 1
    <3>1. declared[i].offset = 0
      BY <1>1, <1>2, <1>10, <2>1 DEF Blocks!Contiguous
    <3>2. QED  BY <1>7, <3>1
  <2>2. CASE i # 1
    <3>1. i - 1 \in 1 .. N /\ ~ i <= i - 1  BY <1>2, <1>10, <2>2
    <3>2. ~ at < declared[i - 1].offset + declared[i - 1].size
      BY <1>10, <3>1
    <3>3. declared[i].offset = declared[i - 1].offset + declared[i - 1].size
      BY <1>1, <1>2, <1>10, <2>2 DEF Blocks!Contiguous
    <3>4. declared[i - 1].offset \in Nat /\ declared[i - 1].size \in Nat
      BY <1>3, <3>1
    <3>5. QED  BY <1>7, <3>2, <3>3, <3>4
  <2>3. QED  BY <2>1, <2>2
<1>12. ASSUME NEW j \in 1 .. N, Has(j)  PROVE j = i
  <2>1. i <= j  BY <1>10, <1>12
  <2>2. CASE i < j
    <3>1. declared[i].offset + declared[i].size <= declared[j].offset
      BY <1>4, <1>10, <2>2
    <3>2. /\ declared[i].offset \in Nat /\ declared[i].size \in Nat
          /\ declared[j].offset \in Nat
      BY <1>3, <1>10
    <3>3. QED  BY <1>7, <1>10, <1>12, <3>1, <3>2
  <2>3. QED  BY <1>2, <1>10, <2>1, <2>2
<1>13. {j \in DOMAIN declared : Has(j)} = {i}
  <2>1. i \in 1 .. N /\ Has(i)  BY <1>10, <1>11
  <2> HIDE DEF Has
  <2>2. QED  BY <1>2, <1>12, <2>1
<1>14. Cardinality({i}) = 1  BY FS_Singleton
<1>15. QED  BY <1>13, <1>14

\* d is c from the end, both with names for all they have.
Mirrors(c, d) ==
  /\ Len(c) = Len(d)
  /\ Labelled(c) /\ Labelled(d)
  /\ \A i \in DOMAIN c : d[i] = c[Len(c) + 1 - i]

Valid(chunks) ==
  chunks # <<>> /\ \A i \in DOMAIN chunks : Blocks!ValidChunk(chunks[i])

\* A mirror has a mirror, and is as valid as what it mirrors.
LEMMA MirrorsBack ==
  ASSUME NEW c \in Seq(ChunkType), NEW d \in Seq(ChunkType), Mirrors(c, d)
  PROVE  Mirrors(d, c) /\ (Valid(c) => Valid(d))
<1> DEFINE N == Len(c)
<1>1. N \in Nat /\ DOMAIN c = 1 .. N /\ DOMAIN d = 1 .. N /\ Len(d) = N
  BY DEF Mirrors
<1>2. \A i \in 1 .. N : N + 1 - i \in 1 .. N /\ N + 1 - (N + 1 - i) = i
  BY <1>1
<1>3. \A i \in 1 .. N : d[i] = c[N + 1 - i]  BY <1>1 DEF Mirrors
<1>4. Mirrors(d, c)
  <2>1. ASSUME NEW i \in 1 .. N  PROVE c[i] = d[N + 1 - i]
    <3>1. d[N + 1 - i] = c[N + 1 - (N + 1 - i)]  BY <1>2, <1>3
    <3>2. QED  BY <1>2, <3>1
  <2>2. QED  BY <1>1, <2>1 DEF Mirrors
<1>5. ASSUME Valid(c)  PROVE Valid(d)
  <2>1. N # 0  BY <1>5 DEF Valid
  <2>2. d # <<>>  BY <1>1, <2>1
  <2>3. \A i \in 1 .. N : Blocks!ValidChunk(d[i])
    BY <1>1, <1>2, <1>3, <1>5 DEF Valid
  <2>4. QED  BY <1>1, <2>2, <2>3 DEF Valid
<1>6. QED  BY <1>4, <1>5

\* What is a layout one way round is the same layout the other.
LEMMA MirrorsInOrder ==
  ASSUME NEW c \in Seq(ChunkType), NEW d \in Seq(ChunkType), Mirrors(c, d),
         Valid(c), Blocks!Contiguous(Blocks!InOrder(Renamed(c)))
  PROVE  /\ Blocks!NormalizeDeclaration(d) = Blocks!NormalizeDeclaration(c)
         /\ Valid(d) /\ Blocks!Contiguous(Blocks!InOrder(Renamed(d)))
<1> DEFINE N == Len(c)
           s == Renamed(c)
           t == Renamed(d)
<1>1. N \in Nat /\ DOMAIN c = 1 .. N /\ DOMAIN d = 1 .. N /\ Len(d) = N
  BY DEF Mirrors
<1>2. /\ s \in Seq(ChunkType) /\ Len(s) = N /\ t \in Seq(ChunkType)
      /\ Len(t) = N
      /\ \A i \in 1 .. N :
           /\ s[i] = Blocks!NormalizeChunk(c[i], i - 1) /\ c[i] \in ChunkType
           /\ t[i] = Blocks!NormalizeChunk(d[i], i - 1) /\ d[i] \in ChunkType
           /\ i - 1 \in Nat /\ s[i].offset = c[i].offset
      /\ \A i \in 1 .. N : t[i].offset = d[i].offset
  BY <1>1, NamedFacts
<1> HIDE DEF N, s, t
<1>3. \A i \in 1 .. N : N + 1 - i \in 1 .. N  BY <1>1
<1>4. ASSUME NEW i \in 1 .. N  PROVE t[i] = s[N + 1 - i]
  <2> DEFINE j == N + 1 - i
  <2>1. j \in 1 .. N  BY <1>3
  <2>2. d[i] = c[j]  BY <1>1 DEF Mirrors, N
  <2>3. c[j].label # None  BY <1>1, <2>1 DEF Mirrors, Labelled
  <2> HIDE DEF j
  <2>4. s[j] = Blocks!NormalizeChunk(c[j], j - 1)
        /\ t[i] = Blocks!NormalizeChunk(c[j], i - 1)
        /\ c[j] \in ChunkType /\ i - 1 \in Nat /\ j - 1 \in Nat
    BY <1>2, <2>1, <2>2
  <2>5. t[i] = s[j]  BY <2>3, <2>4, NormalizedFacts
  <2>6. QED  BY <2>5 DEF j
<1>5. DOMAIN s = 1 .. N /\ DOMAIN t = 1 .. N  BY <1>1, <1>2
<1>6. Blocks!NormalizeDeclaration(c) = Blocks!InOrder(s)
  BY DEF Valid, Blocks!NormalizeDeclaration, Renamed, s
<1>7. Increases(Blocks!InOrder(s))
  <2> DEFINE sorted == Blocks!InOrder(s)
  <2>1. sorted \in Seq(ChunkType) /\ Len(sorted) = N
    BY <1>2, InOrderFacts
  <2>2. PICK p \in Seq(DOMAIN s) :
          /\ DOMAIN p = DOMAIN s
          /\ \A k \in DOMAIN s : sorted[k] = s[p[k]]
    BY <1>2, InOrderFacts
  <2>3. \A k \in DOMAIN p : p[k] \in DOMAIN s  OBVIOUS
  <2>4. Blocks!Contiguous(sorted)  BY DEF s
  <2> HIDE DEF sorted
  <2>5. DOMAIN sorted = 1 .. N  BY <1>1, <2>1
  <2>6. \A i, j \in 1 .. N :
          i < j => sorted[i].offset + sorted[i].size <= sorted[j].offset
    BY <2>1, <2>4, <2>5, LaidOut
  <2>7. ASSUME NEW k \in 1 .. N
        PROVE  /\ sorted[k].offset \in Nat /\ sorted[k].size \in Nat
               /\ sorted[k].size > 0
    <3> DEFINE i == p[k]
    <3>1. i \in 1 .. N /\ sorted[k] = s[i]  BY <1>5, <2>2, <2>3
    <3> HIDE DEF i
    <3>2. Blocks!ValidChunk(c[i])  BY <1>1, <3>1 DEF Valid
    <3>3. s[i].size = c[i].size
      <4>1. /\ s[i] = Blocks!NormalizeChunk(c[i], i - 1)
            /\ c[i] \in ChunkType /\ i - 1 \in Nat
        BY <1>2, <3>1
      <4>2. \A chunk \in ChunkType, n \in Nat :
              Blocks!NormalizeChunk(chunk, n).size = chunk.size
        BY NormalizedFacts
      <4> HIDE DEF s
      <4>3. QED  BY <4>1, <4>2
    <3>4. s[i].size > 0  BY <3>2, <3>3 DEF Blocks!ValidChunk
    <3>5. s[i] \in ChunkType  BY <1>2, <1>5, <3>1
    <3>6. QED  BY <3>1, <3>4, <3>5 DEF ChunkType
  <2>8. ASSUME NEW i \in 1 .. N, NEW j \in 1 .. N, i < j
        PROVE  sorted[i].offset < sorted[j].offset
    BY <2>6, <2>7, <2>8
  <2>9. QED  BY <2>5, <2>8 DEF Increases, sorted
<1>8. Apart(s)  BY <1>2, <1>7, InOrderIncreases
<1>9. Apart(t)
  <2>1. ASSUME NEW i \in 1 .. N, NEW j \in 1 .. N, i # j
        PROVE  t[i].offset # t[j].offset
    <3>1. N + 1 - i # N + 1 - j  BY <1>1, <2>1
    <3>2. s[N + 1 - i].offset # s[N + 1 - j].offset
      BY <1>3, <1>5, <1>8, <3>1 DEF Apart
    <3>3. QED  BY <1>4, <3>2
  <2>2. QED  BY <1>5, <2>1 DEF Apart
<1>10. ASSUME NEW i \in 1 .. N
       PROVE  /\ \E j \in 1 .. N : t[i] = s[j]
              /\ \E j \in 1 .. N : s[i] = t[j]
  <2>1. t[i] = s[N + 1 - i]  BY <1>4
  <2>2. t[N + 1 - i] = s[N + 1 - (N + 1 - i)]  BY <1>3, <1>4
  <2>3. N + 1 - (N + 1 - i) = i  BY <1>1
  <2>4. QED  BY <1>3, <2>1, <2>2, <2>3
<1>11. Blocks!InOrder(s) = Blocks!InOrder(t)
  BY <1>2, <1>5, <1>8, <1>9, <1>10, OneOrder
<1>12. Valid(d)  BY MirrorsBack
<1>13. Blocks!NormalizeDeclaration(d) = Blocks!InOrder(t)
  BY <1>11, <1>12 DEF Valid, Blocks!NormalizeDeclaration, Renamed, s, t
<1>14. QED  BY <1>6, <1>11, <1>12, <1>13 DEF s, t

\* Chunks with names are declared alike or refused, both ways round.
LEMMA MirrorsAlike ==
  ASSUME NEW c \in Seq(ChunkType), NEW d \in Seq(ChunkType), Mirrors(c, d)
  PROVE  Blocks!NormalizeDeclaration(d) = Blocks!NormalizeDeclaration(c)
<1> DEFINE Good(x) == Valid(x) /\ Blocks!Contiguous(Blocks!InOrder(Renamed(x)))
<1>1. \A x : ~Good(x) => Blocks!NormalizeDeclaration(x) = None
  BY DEF Valid, Blocks!NormalizeDeclaration, Renamed
<1>2. Mirrors(d, c)  BY MirrorsBack
<1>3. CASE Good(c)  BY <1>3, MirrorsInOrder
<1>4. CASE ~Good(c)
  <2>1. ~Good(d)  BY <1>2, <1>4, MirrorsInOrder
  <2>2. QED  BY <1>1, <1>4, <2>1
<1>5. QED  BY <1>3, <1>4

\* What was declared is told by what was given, and what was exported by what
\* was declared.
BlockInv ==
  /\ draft \in Seq(ChunkType)
  /\ image # None => image = Blocks!NormalizeDeclaration(draft)
  /\ snapshot # None =>
       /\ image # None
       /\ \E view, how \in Blocks!Modes :
            snapshot = Blocks!ExportSnapshot(image, how, view)

\* What is exported is what was declared, and so is what comes back.
LEMMA SnapshotFacts ==
  ASSUME NoneIsNoLabel, BlockInv, snapshot # None
  PROVE  /\ Blocks!ImportSnapshot(snapshot) = image
         /\ snapshot.manifest.identity = Blocks!IdentityReceipt(image)
         /\ snapshot.manifest.mode \in Blocks!Modes
         /\ snapshot.files.chunks = image
         /\ Blocks!NormalizeDeclaration(image) # None
         /\ image \in Seq(ChunkType)
<1>1. PICK view \in Blocks!Modes, how \in Blocks!Modes :
        snapshot = Blocks!ExportSnapshot(image, how, view)
  BY DEF BlockInv
<1>2. image # None /\ image = Blocks!NormalizeDeclaration(draft)
      /\ draft \in Seq(ChunkType)
  BY DEF BlockInv
<1>3. Blocks!NormalizeDeclaration(image) # None
  BY <1>1 DEF Blocks!ExportSnapshot
<1>4. Blocks!NormalizeDeclaration(image) = image
  BY <1>2, <1>3, DeclaredAgain
<1> DEFINE projection == Blocks!Projection(image, how)
           identity == Blocks!IdentityReceipt(image)
           shown == <<view, how>>
           receipts == [identity |-> identity, projection |-> projection,
                        view |-> shown]
           files == [declaration |-> image, chunks |-> image,
                     projection |-> projection, receipts |-> receipts]
           manifest == [mode |-> how, view |-> view, identity |-> identity,
                        fileReceipts |-> files]
<1>5. snapshot = [manifest |-> manifest, files |-> files]
  BY <1>1, <1>2, <1>4 DEF Blocks!ExportSnapshot, Blocks!SnapshotFiles
<1>6. snapshot.manifest = manifest /\ snapshot.files = files
  <2> HIDE DEF manifest, files
  <2>1. QED  BY <1>5
<1>7. /\ manifest.mode = how /\ manifest.view = view
      /\ manifest.identity = identity /\ manifest.fileReceipts = files
  <2> HIDE DEF identity, files
  <2>1. QED  OBVIOUS
<1>8. /\ files.declaration = image /\ files.chunks = image
      /\ files.projection = projection /\ files.receipts = receipts
  <2> HIDE DEF projection, receipts
  <2>1. QED  OBVIOUS
<1>9. receipts = [identity |-> identity, projection |-> projection,
                  view |-> <<view, how>>]
  OBVIOUS
<1>10. projection = Blocks!Projection(image, how)
       /\ identity = Blocks!IdentityReceipt(image)
  OBVIOUS
<1> HIDE DEF projection, identity, receipts, files, manifest
<1>11. Blocks!ImportSnapshot(snapshot) = image
  BY <1>2, <1>3, <1>4, <1>6, <1>7, <1>8, <1>9, <1>10
     DEF Blocks!ImportSnapshot
<1>12. image \in Seq(ChunkType)  BY <1>2, DeclaredFacts
<1>13. QED  BY <1>3, <1>6, <1>7, <1>8, <1>10, <1>11, <1>12

\* An image is what its draft declares, before it is exported and after it is
\* imported.
THEOREM BlockInvariance ==
  ASSUME NoneIsNoLabel  PROVE Blocks!Spec => []BlockInv
<1>1. Blocks!Init => BlockInv  BY DEF Blocks!Init, BlockInv
<1>2. BlockInv /\ [Blocks!Next]_(Blocks!vars) => BlockInv'
  <2> SUFFICES ASSUME BlockInv, [Blocks!Next]_(Blocks!vars)
               PROVE  BlockInv'
    OBVIOUS
  <2>1. ASSUME NEW chunk \in Chunks, Blocks!GiveChunk(chunk)  PROVE BlockInv'
    <3>1. image = None /\ draft' = Append(draft, chunk)
          /\ image' = image /\ snapshot' = snapshot
      BY <2>1 DEF Blocks!GiveChunk
    <3>2. draft' \in Seq(ChunkType)
      BY <3>1, ChunksAreTyped DEF BlockInv
    <3>3. snapshot = None  BY <3>1 DEF BlockInv
    <3>4. QED  BY <3>1, <3>2, <3>3 DEF BlockInv
  <2>2. CASE Blocks!Declare
    <3>1. image = None /\ image' = Blocks!NormalizeDeclaration(draft)
          /\ draft' = draft /\ snapshot' = snapshot
      BY <2>2 DEF Blocks!Declare
    <3>2. snapshot = None  BY <3>1 DEF BlockInv
    <3>3. QED  BY <3>1, <3>2 DEF BlockInv
  <2>3. ASSUME NEW how \in Blocks!Modes, NEW view \in Blocks!Modes,
               Blocks!Export(how, view)
        PROVE  BlockInv'
    <3>1. image # None /\ snapshot' = Blocks!ExportSnapshot(image, how, view)
          /\ draft' = draft /\ image' = image
      BY <2>3 DEF Blocks!Export
    <3>2. QED  BY <3>1 DEF BlockInv
  <2>4. CASE Blocks!Import
    <3>1. snapshot # None /\ image' = Blocks!ImportSnapshot(snapshot)
          /\ draft' = draft /\ snapshot' = snapshot
      BY <2>4 DEF Blocks!Import
    <3>2. image' = image  BY <3>1, SnapshotFacts
    <3>3. QED  BY <3>1, <3>2 DEF BlockInv
  <2>5. CASE UNCHANGED <<draft, image, snapshot>>
    BY <2>5 DEF BlockInv
  <2>6. QED
    BY <2>1, <2>2, <2>3, <2>4, <2>5
       DEF Blocks!Next, Blocks!GrowRaw, Blocks!ChangeRaw, Blocks!vars
<1>3. QED  BY <1>1, <1>2, PTL DEF Blocks!Spec

\* Each byte of an image is in one of its chunks.
LEMMA ImagesHaveBytesOnce == BlockInv => Blocks!EveryByteHasOneChunk
<1> SUFFICES ASSUME BlockInv, image # None,
                    NEW at \in 0 .. Blocks!TotalSize(image) - 1
             PROVE  Cardinality({i \in DOMAIN image :
                      /\ image[i].offset <= at
                      /\ at < image[i].offset + image[i].size}) = 1
  BY DEF Blocks!EveryByteHasOneChunk, Blocks!Cardinality, Cardinality
<1>1. QED  BY BytesOnce DEF BlockInv

\* Chunks with names may be given in either order.
LEMMA ImagesInAnyOrder == BlockInv => Blocks!OrderDoesNotMatter
<1> SUFFICES ASSUME BlockInv, \A i \in DOMAIN draft : draft[i].label # None
             PROVE  Blocks!NormalizeDeclaration(Blocks!Reverse(draft))
                      = Blocks!NormalizeDeclaration(draft)
  BY DEF Blocks!OrderDoesNotMatter
<1> DEFINE N == Len(draft)
           d == Blocks!Reverse(draft)
<1>1. draft \in Seq(ChunkType) /\ N \in Nat /\ DOMAIN draft = 1 .. N
  BY DEF BlockInv
<1>2. d = [i \in 1 .. N |-> draft[N - i + 1]]  BY DEF Blocks!Reverse
<1>3. \A i \in 1 .. N : N - i + 1 \in 1 .. N /\ N - i + 1 = N + 1 - i
  BY <1>1
<1>4. \A i \in 1 .. N : draft[i] \in ChunkType /\ draft[i].label # None
  BY <1>1
<1> HIDE DEF d, N
<1>5. d \in [1 .. N -> ChunkType]
      /\ \A i \in 1 .. N : d[i] = draft[N + 1 - i]
  BY <1>2, <1>3, <1>4
<1>6. d \in Seq(ChunkType) /\ Len(d) = N /\ DOMAIN d = 1 .. N
  BY <1>1, <1>5, Placing!Listed
<1>7. \A i \in 1 .. N : d[i].label # None
  <2>1. ASSUME NEW i \in 1 .. N  PROVE d[i].label # None
    <3>1. N + 1 - i \in 1 .. N  BY <1>3
    <3>2. QED  BY <1>4, <1>5, <3>1
  <2>2. QED  BY <2>1
<1>8. Mirrors(draft, d)
  BY <1>1, <1>4, <1>5, <1>6, <1>7 DEF Mirrors, Labelled, N
<1>9. QED  BY <1>1, <1>6, <1>8, MirrorsAlike DEF d

\* What is exported goes by the hash of its bytes.
LEMMA ExportsAreHonest ==
  ASSUME NoneIsNoLabel, BlockInv  PROVE Blocks!SnapshotsAreHonest
<1> SUFFICES ASSUME snapshot # None, NEW i \in DOMAIN snapshot.files.chunks,
                    snapshot.files.chunks[i].bytes # None
             PROVE  snapshot.files.chunks[i].contentHash
                      = snapshot.files.chunks[i].bytes
  BY DEF Blocks!SnapshotsAreHonest
<1>1. /\ snapshot.files.chunks = image /\ image \in Seq(ChunkType)
      /\ Blocks!NormalizeDeclaration(image) # None
  BY SnapshotFacts
<1>2. image # None /\ image = Blocks!NormalizeDeclaration(draft)
      /\ draft \in Seq(ChunkType)
  BY DEF BlockInv
<1>3. Blocks!ValidChunk(image[i])
  BY <1>1 DEF Blocks!NormalizeDeclaration
<1>4. PICK chunk \in ChunkType, n \in Nat :
        image[i] = Blocks!NormalizeChunk(chunk, n)
  BY <1>1, <1>2, DeclaredFacts
<1>5. Blocks!ContentHash(image[i]) = image[i].contentHash
  BY <1>4, NormalizedFacts
<1>6. image[i].hash = None
  <2>1. chunk = [chunk EXCEPT !.hash = @] /\ "hash" \in DOMAIN chunk
    BY DEF ChunkType
  <2>2. QED  BY <1>4, <2>1 DEF Blocks!NormalizeChunk
<1>7. image[i].contentHash \in {None, image[i].bytes}
  BY <1>1, <1>3 DEF Blocks!ValidChunk
<1>8. QED  BY <1>1, <1>5, <1>6, <1>7 DEF Blocks!ContentHash

\* What is exported can be imported, and is the image of before.
LEMMA ExportsComeBack ==
  ASSUME NoneIsNoLabel, BlockInv  PROVE Blocks!SnapshotsComeBack
<1> SUFFICES ASSUME snapshot # None
             PROVE  /\ Blocks!ImportSnapshot(snapshot) = image
                    /\ snapshot.manifest.identity
                         = Blocks!IdentityReceipt(
                             Blocks!NormalizeDeclaration(draft))
  BY DEF Blocks!SnapshotsComeBack
<1>1. image = Blocks!NormalizeDeclaration(draft)  BY DEF BlockInv
<1>2. QED  BY <1>1, SnapshotFacts

\* Images are laid out without gap or overlap and survive a snapshot.
THEOREM BlocksComeBack ==
  ASSUME NoneIsNoLabel  PROVE Blocks!Spec => []Blocks!ImagesComeBack
<1>1. BlockInv => Blocks!ImagesComeBack
  BY ImagesHaveBytesOnce, ImagesInAnyOrder, ExportsAreHonest, ExportsComeBack
     DEF Blocks!ImagesComeBack
<1>2. Blocks!Spec => []BlockInv  BY BlockInvariance
<1>3. QED  BY <1>1, <1>2, PTL

\* The other parts leave images alone.
LEMMA BlockSpec == Spec => Blocks!Spec
<1>1. Init => Blocks!Init  BY DEF Init
<1>2. [Next]_vars => [Blocks!Next]_(Blocks!vars)
  BY DEF Next, vars, blockVars, Blocks!vars
<1>3. QED  BY <1>1, <1>2, PTL DEF Spec, Blocks!Spec

\* Types of an image, of what it is declared of and of its snapshot.
LEMMA BlockTypes ==
  ASSUME NoneIsNoLabel, MaxChunks \in Nat, MaxBytes \in Nat
  PROVE  Blocks!Spec => []Blocks!TypeOK
<1> DEFINE Bounded == /\ Len(draft) <= MaxChunks
                      /\ raw \in Seq(Nat) /\ Len(raw) <= MaxBytes
<1>1. Blocks!Init => Bounded
  <2> DEFINE none == <<>>
  <2>1. none \in Seq(Nat) /\ Len(none) = 0  OBVIOUS
  <2> HIDE DEF none
  <2>2. QED  BY <2>1 DEF Blocks!Init, none
<1>2. BlockInv /\ Bounded /\ [Blocks!Next]_(Blocks!vars) => Bounded'
  <2> SUFFICES ASSUME BlockInv, Bounded, [Blocks!Next]_(Blocks!vars)
               PROVE  Bounded'
    OBVIOUS
  <2>1. ASSUME NEW chunk \in Chunks, Blocks!GiveChunk(chunk)  PROVE Bounded'
    <3>1. /\ Len(draft) < MaxChunks /\ draft' = Append(draft, chunk)
          /\ raw' = raw
      BY <2>1 DEF Blocks!GiveChunk
    <3>2. Len(draft') = Len(draft) + 1 /\ Len(draft) \in Nat
      BY <3>1, ListAppended DEF BlockInv
    <3>3. QED  BY <3>1, <3>2
  <2>2. ASSUME NEW byte \in {0, 1, 255}, Blocks!GrowRaw(byte)  PROVE Bounded'
    <3>1. /\ Len(raw) < MaxBytes /\ raw' = Append(raw, byte) /\ draft' = draft
      BY <2>2 DEF Blocks!GrowRaw
    <3>2. /\ raw' \in Seq(Nat) /\ Len(raw') = Len(raw) + 1 /\ Len(raw) \in Nat
      BY <3>1, AppendProperties
    <3>3. QED  BY <3>1, <3>2
  <2>3. ASSUME NEW byte \in {0, 1, 255}, NEW i \in DOMAIN raw,
               Blocks!ChangeRaw(i, byte)
        PROVE  Bounded'
    <3>1. raw' = [raw EXCEPT ![i] = byte] /\ draft' = draft
      BY <2>3 DEF Blocks!ChangeRaw
    <3>2. raw' \in Seq(Nat) /\ Len(raw') = Len(raw)  BY <3>1
    <3>3. QED  BY <3>1, <3>2
  <2>4. CASE UNCHANGED <<draft, raw>>  BY <2>4
  <2>5. QED
    BY <2>1, <2>2, <2>3, <2>4
       DEF Blocks!Next, Blocks!Declare, Blocks!Export, Blocks!Import,
           Blocks!vars
<1>3. BlockInv /\ Bounded => Blocks!TypeOK
  <2> SUFFICES ASSUME BlockInv, Bounded  PROVE Blocks!TypeOK
    OBVIOUS
  <2>1. ASSUME image # None, NEW i \in DOMAIN image
        PROVE  /\ image[i].label # None
               /\ image[i].sparse <=> image[i].contentHash = None
    <3>1. PICK chunk \in ChunkType, n \in Nat :
            /\ Blocks!ValidChunk(chunk)
            /\ image[i] = Blocks!NormalizeChunk(chunk, n)
      BY <2>1, DeclaredFacts DEF BlockInv
    <3>2. /\ image[i].label # None /\ image[i].sparse = chunk.sparse
          /\ image[i].contentHash = Blocks!ContentHash(chunk)
      BY <3>1, NormalizedFacts
    <3>3. chunk.sparse <=> Blocks!ContentHash(chunk) = None
      BY <3>1 DEF Blocks!ValidChunk
    <3>4. QED  BY <3>2, <3>3
  <2>2. snapshot # None => snapshot.manifest.mode \in Blocks!Modes
    BY SnapshotFacts
  <2>3. QED  BY <2>1, <2>2 DEF Blocks!TypeOK
<1> HIDE DEF Bounded
<1>4. Blocks!Spec => []BlockInv  BY BlockInvariance
<1>5. QED  BY <1>1, <1>2, <1>3, <1>4, PTL DEF Blocks!Spec

-----------------------------------------------------------------------------
(* The regions of a stream. *)

\* The comparison of overlays, and the folds that add up what is counted.
Overlays == INSTANCE FoldTheorems
  WITH Step <- LAMBDA context, i, j : Streams!OverlayOrder(i, j)

\* A style is one there is, or what is taken for one when there is none.
AnyStyle == Styles \cup {CHOOSE style \in Styles : TRUE}

Regions == {r \in [start : Nat, end : Nat, style : AnyStyle] : r.start <= r.end}

StreamInv == streamBytes \in Seq(Nat) /\ regions \in Seq(Regions)

\* The greater of two numbers.
LEMMA MaxOfTwo ==
  ASSUME NEW x \in Int, NEW y \in Int
  PROVE  Streams!Max({x, y}) = IF x <= y THEN y ELSE x
<1> DEFINE m == IF x <= y THEN y ELSE x
<1>1. /\ m \in {x, y} /\ \A z \in {x, y} : m >= z
      /\ \A w \in {x, y} : (\A z \in {x, y} : w >= z) => w = m
  OBVIOUS
<1>2. QED  BY <1>1 DEF Streams!Max

\* What is declared is brought in order.
LEMMA RegionFacts ==
  ASSUME NEW given \in Streams!Given, NEW length,
         Streams!NormalizeRegion(given, length) # None
  PROVE  /\ Streams!NormalizeRegion(given, length) \in Regions
         /\ given.style # Bad
         /\ Streams!NormalizeRegion(given, length).style = given.style
<1> DEFINE start == Streams!Max({0, given.start})
           end == IF given.end = None THEN start
                  ELSE Streams!Max({start, given.end})
<1>1. /\ given.start \in Int
      /\ given.end # None => given.end \in Int
      /\ given.style \in Styles \cup {Bad}
  BY DEF Streams!Given, Streams!Places
<1>2. start \in Nat  BY <1>1, MaxOfTwo
<1> HIDE DEF start
<1>3. end \in Nat /\ start <= end  BY <1>1, <1>2, MaxOfTwo
<1> HIDE DEF end
<1>4. /\ Streams!NormalizeRegion(given, length)
           = [start |-> start, end |-> end, style |-> given.style]
      /\ given.style # Bad
  BY DEF Streams!NormalizeRegion, start, end
<1>5. QED  BY <1>1, <1>2, <1>3, <1>4 DEF Regions, AnyStyle

\* A stream has bytes, and its regions have places in order.
THEOREM StreamInvariance == Streams!Spec => []StreamInv
<1>1. \A next \in ByteSources : next \in Seq(Nat)
  <2>1. ASSUME NEW next \in ByteSources  PROVE next \in Seq(Nat)
    <3>1. next = <<>> \/ next = <<64, 48, 32>> \/ next = <<31, 200>>
      BY DEF ByteSources
    <3>2. CASE next = <<>>  BY <3>2
    <3>3. CASE next = <<64, 48, 32>>  BY <3>3
    <3>4. CASE next = <<31, 200>>  BY <3>4
    <3>5. QED  BY <3>1, <3>2, <3>3, <3>4
  <2>2. QED  BY <2>1
<1>2. Streams!Init => StreamInv
  <2>1. SUFFICES ASSUME Streams!Init  PROVE StreamInv  OBVIOUS
  <2>2. streamBytes \in Seq(Nat)  BY <1>1, <2>1 DEF Streams!Init
  <2>3. CASE regions = <<>>
    BY <2>2, <2>3 DEF StreamInv
  <2>4. CASE streamBytes # <<>> /\ regions = Streams!InitialRegions(streamBytes)
    <3> DEFINE all == [start |-> 0, end |-> Len(streamBytes) - 1,
                       style |-> CHOOSE style \in Styles : TRUE]
    <3>1. Len(streamBytes) \in Nat \ {0}  BY <2>2, <2>4
    <3>2. all \in Regions  BY <3>1 DEF Regions, AnyStyle
    <3>3. regions = <<all>>  BY <2>4 DEF Streams!InitialRegions
    <3> HIDE DEF all
    <3>4. QED  BY <2>2, <3>2, <3>3 DEF StreamInv
  <2>5. QED  BY <2>1, <2>3, <2>4 DEF Streams!Init, Streams!InitialRegions
<1>3. StreamInv /\ [Streams!Next]_(Streams!vars) => StreamInv'
  <2> SUFFICES ASSUME StreamInv, [Streams!Next]_(Streams!vars)
               PROVE  StreamInv'
    OBVIOUS
  <2>1. ASSUME NEW next \in ByteSources, Streams!SetSource(next)
        PROVE  StreamInv'
    BY <1>1, <2>1 DEF Streams!SetSource, StreamInv
  <2>2. ASSUME NEW given \in Streams!Given, Streams!DeclareRegion(given)
        PROVE  StreamInv'
    <3> DEFINE region == Streams!NormalizeRegion(given, Len(streamBytes))
    <3>1. /\ region # None /\ regions' = Append(regions, region)
          /\ streamBytes' = streamBytes
      BY <2>2 DEF Streams!DeclareRegion
    <3>2. region \in Regions  BY <3>1, RegionFacts
    <3> HIDE DEF region
    <3>3. QED  BY <3>1, <3>2 DEF StreamInv
  <2>3. ASSUME NEW name, Streams!SetPresentation(name)  PROVE StreamInv'
    BY <2>3 DEF Streams!SetPresentation, StreamInv
  <2>4. CASE UNCHANGED Streams!vars  BY <2>4 DEF Streams!vars, StreamInv
  <2>5. QED
    BY <2>1, <2>2, <2>3, <2>4 DEF Streams!Next, Streams!TogglePresentation
<1>4. QED  BY <1>2, <1>3, PTL DEF Streams!Spec

\* Overlays are listed from the broadest to the narrowest.
LEMMA OverlayFacts ==
  ASSUME StreamInv, NEW index
  PROVE  /\ Streams!Covering(index) \subseteq DOMAIN regions
         /\ IsFiniteSet(Streams!Covering(index))
         /\ Overlays!Lists(Streams!OverlayStack(index),
              Overlays!Pairs({}, Streams!Covering(index)),
              Streams!Covering(index))
<1> DEFINE S == Streams!Covering(index)
<1>1. /\ Len(regions) \in Nat /\ DOMAIN regions = 1 .. Len(regions)
      /\ S \subseteq 1 .. Len(regions)
  BY DEF StreamInv, Streams!Covering
<1>2. IsFiniteSet(S)
  <2>1. IsFiniteSet(1 .. Len(regions))  BY <1>1, FS_Interval
  <2> HIDE DEF S
  <2>2. QED  BY <1>1, <2>1, FS_Subset
<1> HIDE DEF S
<1>3. \A i \in S : /\ regions[i].start \in Nat /\ regions[i].end \in Nat
                   /\ Streams!RegionSpan(regions[i]) \in Int /\ i \in Nat
  BY <1>1 DEF StreamInv, Regions, Streams!RegionSpan
<1>4. Overlays!Orders(Overlays!Pairs({}, S), S)
  <2>1. \A i, j \in S : <<i, j>> \in Overlays!Pairs({}, S)
                          <=> Streams!OverlayOrder(i, j)
    BY DEF Overlays!Pairs
  <2>2. \A i \in S : ~Streams!OverlayOrder(i, i)
    BY <1>3 DEF Streams!OverlayOrder
  <2>3. ASSUME NEW i \in S, NEW j \in S, NEW k \in S,
               Streams!OverlayOrder(i, j), Streams!OverlayOrder(j, k)
        PROVE  Streams!OverlayOrder(i, k)
    BY <1>3, <2>3 DEF Streams!OverlayOrder
  <2>4. \A i, j \in S :
          i # j => Streams!OverlayOrder(i, j) \/ Streams!OverlayOrder(j, i)
    BY <1>3 DEF Streams!OverlayOrder
  <2>5. QED  BY <2>1, <2>2, <2>3, <2>4 DEF Overlays!Orders
<1>5. Overlays!Lists(
        Overlays!Sorted(S, LAMBDA i, j : Streams!OverlayOrder(i, j)),
        Overlays!Pairs({}, S), S)
  BY <1>2, <1>4, Overlays!SortLists DEF Overlays!IsFiniteSet, IsFiniteSet
<1>6. Overlays!Sorted(S, LAMBDA i, j : Streams!OverlayOrder(i, j))
        = Streams!OverlayStack(index)
  BY DEF Overlays!Sorted, Streams!OverlayStack, Streams!Sorted, S,
         Overlays!Cardinality, Streams!Cardinality
<1>7. QED  BY <1>1, <1>2, <1>5, <1>6 DEF S

\* The overlay that holds at an index is the narrowest, and of equals the one
\* declared last.
LEMMA HeldFacts ==
  ASSUME StreamInv, NEW index, Streams!Covering(index) # {}
  PROVE  /\ Streams!OverlayStack(index) # <<>>
         /\ Streams!Last(Streams!OverlayStack(index)) \in Streams!Covering(index)
         /\ \A i \in Streams!Covering(index) :
              \/ i = Streams!Last(Streams!OverlayStack(index))
              \/ Streams!OverlayOrder(i,
                   Streams!Last(Streams!OverlayStack(index)))
<1> DEFINE S == Streams!Covering(index)
           stack == Streams!OverlayStack(index)
           held == stack[Len(stack)]
<1>1. /\ stack \in Seq(S) /\ Len(stack) \in Nat
      /\ DOMAIN stack = 1 .. Len(stack)
      /\ \A i \in S : \E k \in DOMAIN stack : stack[k] = i
      /\ \A k, l \in DOMAIN stack :
           k < l => Streams!OverlayOrder(stack[k], stack[l])
  <2>1. Overlays!Lists(stack, Overlays!Pairs({}, S), S)  BY OverlayFacts
  <2> HIDE DEF S, stack
  <2>2. /\ stack \in Seq(S)
        /\ \A i \in S : \E k \in DOMAIN stack : stack[k] = i
        /\ \A k, l \in DOMAIN stack :
             k < l => <<stack[k], stack[l]>> \in Overlays!Pairs({}, S)
    BY <2>1 DEF Overlays!Lists
  <2>3. Len(stack) \in Nat /\ DOMAIN stack = 1 .. Len(stack)  BY <2>2
  <2>4. \A i, j : <<i, j>> \in Overlays!Pairs({}, S)
                    => Streams!OverlayOrder(i, j)
    BY DEF Overlays!Pairs
  <2>5. \A k, l \in DOMAIN stack :
          k < l => Streams!OverlayOrder(stack[k], stack[l])
    BY <2>2, <2>4
  <2>6. QED  BY <2>2, <2>3, <2>5
<1> HIDE DEF S, stack
<1>2. Len(stack) # 0
  <2>1. PICK i \in S : TRUE  BY DEF S
  <2>2. PICK k \in DOMAIN stack : stack[k] = i  BY <1>1, <2>1
  <2>3. QED  BY <1>1, <2>2
<1>3. Len(stack) \in DOMAIN stack /\ stack # <<>> /\ held \in S
  BY <1>1, <1>2
<1>4. ASSUME NEW i \in S  PROVE i = held \/ Streams!OverlayOrder(i, held)
  <2>1. PICK k \in DOMAIN stack : stack[k] = i  BY <1>1, <1>4
  <2>2. k = Len(stack) \/ k < Len(stack)  BY <1>1, <2>1
  <2>3. QED  BY <1>1, <1>3, <2>1, <2>2
<1>5. QED  BY <1>3, <1>4 DEF Streams!Last, S, stack

\* Whatever is declared, in whatever order, nothing is hidden by a region
\* around it, and of two declarations of a place the later holds.
LEMMA InnermostIsHeld == StreamInv => Streams!InnermostHolds
<1> SUFFICES ASSUME StreamInv, NEW index \in Streams!Indices,
                    NEW i \in Streams!Covering(index)
             PROVE  LET held == Streams!Last(Streams!OverlayStack(index))
                    IN  /\ ~(/\ regions[held].start <= regions[i].start
                             /\ regions[i].end <= regions[held].end
                             /\ Streams!RegionSpan(regions[i])
                                  < Streams!RegionSpan(regions[held]))
                        /\ (/\ regions[i].start = regions[held].start
                            /\ regions[i].end = regions[held].end) => i <= held
  BY DEF Streams!InnermostHolds
<1> DEFINE held == Streams!Last(Streams!OverlayStack(index))
<1>1. /\ held \in Streams!Covering(index)
      /\ i = held \/ Streams!OverlayOrder(i, held)
  BY HeldFacts
<1> HIDE DEF held
<1>2. /\ regions[i] \in Regions /\ regions[held] \in Regions
      /\ i \in Nat /\ held \in Nat
  BY <1>1, OverlayFacts DEF StreamInv
<1>3. /\ regions[i].start \in Nat /\ regions[i].end \in Nat
      /\ regions[held].start \in Nat /\ regions[held].end \in Nat
  BY <1>2 DEF Regions
<1>4. /\ ~(/\ regions[held].start <= regions[i].start
           /\ regions[i].end <= regions[held].end
           /\ Streams!RegionSpan(regions[i])
                < Streams!RegionSpan(regions[held]))
      /\ (/\ regions[i].start = regions[held].start
          /\ regions[i].end = regions[held].end) => i <= held
  BY <1>1, <1>2, <1>3 DEF Streams!OverlayOrder, Streams!RegionSpan
<1>5. QED  BY <1>4 DEF held

\* The region declared last is the narrowest for who declares from broad to
\* narrow.
LEMMA InspectorsMeet == StreamInv => Streams!InspectorsAgree
<1> SUFFICES ASSUME StreamInv, Streams!Refining, NEW index \in Streams!Indices
             PROVE  Streams!FindRegion(index) = Streams!ResolvedRegion(index)
  BY DEF Streams!InspectorsAgree
<1> DEFINE S == Streams!Covering(index)
           held == Streams!Last(Streams!OverlayStack(index))
<1>1. CASE S = {}
  <2>1. Overlays!Lists(Streams!OverlayStack(index), Overlays!Pairs({}, S), S)
    BY OverlayFacts
  <2>2. Streams!OverlayStack(index) \in Seq({})
    BY <1>1, <2>1 DEF Overlays!Lists
  <2>3. Streams!OverlayStack(index) = <<>>
    <3> DEFINE stack == Streams!OverlayStack(index)
    <3> HIDE DEF stack
    <3>1. SUFFICES ASSUME stack \in Seq({})  PROVE stack = <<>>
      BY <2>2 DEF stack
    <3>2. Len(stack) = 0 BY <3>1
    <3>3. QED  BY <3>1, <3>2
  <2>4. QED
    BY <1>1, <2>3 DEF Streams!FindRegion, Streams!ResolvedRegion
<1>2. CASE S # {}
  <2>1. /\ held \in S /\ \A i \in S : i = held \/ Streams!OverlayOrder(i, held)
        /\ Streams!OverlayStack(index) # <<>>
    BY <1>2, HeldFacts
  <2>2. S \subseteq DOMAIN regions  BY OverlayFacts
  <2>3. /\ S \subseteq Nat
        /\ \A i \in S : /\ regions[i].start \in Nat /\ regions[i].end \in Nat
    BY <2>2 DEF StreamInv, Regions
  <2> HIDE DEF held
  <2>4. ASSUME NEW i \in S  PROVE i <= held
    <3>1. SUFFICES ASSUME ~ i <= held  PROVE FALSE  OBVIOUS
    <3>2. held < i /\ i # held  BY <2>1, <2>3, <3>1
    <3>3. Streams!OverlayOrder(held, i)
      BY <2>1, <2>2, <3>2 DEF Streams!Refining
    <3>4. Streams!OverlayOrder(i, held)  BY <2>1, <3>2
    <3>5. QED
      BY <2>1, <2>3, <3>2, <3>3, <3>4
         DEF Streams!OverlayOrder, Streams!RegionSpan
  <2>5. Streams!Max(S) = held
    <3>1. \A w \in S : (\A y \in S : w >= y) => w = held
      BY <2>1, <2>3, <2>4
    <3>2. held \in S /\ \A y \in S : held >= y  BY <2>1, <2>3, <2>4
    <3> HIDE DEF S
    <3>3. QED  BY <3>1, <3>2 DEF Streams!Max
  <2>6. QED
    BY <1>2, <2>1, <2>5 DEF Streams!FindRegion, Streams!ResolvedRegion, held
<1>3. QED  BY <1>1, <1>2

\* What is counted is added up from the first to the last.
Adding == INSTANCE FoldTheorems
  WITH Step <- LAMBDA context, total, count : total + count

\* The total of the first n.
Sum(f, n) == Streams!Total([k \in 1 .. n |-> f[k]])

\* A list is the one before it and its last element.
LEMMA LastAppended ==
  ASSUME NEW S, NEW n \in Nat, NEW s \in Seq(S), Len(s) = n,
         NEW t \in Seq(S), Len(t) = n + 1, \A k \in 1 .. n : t[k] = s[k]
  PROVE  t = Append(s, t[n + 1])
<1> DEFINE e == t[n + 1]
<1>1. e \in S  OBVIOUS
<1> HIDE DEF e
<1>2. /\ Append(s, e) \in Seq(S) /\ Len(Append(s, e)) = n + 1
      /\ \A k \in 1 .. n : Append(s, e)[k] = s[k]
      /\ Append(s, e)[n + 1] = e
  BY <1>1
<1>3. ASSUME NEW k \in 1 .. n + 1  PROVE t[k] = Append(s, e)[k]
  <2>1. k \in 1 .. n \/ k = n + 1  OBVIOUS
  <2>2. CASE k \in 1 .. n  BY <1>2, <2>2
  <2>3. CASE k = n + 1  BY <1>2, <2>3 DEF e
  <2>4. QED  BY <2>1, <2>2, <2>3
<1>4. t = Append(s, e)
  <2>1. Len(t) = Len(Append(s, e))
        /\ \A k \in 1 .. Len(t) : t[k] = Append(s, e)[k]
    BY <1>2, <1>3
  <2>2. QED  BY <1>2, <2>1, SeqEqual
<1>5. QED  BY <1>4 DEF e

\* Nothing is zero, and one more is added to what there is.
LEMMA SumFacts ==
  ASSUME NEW f \in [Nat -> Nat], NEW n \in Nat
  PROVE  /\ Sum(f, 0) = 0
         /\ Sum(f, n + 1) = Sum(f, n) + f[n + 1]
<1>1. ASSUME NEW s  PROVE Streams!Total(s) = Adding!Fold({}, 0, s)
  BY DEF Streams!Total, Adding!Fold, Streams!FoldLeft, Streams!MapThenFoldSet,
         Streams!Max, Adding!FoldLeft, Adding!MapThenFoldSet, Adding!Max
<1>2. Sum(f, 0) = 0
  <2>1. [k \in 1 .. 0 |-> f[k]] = <<>>  OBVIOUS
  <2>2. Adding!Fold({}, 0, <<>>) = 0  BY Adding!FoldEmpty
  <2>3. QED  BY <1>1, <2>1, <2>2 DEF Sum
<1>3. Sum(f, n + 1) = Sum(f, n) + f[n + 1]
  <2> DEFINE s == [k \in 1 .. n |-> f[k]]
             t == [k \in 1 .. n + 1 |-> f[k]]
  <2>1. s \in Seq(Nat) /\ Len(s) = n /\ f[n + 1] \in Nat  OBVIOUS
  <2>2. t \in Seq(Nat) /\ Len(t) = n + 1 /\ \A k \in 1 .. n + 1 : t[k] = f[k]
    OBVIOUS
  <2>3. \A k \in 1 .. n : s[k] = f[k]  OBVIOUS
  <2> HIDE DEF s, t
  <2>4. t = Append(s, f[n + 1])
    <3>1. t = Append(s, t[n + 1])
      <4>1. \A k \in 1 .. n : t[k] = s[k]  BY <2>2, <2>3
      <4>2. QED  BY <2>1, <2>2, <4>1, LastAppended
    <3>2. t[n + 1] = f[n + 1]  BY <2>2
    <3>3. QED  BY <3>1, <3>2
  <2>5. Adding!Fold({}, 0, Append(s, f[n + 1]))
          = Adding!Fold({}, 0, s) + f[n + 1]
    <3> DEFINE e == f[n + 1]
    <3>1. e \in Nat  BY <2>1
    <3> HIDE DEF e
    <3>2. Adding!Fold({}, 0, Append(s, e)) = Adding!Fold({}, 0, s) + e
      BY <2>1, <3>1, Adding!FoldAppend
    <3>3. QED  BY <3>2 DEF e
  <2>6. QED  BY <1>1, <2>4, <2>5 DEF Sum, s, t
<1>4. QED  BY <1>2, <1>3

\* A total is a number.
LEMMA SumIsNat ==
  ASSUME NEW f \in [Nat -> Nat]
  PROVE  \A n \in Nat : Sum(f, n) \in Nat
<1> DEFINE T == {n \in Nat : Sum(f, n) \in Nat}
<1>1. 0 \in T  BY SumFacts
<1>2. ASSUME NEW n \in Nat, n \in T  PROVE n + 1 \in T
  <2>1. Sum(f, n + 1) = Sum(f, n) + f[n + 1]  BY SumFacts
  <2>2. Sum(f, n) \in Nat /\ f[n + 1] \in Nat /\ n + 1 \in Nat  BY <1>2
  <2>3. Sum(f, n + 1) \in Nat  BY <2>1, <2>2
  <2>4. QED  BY <2>2, <2>3
<1> HIDE DEF T
<1>3. Nat \subseteq T  BY <1>1, <1>2, Adding!Induction
<1>4. QED  BY <1>3 DEF T

\* The total of what is added one by one.
LEMMA SumAdds ==
  ASSUME NEW f \in [Nat -> Nat], NEW g \in [Nat -> Nat],
         NEW h \in [Nat -> Nat], \A k \in Nat : h[k] = f[k] + g[k]
  PROVE  \A n \in Nat : Sum(h, n) = Sum(f, n) + Sum(g, n)
<1> DEFINE T == {n \in Nat : Sum(h, n) = Sum(f, n) + Sum(g, n)}
<1>1. 0 \in T
  <2>1. Sum(f, 0) = 0 /\ Sum(g, 0) = 0 /\ Sum(h, 0) = 0  BY SumFacts
  <2>2. QED  BY <2>1
<1>2. ASSUME NEW n \in Nat, n \in T  PROVE n + 1 \in T
  <2>1. /\ Sum(h, n + 1) = Sum(h, n) + h[n + 1]
        /\ Sum(f, n + 1) = Sum(f, n) + f[n + 1]
        /\ Sum(g, n + 1) = Sum(g, n) + g[n + 1]
    BY SumFacts
  <2>2. /\ Sum(f, n) \in Nat /\ Sum(g, n) \in Nat
        /\ f[n + 1] \in Nat /\ g[n + 1] \in Nat
    BY SumIsNat
  <2>3. Sum(h, n) = Sum(f, n) + Sum(g, n)  BY <1>2
  <2>4. h[n + 1] = f[n + 1] + g[n + 1]  OBVIOUS
  <2>5. Sum(h, n + 1) = Sum(f, n + 1) + Sum(g, n + 1)
    BY <2>1, <2>2, <2>3, <2>4
  <2>6. QED  BY <2>5
<1> HIDE DEF T
<1>3. Nat \subseteq T  BY <1>1, <1>2, Adding!Induction
<1>4. QED  BY <1>3 DEF T

\* What is nothing outside of a window is counted within it.
LEMMA SumWindow ==
  ASSUME NEW f \in [Nat -> Nat], NEW a \in Nat, NEW b \in Nat, a <= b,
         NEW g \in [Nat -> Nat], \A k \in Nat : g[k] = f[a + k],
         \A k \in Nat : k <= a \/ b < k => f[k] = 0
  PROVE  \A n \in Nat : b <= n => Sum(f, n) = Sum(g, b - a)
<1> DEFINE T == {n \in Nat :
                   /\ n <= a => Sum(f, n) = 0
                   /\ a <= n /\ n <= b => Sum(f, n) = Sum(g, n - a)
                   /\ b <= n => Sum(f, n) = Sum(g, b - a)}
<1>1. Sum(f, 0) = 0 /\ Sum(g, 0) = 0  BY SumFacts
<1>2. 0 \in T
  <2>1. a <= 0 => a = 0 /\ 0 - a = 0  OBVIOUS
  <2>2. b <= 0 => b - a = 0  OBVIOUS
  <2>3. QED  BY <1>1, <2>1, <2>2
<1>3. ASSUME NEW n \in Nat, n \in T  PROVE n + 1 \in T
  <2>1. /\ Sum(f, n + 1) = Sum(f, n) + f[n + 1]
        /\ Sum(f, n) \in Nat /\ f[n + 1] \in Nat
    <3>1. Sum(f, n + 1) = Sum(f, n) + f[n + 1]  BY SumFacts
    <3>2. Sum(f, n) \in Nat  BY SumIsNat
    <3>3. QED  BY <3>1, <3>2
  <2>2. CASE n + 1 <= a
    <3>1. Sum(f, n + 1) = 0  BY <1>3, <2>1, <2>2
    <3>2. /\ a <= n + 1 => n + 1 - a = 0
          /\ b <= n + 1 => b - a = 0
      BY <2>2
    <3>3. QED  BY <1>1, <3>1, <3>2
  <2>3. CASE a <= n /\ n + 1 <= b
    <3>1. Sum(f, n) = Sum(g, n - a)  BY <1>3, <2>3
    <3>2. /\ n - a \in Nat /\ n + 1 - a = (n - a) + 1
          /\ a + ((n - a) + 1) = n + 1
      BY <2>3
    <3>3. Sum(g, (n - a) + 1) = Sum(g, n - a) + g[(n - a) + 1]
      BY <3>2, SumFacts
    <3>4. g[(n - a) + 1] = f[n + 1]  BY <3>2
    <3>5. Sum(f, n + 1) = Sum(g, n + 1 - a)  BY <2>1, <3>1, <3>2, <3>3, <3>4
    <3>6. ~ n + 1 <= a /\ (b <= n + 1 => b = n + 1)  BY <2>3
    <3>7. b <= n + 1 => Sum(f, n + 1) = Sum(g, b - a)  BY <3>5, <3>6
    <3>8. QED  BY <3>5, <3>6, <3>7
  <2>4. CASE b <= n
    <3>1. Sum(f, n) = Sum(g, b - a) /\ f[n + 1] = 0  BY <1>3, <2>4
    <3>2. Sum(f, n + 1) = Sum(g, b - a)  BY <2>1, <3>1
    <3>3. ~ n + 1 <= a /\ ~ n + 1 <= b  BY <2>4
    <3>4. QED  BY <3>2, <3>3
  <2>5. QED  BY <2>2, <2>3, <2>4
<1> HIDE DEF T
<1>4. Nat \subseteq T  BY <1>2, <1>3, Adding!Induction
<1>5. QED  BY <1>4 DEF T

\* The bytes of a band; those of them a region covers; how many regions of the
\* first n cover one; what is counted of a region.
Hits(band) ==
  [k \in Nat |->
     IF k \in 1 .. Len(streamBytes)
          /\ Streams!ClassifyCodepoint(streamBytes[k]) = band THEN 1 ELSE 0]
Covered(region, band) ==
  [k \in Nat |-> IF Streams!Covers(region, k - 1) THEN Hits(band)[k] ELSE 0]
Around(n, k) == {i \in 1 .. n : Streams!Covers(regions[i], k - 1)}
Depth(n, band) ==
  [k \in Nat |-> IF Hits(band)[k] = 1 THEN Cardinality(Around(n, k)) ELSE 0]
RegionCount(region, band) ==
  Streams!Total(Streams!InBand(
    Streams!BytesFromSource(region.start, region.end), band))
RegionCounts(band) ==
  [i \in Nat |-> IF i \in DOMAIN regions THEN RegionCount(regions[i], band)
                 ELSE 0]

\* A byte is of the band or not, and what is covered is counted by bytes.
LEMMA HitFacts ==
  ASSUME NEW band
  PROVE  /\ Hits(band) \in [Nat -> Nat]
         /\ \A k \in Nat : Hits(band)[k] \in {0, 1}
         /\ \A k \in Nat : Hits(band)[k] = 1 => k \in 1 .. Len(streamBytes)
         /\ \A k \in 1 .. Len(streamBytes) :
              Hits(band)[k]
                = IF Streams!ClassifyCodepoint(streamBytes[k]) = band
                  THEN 1 ELSE 0
         /\ \A region : Covered(region, band) \in [Nat -> Nat]
<1>1. ASSUME NEW k \in Nat  PROVE Hits(band)[k] \in {0, 1}  BY DEF Hits
<1>2. Hits(band) \in [Nat -> Nat]
  <2>1. Hits(band) = [k \in Nat |-> Hits(band)[k]]  BY DEF Hits
  <2>2. QED  BY <1>1, <2>1
<1>3. \A k \in Nat : Hits(band)[k] = 1 => k \in 1 .. Len(streamBytes)
  BY DEF Hits
<1>4. ASSUME NEW k \in 1 .. Len(streamBytes)
      PROVE  Hits(band)[k]
               = IF Streams!ClassifyCodepoint(streamBytes[k]) = band
                 THEN 1 ELSE 0
  <2>1. k \in Nat  OBVIOUS
  <2>2. QED  BY <2>1 DEF Hits
<1>5. ASSUME NEW region  PROVE Covered(region, band) \in [Nat -> Nat]
  <2>1. \A k \in Nat :
          (IF Streams!Covers(region, k - 1) THEN Hits(band)[k] ELSE 0) \in Nat
    BY <1>1
  <2>2. QED  BY <2>1 DEF Covered
<1>6. QED  BY <1>1, <1>2, <1>3, <1>4, <1>5

\* Nothing adds up to nothing.
LEMMA SumOfNothing ==
  ASSUME NEW f \in [Nat -> Nat], \A k \in Nat : f[k] = 0, NEW n \in Nat
  PROVE  Sum(f, n) = 0
<1> DEFINE g == [k \in Nat |-> f[0 + k]]
<1>1. g \in [Nat -> Nat] /\ \A k \in Nat : g[k] = f[0 + k]  OBVIOUS
<1>2. \A k \in Nat : k <= 0 \/ 0 < k => f[k] = 0  OBVIOUS
<1> HIDE DEF g
<1>3. Sum(f, n) = Sum(g, 0 - 0)
  <2>1. 0 \in Nat /\ 0 <= 0 /\ 0 <= n  OBVIOUS
  <2>2. \A m \in Nat : 0 <= m => Sum(f, m) = Sum(g, 0 - 0)
    BY <1>1, <1>2, <2>1, SumWindow
  <2>3. QED  BY <2>1, <2>2
<1>4. Sum(g, 0) = 0  BY <1>1, SumFacts
<1>5. 0 - 0 = 0  OBVIOUS
<1>6. QED  BY <1>3, <1>4, <1>5

\* What is counted of a region are the bytes of the source it covers.
LEMMA RegionCounted ==
  ASSUME StreamInv, NEW region \in Regions, NEW band
  PROVE  RegionCount(region, band)
           = Sum(Covered(region, band), Len(streamBytes))
<1> DEFINE L == Len(streamBytes)
           f == Covered(region, band)
           a == region.start
           b == Streams!Min({region.end + 1, L})
           bytes == SubSeq(streamBytes, a + 1, b)
           hits == Streams!InBand(bytes, band)
<1>1. /\ streamBytes \in Seq(Nat) /\ L \in Nat
      /\ a \in Nat /\ region.end \in Nat /\ a <= region.end
  BY DEF StreamInv, Regions
<1>2. b = IF region.end + 1 <= L THEN region.end + 1 ELSE L
  BY <1>1, MinOfTwo
<1>3. RegionCount(region, band) = Streams!Total(hits)
  BY DEF RegionCount, Streams!BytesFromSource
<1>4. f \in [Nat -> Nat]
      /\ \A k \in Nat : f[k] = IF Streams!Covers(region, k - 1)
                               THEN Hits(band)[k] ELSE 0
  BY HitFacts DEF Covered
<1> HIDE DEF f, b
<1>5. CASE L < a
  <2>1. a + 1 \in Int /\ b \in Int /\ ~ a + 1 <= b  BY <1>1, <1>2, <1>5
  <2>2. bytes = <<>>  BY <1>1, <2>1
  <2>3. hits = <<>>
    <3> HIDE DEF bytes
    <3>1. DOMAIN bytes = 1 .. 0  BY <2>2
    <3>2. hits = [k \in 1 .. 0 |->
                    IF Streams!ClassifyCodepoint(bytes[k]) = band
                    THEN 1 ELSE 0]
      BY <3>1 DEF Streams!InBand
    <3>3. QED  BY <3>2
  <2>4. Streams!Total(<<>>) = 0
    <3>1. [k \in 1 .. 0 |-> f[k]] = <<>>  OBVIOUS
    <3>2. QED  BY <1>4, <3>1, SumFacts DEF Sum
  <2>5. ASSUME NEW k \in Nat  PROVE f[k] = 0
    <3>1. CASE Streams!Covers(region, k - 1)
      <4>1. ~ k \in 1 .. L  BY <1>1, <1>5, <3>1 DEF Streams!Covers
      <4>2. QED  BY <1>4, <4>1, HitFacts
    <3>2. QED  BY <1>4, <3>1
  <2>6. Sum(f, L) = 0  BY <1>1, <1>4, <2>5, SumOfNothing
  <2>7. QED  BY <1>3, <2>3, <2>4, <2>6 DEF f
<1>6. CASE a <= L
  <2> DEFINE g == [k \in Nat |-> f[a + k]]
  <2>1. b \in Nat /\ a <= b /\ b <= L  BY <1>1, <1>2, <1>6
  <2>2. g \in [Nat -> Nat] /\ \A k \in Nat : g[k] = f[a + k]
    <3>1. \A k \in Nat : a + k \in Nat  BY <1>1
    <3>2. QED  BY <1>4, <3>1
  <2>3. ASSUME NEW k \in Nat, k <= a \/ b < k  PROVE f[k] = 0
    <3>1. CASE Streams!Covers(region, k - 1)
      <4>1. ~ k \in 1 .. L  BY <1>1, <1>2, <2>3, <3>1 DEF Streams!Covers
      <4>2. QED  BY <1>4, <4>1, HitFacts
    <3>2. QED  BY <1>4, <3>1
  <2> HIDE DEF g
  <2>4. Sum(f, L) = Sum(g, b - a)
    <3>1. \A n \in Nat : b <= n => Sum(f, n) = Sum(g, b - a)
      <4>1. a \in Nat /\ b \in Nat /\ a <= b  BY <1>1, <2>1
      <4>2. f \in [Nat -> Nat] /\ g \in [Nat -> Nat]  BY <1>4, <2>2
      <4>3. \A k \in Nat : g[k] = f[a + k]  BY <2>2
      <4>4. \A k \in Nat : k <= a \/ b < k => f[k] = 0  BY <2>3
      <4> HIDE DEF a, L
      <4>5. QED  BY <4>1, <4>2, <4>3, <4>4, SumWindow, ZenonT(40)
    <3>2. QED  BY <1>1, <2>1, <3>1
  <2>5. /\ bytes \in Seq(Nat) /\ DOMAIN bytes = 1 .. b - a
        /\ \A k \in 1 .. b - a : bytes[k] = streamBytes[a + k]
    <3>1. a + 1 \in 1 .. L + 1 /\ b \in a .. L  BY <1>1, <1>6, <2>1
    <3>2. /\ bytes \in Seq(Nat)
          /\ Len(bytes) = IF a + 1 <= b THEN b - (a + 1) + 1 ELSE 0
          /\ \A k \in 1 .. b - (a + 1) + 1 :
               bytes[k] = streamBytes[(a + 1) + k - 1]
      <4>1. \A k \in a + 1 .. b : streamBytes[k] \in Nat  BY <1>1, <2>1
      <4>2. a + 1 \in Int /\ b \in Int  BY <1>1, <2>1
      <4>3. QED  BY <4>1, <4>2, SubSeqProperties
    <3>3. Len(bytes) = b - a /\ b - (a + 1) + 1 = b - a
      BY <1>1, <2>1, <3>2
    <3>4. \A k \in 1 .. b - a : (a + 1) + k - 1 = a + k  BY <1>1, <2>1
    <3> HIDE DEF bytes
    <3>5. DOMAIN bytes = 1 .. b - a  BY <3>2, <3>3
    <3>6. QED  BY <3>2, <3>3, <3>4, <3>5
  <2>6. ASSUME NEW k \in 1 .. b - a
        PROVE  (IF Streams!ClassifyCodepoint(bytes[k]) = band THEN 1 ELSE 0)
                 = g[k]
    <3>1. /\ k \in Nat /\ a + k \in 1 .. L /\ a + k \in Nat
          /\ Streams!Covers(region, (a + k) - 1)
      <4>1. k \in Nat /\ 1 <= k /\ k <= b - a  BY <1>1, <2>1
      <4>2. b <= region.end + 1  BY <1>1, <1>2
      <4>3. a + k \in 1 .. L /\ a + k \in Nat  BY <1>1, <2>1, <4>1
      <4>4. a <= (a + k) - 1 /\ (a + k) - 1 <= region.end
        BY <1>1, <2>1, <4>1, <4>2
      <4>5. QED  BY <4>1, <4>3, <4>4 DEF Streams!Covers
    <3>2. g[k] = Hits(band)[a + k]  BY <1>4, <2>2, <3>1
    <3>3. Hits(band)[a + k]
            = IF Streams!ClassifyCodepoint(streamBytes[a + k]) = band
              THEN 1 ELSE 0
      BY <3>1, HitFacts
    <3>4. bytes[k] = streamBytes[a + k]  BY <2>5
    <3>5. QED  BY <3>2, <3>3, <3>4
  <2>7. hits = [k \in 1 .. b - a |-> g[k]]
    <3> HIDE DEF bytes
    <3>1. hits = [k \in 1 .. b - a |->
                    IF Streams!ClassifyCodepoint(bytes[k]) = band
                    THEN 1 ELSE 0]
      BY <2>5 DEF Streams!InBand
    <3>2. QED  BY <2>6, <3>1
  <2>8. QED  BY <1>3, <2>4, <2>7 DEF Sum, f
<1>7. QED  BY <1>1, <1>5, <1>6

\* With one region more there is one around what it covers.
LEMMA AroundGrows ==
  ASSUME NEW n \in Nat, NEW k \in Nat
  PROVE  /\ IsFiniteSet(Around(n, k)) /\ Cardinality(Around(n, k)) \in Nat
         /\ Cardinality(Around(n + 1, k))
              = Cardinality(Around(n, k))
                  + IF Streams!Covers(regions[n + 1], k - 1) THEN 1 ELSE 0
<1>1. IsFiniteSet(Around(n, k)) /\ Cardinality(Around(n, k)) \in Nat
  <2>1. IsFiniteSet(1 .. n)  BY FS_Interval
  <2>2. Around(n, k) \subseteq 1 .. n  BY DEF Around
  <2>3. QED  BY <2>1, <2>2, FS_Subset, FS_CardinalityType
<1>2. CASE Streams!Covers(regions[n + 1], k - 1)
  <2>1. Around(n + 1, k) = Around(n, k) \cup {n + 1}
    <3>1. \A i : i \in 1 .. n + 1 <=> i \in 1 .. n \/ i = n + 1  OBVIOUS
    <3>2. QED  BY <1>2, <3>1 DEF Around
  <2>2. n + 1 \notin Around(n, k)  BY DEF Around
  <2>3. Cardinality(Around(n + 1, k)) = Cardinality(Around(n, k)) + 1
    BY <1>1, <2>1, <2>2, FS_AddElement
  <2>4. QED  BY <1>1, <1>2, <2>3
<1>3. CASE ~Streams!Covers(regions[n + 1], k - 1)
  <2>1. Around(n + 1, k) = Around(n, k)
    <3>1. \A i : i \in 1 .. n + 1 <=> i \in 1 .. n \/ i = n + 1  OBVIOUS
    <3>2. QED  BY <1>3, <3>1 DEF Around
  <2>2. QED  BY <1>1, <1>3, <2>1
<1>4. QED  BY <1>1, <1>2, <1>3

\* How many regions there are around the bytes of a band.
LEMMA DepthFacts ==
  ASSUME NEW n \in Nat, NEW band
  PROVE  /\ Depth(n, band) \in [Nat -> Nat]
         /\ \A k \in Nat : Depth(0, band)[k] = 0
         /\ \A k \in Nat :
              Depth(n + 1, band)[k]
                = Depth(n, band)[k] + Covered(regions[n + 1], band)[k]
<1>1. Depth(n, band) \in [Nat -> Nat]
  <2>1. \A k \in Nat : (IF Hits(band)[k] = 1 THEN Cardinality(Around(n, k))
                        ELSE 0) \in Nat
    BY AroundGrows
  <2>2. QED  BY <2>1 DEF Depth
<1>2. ASSUME NEW k \in Nat  PROVE Depth(0, band)[k] = 0
  <2>1. Around(0, k) = {}  BY DEF Around
  <2>2. Cardinality({}) = 0  BY FS_EmptySet
  <2>3. QED  BY <2>1, <2>2 DEF Depth
<1>3. ASSUME NEW k \in Nat
      PROVE  Depth(n + 1, band)[k]
               = Depth(n, band)[k] + Covered(regions[n + 1], band)[k]
  <2> DEFINE c == Cardinality(Around(n, k))
             d == Cardinality(Around(n + 1, k))
             h == Hits(band)[k]
  <2>1. c \in Nat /\ h \in {0, 1}
        /\ d = c + IF Streams!Covers(regions[n + 1], k - 1) THEN 1 ELSE 0
    BY AroundGrows, HitFacts
  <2>2. /\ Depth(n + 1, band)[k] = IF h = 1 THEN d ELSE 0
        /\ Depth(n, band)[k] = IF h = 1 THEN c ELSE 0
        /\ Covered(regions[n + 1], band)[k]
             = IF Streams!Covers(regions[n + 1], k - 1) THEN h ELSE 0
    BY DEF Depth, Covered
  <2> HIDE DEF c, d, h
  <2>3. QED  BY <2>1, <2>2
<1>4. QED  BY <1>1, <1>2, <1>3

\* What is counted region by region is what is around each byte.
LEMMA RegionsCounted ==
  ASSUME StreamInv, NEW band
  PROVE  /\ RegionCounts(band) \in [Nat -> Nat]
         /\ Sum(RegionCounts(band), Len(regions))
              = Sum(Depth(Len(regions), band), Len(streamBytes))
<1> DEFINE L == Len(streamBytes)
           counts == RegionCounts(band)
           T == {n \in Nat : n <= Len(regions)
                   => Sum(counts, n) = Sum(Depth(n, band), L)}
<1>1. L \in Nat /\ Len(regions) \in Nat /\ DOMAIN regions = 1 .. Len(regions)
      /\ \A i \in 1 .. Len(regions) : regions[i] \in Regions
  BY DEF StreamInv
<1>2. \A i \in 1 .. Len(regions) :
        RegionCount(regions[i], band) = Sum(Covered(regions[i], band), L)
  BY <1>1, RegionCounted
<1>3. \A region : Covered(region, band) \in [Nat -> Nat]
                  /\ Sum(Covered(region, band), L) \in Nat
  BY <1>1, HitFacts, SumIsNat
<1>4. counts \in [Nat -> Nat]
      /\ \A i \in 1 .. Len(regions) :
           counts[i] = Sum(Covered(regions[i], band), L)
  <2>1. \A i \in Nat : (IF i \in DOMAIN regions
                        THEN RegionCount(regions[i], band) ELSE 0) \in Nat
    BY <1>1, <1>2, <1>3
  <2>2. counts \in [Nat -> Nat]  BY <2>1 DEF RegionCounts
  <2>3. ASSUME NEW i \in 1 .. Len(regions)
        PROVE  counts[i] = Sum(Covered(regions[i], band), L)
    <3>1. i \in Nat /\ i \in DOMAIN regions  BY <1>1
    <3>2. counts[i] = RegionCount(regions[i], band)
      BY <3>1 DEF RegionCounts
    <3>3. QED  BY <1>2, <3>2
  <2>4. QED  BY <2>2, <2>3
<1> HIDE DEF counts, L
<1>5. \A n \in Nat : Depth(n, band) \in [Nat -> Nat]  BY DepthFacts
<1>6. Sum(counts, 0) = Sum(Depth(0, band), L)
  <2>1. Sum(counts, 0) = 0  BY <1>4, SumFacts
  <2>2. \A k \in Nat : Depth(0, band)[k] = 0  BY DepthFacts
  <2>3. Sum(Depth(0, band), L) = 0  BY <1>1, <1>5, <2>2, SumOfNothing
  <2>4. QED  BY <2>1, <2>3
<1>7. ASSUME NEW n \in Nat, n \in T  PROVE n + 1 \in T
  <2>1. CASE n + 1 <= Len(regions)
    <3>1. Sum(counts, n + 1) = Sum(counts, n) + counts[n + 1]
      BY <1>4, SumFacts
    <3>2. n + 1 \in 1 .. Len(regions) /\ n <= Len(regions)  BY <1>1, <2>1
    <3>3. counts[n + 1] = Sum(Covered(regions[n + 1], band), L)
      BY <1>4, <3>2
    <3>4. Sum(counts, n) = Sum(Depth(n, band), L)  BY <1>7, <3>2
    <3>5. Sum(Depth(n + 1, band), L)
            = Sum(Depth(n, band), L) + Sum(Covered(regions[n + 1], band), L)
      <4>1. /\ Depth(n, band) \in [Nat -> Nat]
            /\ Depth(n + 1, band) \in [Nat -> Nat]
            /\ Covered(regions[n + 1], band) \in [Nat -> Nat]
        <5>1. n + 1 \in Nat  OBVIOUS
        <5>2. QED  BY <1>3, <1>5, <5>1
      <4>2. \A k \in Nat :
              Depth(n + 1, band)[k]
                = Depth(n, band)[k] + Covered(regions[n + 1], band)[k]
        BY DepthFacts
      <4> DEFINE deep == Depth(n, band)
                 deeper == Depth(n + 1, band)
                 more == Covered(regions[n + 1], band)
      <4>3. deep \in [Nat -> Nat] /\ deeper \in [Nat -> Nat]
            /\ more \in [Nat -> Nat]
            /\ \A k \in Nat : deeper[k] = deep[k] + more[k]
        BY <4>1, <4>2
      <4> HIDE DEF deep, deeper, more
      <4>4. Sum(deeper, L) = Sum(deep, L) + Sum(more, L)
        <5>1. \A m \in Nat : Sum(deeper, m) = Sum(deep, m) + Sum(more, m)
          BY <4>3, SumAdds, Zenon
        <5>2. QED  BY <1>1, <5>1
      <4>5. QED  BY <4>4 DEF deep, deeper, more
    <3>6. Sum(counts, n + 1) = Sum(Depth(n + 1, band), L)
      BY <3>1, <3>3, <3>4, <3>5
    <3>7. QED  BY <3>6
  <2>2. QED  BY <2>1
<1>8. 0 \in T  BY <1>6
<1> HIDE DEF T
<1>9. Nat \subseteq T  BY <1>7, <1>8, Adding!Induction
<1>10. Sum(counts, Len(regions)) = Sum(Depth(Len(regions), band), L)
  BY <1>1, <1>9 DEF T
<1>11. QED  BY <1>4, <1>10 DEF counts, L

\* What a projection counts in all is what the stacks of overlays are made of,
\* byte by byte.
LEMMA CountsMeet == StreamInv => Streams!CountsAddUp
<1> SUFFICES ASSUME StreamInv, NEW band \in Streams!Bands
             PROVE  Streams!TotalBandCounts(active)[band]
                      = Streams!Total([k \in DOMAIN streamBytes |->
                          Streams!InBand(streamBytes, band)[k]
                            * Len(Streams!OverlayStack(k - 1))])
  BY DEF Streams!CountsAddUp
<1> DEFINE L == Len(streamBytes)
           R == Len(regions)
           projected == Streams!ProjectStreamDeclaration(active)
<1>1. /\ L \in Nat /\ DOMAIN streamBytes = 1 .. L
      /\ R \in Nat /\ DOMAIN regions = 1 .. R
  BY DEF StreamInv
<1>2. Streams!TotalBandCounts(active)[band] = Sum(RegionCounts(band), R)
  <2>1. DOMAIN projected = 1 .. R
    BY <1>1 DEF Streams!ProjectStreamDeclaration
  <2>2. ASSUME NEW i \in 1 .. R
        PROVE  Streams!BandCounts(projected[i])[band] = RegionCounts(band)[i]
    <3>1. projected[i].bytes
            = Streams!BytesFromSource(regions[i].start, regions[i].end)
      BY <1>1 DEF Streams!ProjectStreamDeclaration, Streams!ProjectRegion
    <3> HIDE DEF projected
    <3>2. Streams!BandCounts(projected[i])[band]
            = Streams!Total(Streams!InBand(projected[i].bytes, band))
      BY DEF Streams!BandCounts
    <3>3. RegionCounts(band)[i] = RegionCount(regions[i], band)
      <4>1. i \in Nat /\ i \in DOMAIN regions  BY <1>1
      <4>2. QED  BY <4>1 DEF RegionCounts
    <3>4. QED  BY <3>1, <3>2, <3>3 DEF RegionCount
  <2>3. Streams!TotalBandCounts(active)[band]
          = Streams!Total([i \in DOMAIN projected |->
                             Streams!BandCounts(projected[i])[band]])
    BY DEF Streams!TotalBandCounts
  <2> HIDE DEF projected
  <2>4. [i \in DOMAIN projected |-> Streams!BandCounts(projected[i])[band]]
          = [i \in 1 .. R |-> RegionCounts(band)[i]]
    BY <2>1, <2>2
  <2>5. QED  BY <2>3, <2>4 DEF Sum
<1>3. ASSUME NEW k \in 1 .. L
      PROVE  Streams!InBand(streamBytes, band)[k]
                 * Len(Streams!OverlayStack(k - 1)) = Depth(R, band)[k]
  <2> DEFINE n == Len(Streams!OverlayStack(k - 1))
             h == Hits(band)[k]
  <2>1. Streams!InBand(streamBytes, band)[k] = h
    BY <1>1, HitFacts DEF Streams!InBand
  <2>2. n = Cardinality(Around(R, k)) /\ n \in Nat
    <3>1. Streams!Covering(k - 1) = Around(R, k)
      BY <1>1 DEF Streams!Covering, Around
    <3>2. n = Cardinality(Streams!Covering(k - 1))
      BY OverlayFacts DEF Overlays!Lists, Overlays!Cardinality, Cardinality
    <3>3. Cardinality(Around(R, k)) \in Nat
      BY <1>1, AroundGrows
    <3>4. QED  BY <3>1, <3>2, <3>3
  <2>3. h \in {0, 1}  BY HitFacts
  <2>4. Depth(R, band)[k] = IF h = 1 THEN Cardinality(Around(R, k)) ELSE 0
    BY DEF Depth
  <2> HIDE DEF n, h
  <2>5. h * n = IF h = 1 THEN n ELSE 0
    <3>1. CASE h = 0  BY <2>2, <3>1
    <3>2. CASE h = 1  BY <2>2, <3>2
    <3>3. QED  BY <2>3, <3>1, <3>2
  <2>6. QED  BY <2>1, <2>2, <2>4, <2>5 DEF n
<1>4. Streams!Total([k \in DOMAIN streamBytes |->
        Streams!InBand(streamBytes, band)[k]
          * Len(Streams!OverlayStack(k - 1))])
        = Sum(Depth(R, band), L)
  <2>1. [k \in DOMAIN streamBytes |->
           Streams!InBand(streamBytes, band)[k]
             * Len(Streams!OverlayStack(k - 1))]
          = [k \in 1 .. L |-> Depth(R, band)[k]]
    BY <1>1, <1>3
  <2>2. QED  BY <2>1 DEF Sum
<1>5. QED  BY <1>2, <1>4, RegionsCounted

\* The readers of a stream tell one story.
THEOREM StreamsReadAlike == Streams!Spec => []Streams!RegionsReadAlike
<1>1. StreamInv => Streams!RegionsReadAlike
  BY InnermostIsHeld, InspectorsMeet, CountsMeet DEF Streams!RegionsReadAlike
<1>2. QED  BY <1>1, StreamInvariance, PTL

\* The other parts leave the stream alone.
LEMMA StreamSpec == Spec => Streams!Spec
<1>1. Init => Streams!Init  BY DEF Init
<1>2. [Next]_vars => [Streams!Next]_(Streams!vars)
  BY DEF Next, vars, streamVars, Streams!vars
<1>3. QED  BY <1>1, <1>2, PTL DEF Spec, Streams!Spec

\* Types of a stream and its regions.
LEMMA StreamTypes ==
  ASSUME Styles # {}, MaxRegions \in Nat \ {0}
  PROVE  Streams!Spec => []Streams!TypeOK
<1> DEFINE Declared == /\ streamBytes \in ByteSources
                       /\ Len(regions) <= MaxRegions
                       /\ \A i \in DOMAIN regions : regions[i].style \in Styles
                       /\ active \in {"barcode", "chart"}
<1>1. Streams!Init => Declared
  <2> SUFFICES ASSUME Streams!Init  PROVE Declared
    OBVIOUS
  <2>1. streamBytes \in ByteSources /\ active \in {"barcode", "chart"}
    BY DEF Streams!Init
  <2>2. CASE regions = <<>>  BY <2>1, <2>2
  <2>3. CASE streamBytes # <<>> /\ regions = Streams!InitialRegions(streamBytes)
    <3> DEFINE all == [start |-> 0, end |-> Len(streamBytes) - 1,
                       style |-> CHOOSE style \in Styles : TRUE]
    <3>1. all.style \in Styles  OBVIOUS
    <3>2. regions = <<all>>  BY <2>3 DEF Streams!InitialRegions
    <3> HIDE DEF all
    <3>3. /\ Len(regions) = 1
          /\ \A i \in DOMAIN regions : regions[i].style \in Styles
      BY <3>1, <3>2
    <3>4. QED  BY <2>1, <3>3
  <2>4. QED  BY <2>2, <2>3 DEF Streams!Init, Streams!InitialRegions
<1>2. StreamInv /\ Declared /\ [Streams!Next]_(Streams!vars) => Declared'
  <2> SUFFICES ASSUME StreamInv, Declared, [Streams!Next]_(Streams!vars)
               PROVE  Declared'
    OBVIOUS
  <2>1. ASSUME NEW next \in ByteSources, Streams!SetSource(next)
        PROVE  Declared'
    BY <2>1 DEF Streams!SetSource
  <2>2. ASSUME NEW given \in Streams!Given, Streams!DeclareRegion(given)
        PROVE  Declared'
    <3> DEFINE region == Streams!NormalizeRegion(given, Len(streamBytes))
    <3>1. /\ region # None /\ regions' = Append(regions, region)
          /\ Len(regions) < MaxRegions /\ UNCHANGED <<streamBytes, active>>
      BY <2>2 DEF Streams!DeclareRegion
    <3>2. region \in Regions /\ region.style = given.style /\ given.style # Bad
      BY <3>1, RegionFacts
    <3>3. region.style \in Styles  BY <3>2 DEF Streams!Given
    <3> HIDE DEF region
    <3>4. regions \in Seq(Regions)  BY DEF StreamInv
    <3>5. /\ Len(regions) \in Nat /\ regions' \in Seq(Regions)
          /\ Len(regions') = Len(regions) + 1
          /\ regions'[Len(regions) + 1] = region
          /\ \A i \in 1 .. Len(regions) : regions'[i] = regions[i]
      BY <3>1, <3>2, <3>4, AppendProperties
    <3>6. \A i \in 1 .. Len(regions) + 1 : regions'[i].style \in Styles
      BY <3>3, <3>4, <3>5
    <3>7. DOMAIN regions' = 1 .. Len(regions) + 1  BY <3>5
    <3>8. QED  BY <3>1, <3>5, <3>6, <3>7
  <2>3. ASSUME NEW name, Streams!SetPresentation(name)  PROVE Declared'
    <3>1. active' \in {"barcode", "chart"}
      BY <2>3 DEF Streams!SetPresentation, Streams!NormalizePresentation
    <3>2. QED  BY <2>3, <3>1 DEF Streams!SetPresentation
  <2>4. CASE UNCHANGED Streams!vars  BY <2>4 DEF Streams!vars
  <2>5. QED
    BY <2>1, <2>2, <2>3, <2>4 DEF Streams!Next, Streams!TogglePresentation
<1>3. StreamInv /\ Declared => Streams!TypeOK
  BY DEF StreamInv, Regions, Streams!TypeOK
<1> HIDE DEF Declared
<1>4. QED  BY <1>1, <1>2, <1>3, StreamInvariance, PTL DEF Streams!Spec

-----------------------------------------------------------------------------
(* The shell. *)

ShellLemmas == INSTANCE EditLogProofs WITH Keys <- {}, Texts <- {}, Peers <- {}

\* What was proposed to be done, and the scene, are told of one after another.
Placed ==
  LET added == Shell!Proposals("ADD_COMPONENT")
      related == Shell!Proposals("CREATE_RELATION")
  IN  /\ Len(added) = Len(placed.components)
      /\ \A i \in 1 .. Len(placed.components) :
           /\ added[i].key[2] = placed.components[i].path
           /\ added[i].text = Shell!ProposedProperty(placed.components[i])
      /\ Len(related) = Len(placed.relations)
      /\ \A i \in 1 .. Len(placed.relations) :
           /\ related[i].key[2] = placed.relations[i].id
           /\ related[i].text = <<"relation", placed.relations[i].from,
                                  placed.relations[i].to>>

\* The scene is two lists, the log is one of something.
ShellLists ==
  /\ placed = [components |-> placed.components, relations |-> placed.relations]
  /\ \E S : placed.components \in Seq(S)
  /\ \E S : placed.relations \in Seq(S)
  /\ \E S : editLog \in Seq(S)

ShellInv ==
  ShellLists /\ Placed /\ Shell!PartsOfOneSource /\ Shell!ViewModesAgree

\* An event adds to what was proposed if it is such a proposal.
LEMMA ProposalsGrow ==
  ASSUME NEW S, editLog \in Seq(S), NEW e, editLog' = Append(editLog, e),
         NEW action
  PROVE  Shell!Proposals(action)' =
           IF e.type = "proposal" /\ e.key[1] = action
           THEN Append(Shell!Proposals(action), e) ELSE Shell!Proposals(action)
<1> DEFINE I == {i \in DOMAIN editLog :
                   editLog[i].type = "proposal" /\ editLog[i].key[1] = action}
           J == {i \in DOMAIN editLog' :
                   editLog'[i].type = "proposal" /\ editLog'[i].key[1] = action}
           n == Len(editLog) + 1
<1>1. PICK T : editLog \in Seq(T) /\ e \in T  BY ListGrows
<1>2. /\ DOMAIN editLog' = DOMAIN editLog \cup {n} /\ n \notin DOMAIN editLog
      /\ editLog'[n] = e /\ \A i \in DOMAIN editLog : editLog'[i] = editLog[i]
  BY <1>1
<1> HIDE DEF n
<1>3. /\ I \cap DOMAIN editLog = J \cap DOMAIN editLog
      /\ n \in J <=> e.type = "proposal" /\ e.key[1] = action
  BY <1>2
<1>4. /\ Shell!Proposals(action) = ShellLemmas!Subsequence(editLog, I)
      /\ Shell!Proposals(action)' = ShellLemmas!Subsequence(editLog', J)
  BY DEF Shell!Proposals, Shell!Subsequence, ShellLemmas!Subsequence
<1> HIDE DEF I, J
<1>5. ShellLemmas!Subsequence(editLog, I) = ShellLemmas!Subsequence(editLog, J)
  BY <1>1, <1>3, ShellLemmas!SubsequenceDepends
<1>6. ShellLemmas!Subsequence(Append(editLog, e), J) =
        IF n \in J THEN Append(ShellLemmas!Subsequence(editLog, J), e)
        ELSE ShellLemmas!Subsequence(editLog, J)
  BY <1>1, ShellLemmas!SubsequenceGrows DEF n
<1>7. QED  BY <1>3, <1>4, <1>5, <1>6

\* The proposals of a view are a sequence.
LEMMA ProposalsTyped ==
  ASSUME NEW S, editLog \in Seq(S), NEW action
  PROVE  Shell!Proposals(action) \in Seq(S)
<1> DEFINE I == {i \in DOMAIN editLog :
                   editLog[i].type = "proposal" /\ editLog[i].key[1] = action}
<1>1. Shell!Proposals(action) = ShellLemmas!Subsequence(editLog, I)
  BY DEF Shell!Proposals, Shell!Subsequence, ShellLemmas!Subsequence
<1> HIDE DEF I
<1>2. QED  BY <1>1, ShellLemmas!SubsequenceHolds

\* What a proposal is.
LEMMA ProposalFacts ==
  ASSUME NEW key, NEW text
  PROVE  \E e : /\ Shell!AppendProposal(editLog, key, text) = Append(editLog, e)
                /\ e.type = "proposal" /\ e.key = key /\ e.text = text
<1> DEFINE p == [Shell!Blank("proposal") EXCEPT !.key = key, !.text = text]
           e == [p EXCEPT !.seq = Len(editLog) + 1]
<1>1. p.type = "proposal" /\ p.key = key /\ p.text = text
      /\ DOMAIN p = DOMAIN Shell!Blank("proposal")
  BY DEF Shell!Blank
<1>2. Shell!AppendProposal(editLog, key, text) = Append(editLog, e)
  BY DEF Shell!AppendProposal, Shell!AppendEvent
<1>3. e.type = "proposal" /\ e.key = key /\ e.text = text
  BY DEF Shell!Blank
<1> HIDE DEF p, e
<1>4. QED  BY <1>2, <1>3

\* A commit is none.
LEMMA CommitFacts ==
  ASSUME NEW seq
  PROVE  \/ Shell!CommitProposal(editLog, seq) = editLog
         \/ \E e : /\ Shell!CommitProposal(editLog, seq) = Append(editLog, e)
                   /\ e.type # "proposal"
<1> DEFINE p == [Shell!Blank("commit") EXCEPT !.key = editLog[seq].key,
                   !.text = editLog[seq].text, !.proposalSeq = seq]
           e == [p EXCEPT !.seq = Len(editLog) + 1]
<1>1. \/ Shell!CommitProposal(editLog, seq) = editLog
      \/ Shell!CommitProposal(editLog, seq) = Append(editLog, e)
  BY DEF Shell!CommitProposal, Shell!AppendEvent
<1>2. e.type = "commit"  BY DEF Shell!Blank
<1> HIDE DEF p, e
<1>3. QED  BY <1>1, <1>2

\* The invariant of the shell holds at first.
LEMMA ShellInit == Shell!Init => ShellInv
<1> SUFFICES ASSUME Shell!Init  PROVE ShellInv
  OBVIOUS
<1> DEFINE none == <<>>
<1>1. none \in Seq({}) /\ Len(none) = 0 /\ DOMAIN none = {}  OBVIOUS
<1>2. \A I : ShellLemmas!Subsequence(none, I) = none
  BY ShellLemmas!SubsequenceEmpty
<1>3. /\ editLog = none
      /\ placed = [components |-> none, relations |-> none]
  BY DEF Shell!Init
<1> HIDE DEF none
<1>4. ASSUME NEW action  PROVE Shell!Proposals(action) = none
  <2> DEFINE I == {i \in DOMAIN editLog :
                     editLog[i].type = "proposal" /\ editLog[i].key[1] = action}
  <2>1. Shell!Proposals(action) = ShellLemmas!Subsequence(editLog, I)
    BY DEF Shell!Proposals, Shell!Subsequence, ShellLemmas!Subsequence
  <2> HIDE DEF I
  <2>2. QED  BY <1>2, <1>3, <2>1
<1>5. ShellLists  BY <1>1, <1>3 DEF ShellLists
<1>6. Placed  BY <1>1, <1>3, <1>4 DEF Placed
<1>7. Shell!PartsOfOneSource
  BY DEF Shell!Init, Shell!TriangulateSource, Shell!PartsOfOneSource
<1>8. Shell!ViewModesAgree  BY DEF Shell!Init, Shell!ViewModesAgree
<1>9. QED  BY <1>5, <1>6, <1>7, <1>8 DEF ShellInv

\* A template that is dropped is proposed, for its path and by its id.
LEMMA DropKeeps ==
  ASSUME ShellLists, Placed, NEW t, NEW proposed,
         Shell!DropTemplate(t, proposed)
  PROVE  ShellLists' /\ Placed'
<1> DEFINE component == [id |-> Len(placed.components) + 1,
                         path |-> IF proposed = NoKey THEN t ELSE proposed]
           key == <<"ADD_COMPONENT", component.path>>
           text == Shell!ProposedProperty(component)
           added == Shell!Proposals("ADD_COMPONENT")
           related == Shell!Proposals("CREATE_RELATION")
<1>1. /\ placed' = [placed EXCEPT !.components = Append(@, component)]
      /\ editLog' = Shell!AppendProposal(editLog, key, text)
  BY DEF Shell!DropTemplate
<1>2. key[1] = "ADD_COMPONENT" /\ key[2] = component.path  OBVIOUS
<1> HIDE DEF component, text, key
<1>3. PICK e : /\ editLog' = Append(editLog, e)
               /\ e.type = "proposal" /\ e.key = key /\ e.text = text
  BY <1>1, ProposalFacts
<1>4. PICK S : editLog \in Seq(S)  BY DEF ShellLists
<1>5. added' = Append(added, e) /\ related' = related
  BY <1>2, <1>3, <1>4, ProposalsGrow
<1>6. added \in Seq(S)  BY <1>4, ProposalsTyped
<1>7. PICK C : placed.components \in Seq(C)  BY DEF ShellLists
<1>8. /\ placed'.components = Append(placed.components, component)
      /\ placed'.relations = placed.relations
      /\ placed' = [components |-> placed'.components,
                    relations |-> placed'.relations]
  BY <1>1 DEF ShellLists
<1>9. ShellLists'
  <2>1. \E T : placed'.components \in Seq(T)
    <3>1. \E T : Append(placed.components, component) \in Seq(T)
      BY <1>7, ListGrows
    <3>2. QED  BY <1>8, <3>1
  <2>2. \E T : editLog' \in Seq(T)  BY <1>3, <1>4, ListGrows
  <2>3. \E T : placed'.relations \in Seq(T)  BY <1>8 DEF ShellLists
  <2>4. QED  BY <1>8, <2>1, <2>2, <2>3 DEF ShellLists
<1>10. Placed'
  <2> DEFINE n == Len(placed.components)
  <2>1. /\ n \in Nat /\ Len(placed'.components) = n + 1
        /\ placed'.components[n + 1] = component
        /\ \A i \in 1 .. n : placed'.components[i] = placed.components[i]
    BY <1>7, <1>8, ListAppended
  <2>2. /\ Len(added) = n
        /\ \A i \in 1 .. n :
             /\ added[i].key[2] = placed.components[i].path
             /\ added[i].text = Shell!ProposedProperty(placed.components[i])
    BY DEF Placed
  <2> HIDE DEF n
  <2>3. /\ Len(added') = n + 1 /\ added'[n + 1] = e
        /\ \A i \in 1 .. n : added'[i] = added[i]
    <3> HIDE DEF added
    <3>1. /\ Len(Append(added, e)) = Len(added) + 1
          /\ Append(added, e)[Len(added) + 1] = e
          /\ \A i \in 1 .. Len(added) : Append(added, e)[i] = added[i]
      BY <1>6, ListAppended
    <3>2. QED  BY <1>5, <2>2, <3>1
  <2>4. ASSUME NEW i \in 1 .. n + 1
        PROVE  /\ added'[i].key[2] = placed'.components[i].path
               /\ added'[i].text = Shell!ProposedProperty(placed'.components[i])
    <3>1. CASE i \in 1 .. n  BY <2>1, <2>2, <2>3, <3>1
    <3>2. CASE i = n + 1  BY <1>2, <1>3, <2>1, <2>3, <3>2 DEF text
    <3>3. QED  BY <2>1, <3>1, <3>2
  <2>5. QED  BY <1>5, <1>8, <2>1, <2>3, <2>4 DEF Placed, Shell!ProposedProperty
<1>11. QED  BY <1>9, <1>10

\* So is a connection.
LEMMA ConnectKeeps ==
  ASSUME ShellLists, Placed, NEW from, NEW to, Shell!ConnectComponents(from, to)
  PROVE  ShellLists' /\ Placed'
<1> DEFINE edge == [id |-> Len(placed.relations) + 1, from |-> from, to |-> to]
           key == <<"CREATE_RELATION", edge.id>>
           text == <<"relation", from, to>>
           added == Shell!Proposals("ADD_COMPONENT")
           related == Shell!Proposals("CREATE_RELATION")
<1>1. /\ placed' = [placed EXCEPT !.relations = Append(@, edge)]
      /\ editLog' = Shell!AppendProposal(editLog, key, text)
  BY DEF Shell!ConnectComponents
<1>2. /\ key[1] = "CREATE_RELATION" /\ key[2] = edge.id
      /\ text = <<"relation", edge.from, edge.to>>
  OBVIOUS
<1> HIDE DEF edge, text, key
<1>3. PICK e : /\ editLog' = Append(editLog, e)
               /\ e.type = "proposal" /\ e.key = key /\ e.text = text
  BY <1>1, ProposalFacts
<1>4. PICK S : editLog \in Seq(S)  BY DEF ShellLists
<1>5. related' = Append(related, e) /\ added' = added
  BY <1>2, <1>3, <1>4, ProposalsGrow
<1>6. related \in Seq(S)  BY <1>4, ProposalsTyped
<1>7. PICK R : placed.relations \in Seq(R)  BY DEF ShellLists
<1>8. /\ placed'.relations = Append(placed.relations, edge)
      /\ placed'.components = placed.components
      /\ placed' = [components |-> placed'.components,
                    relations |-> placed'.relations]
  BY <1>1 DEF ShellLists
<1>9. ShellLists'
  <2>1. \E T : placed'.relations \in Seq(T)
    <3>1. \E T : Append(placed.relations, edge) \in Seq(T)
      BY <1>7, ListGrows
    <3>2. QED  BY <1>8, <3>1
  <2>2. \E T : editLog' \in Seq(T)  BY <1>3, <1>4, ListGrows
  <2>3. \E T : placed'.components \in Seq(T)  BY <1>8 DEF ShellLists
  <2>4. QED  BY <1>8, <2>1, <2>2, <2>3 DEF ShellLists
<1>10. Placed'
  <2> DEFINE n == Len(placed.relations)
  <2>1. /\ n \in Nat /\ Len(placed'.relations) = n + 1
        /\ placed'.relations[n + 1] = edge
        /\ \A i \in 1 .. n : placed'.relations[i] = placed.relations[i]
    BY <1>7, <1>8, ListAppended
  <2>2. /\ Len(related) = n
        /\ \A i \in 1 .. n :
             /\ related[i].key[2] = placed.relations[i].id
             /\ related[i].text = <<"relation", placed.relations[i].from,
                                    placed.relations[i].to>>
    BY DEF Placed
  <2> HIDE DEF n
  <2>3. /\ Len(related') = n + 1 /\ related'[n + 1] = e
        /\ \A i \in 1 .. n : related'[i] = related[i]
    <3> HIDE DEF related
    <3>1. /\ Len(Append(related, e)) = Len(related) + 1
          /\ Append(related, e)[Len(related) + 1] = e
          /\ \A i \in 1 .. Len(related) : Append(related, e)[i] = related[i]
      BY <1>6, ListAppended
    <3>2. QED  BY <1>5, <2>2, <3>1
  <2>4. ASSUME NEW i \in 1 .. n + 1
        PROVE  /\ related'[i].key[2] = placed'.relations[i].id
               /\ related'[i].text = <<"relation", placed'.relations[i].from,
                                       placed'.relations[i].to>>
    <3>1. CASE i \in 1 .. n  BY <2>1, <2>2, <2>3, <3>1
    <3>2. CASE i = n + 1  BY <1>2, <1>3, <2>1, <2>3, <3>2
    <3>3. QED  BY <2>1, <3>1, <3>2
  <2>5. QED  BY <1>5, <1>8, <2>1, <2>3, <2>4 DEF Placed
<1>11. QED  BY <1>9, <1>10

\* A commit proposes nothing.
LEMMA CommitKeeps ==
  ASSUME ShellLists, Placed, NEW seq, Shell!Commit(seq)
  PROVE  ShellLists' /\ Placed'
<1>1. editLog' = Shell!CommitProposal(editLog, seq) /\ UNCHANGED placed
  BY DEF Shell!Commit
<1>2. PICK S : editLog \in Seq(S)  BY DEF ShellLists
<1>3. CASE editLog' = editLog
  <2>1. \A action : Shell!Proposals(action)' = Shell!Proposals(action)
    BY <1>3 DEF Shell!Proposals
  <2>2. ShellLists'  BY <1>1, <1>3 DEF ShellLists
  <2>3. Placed'  BY <1>1, <2>1 DEF Placed, Shell!ProposedProperty
  <2>4. QED  BY <2>2, <2>3
<1>4. CASE \E e : editLog' = Append(editLog, e) /\ e.type # "proposal"
  <2>1. PICK e : editLog' = Append(editLog, e) /\ e.type # "proposal"  BY <1>4
  <2>2. \A action : Shell!Proposals(action)' = Shell!Proposals(action)
    BY <1>2, <2>1, ProposalsGrow
  <2>3. ShellLists'
    <3>1. \E T : editLog' \in Seq(T)  BY <1>2, <2>1, ListGrows
    <3>2. QED  BY <1>1, <3>1 DEF ShellLists
  <2>4. Placed'  BY <1>1, <2>2 DEF Placed, Shell!ProposedProperty
  <2>5. QED  BY <2>3, <2>4
<1>5. QED  BY <1>1, <1>3, <1>4, CommitFacts

\* The other actions leave the scene and the log alone.
LEMMA ShellNext ==
  ASSUME ShellInv, [Shell!Next]_(Shell!vars)  PROVE ShellInv'
<1>1. Shell!PartsOfOneSource'
  <2>1. ASSUME NEW next \in Documents, Shell!Reparse(next)
        PROVE  Shell!PartsOfOneSource'
    BY <2>1 DEF ShellInv, Shell!Reparse, Shell!TriangulateSource,
                Shell!PartsOfOneSource
  <2>2. CASE UNCHANGED Shell!parts
    BY <2>2 DEF ShellInv, Shell!parts, Shell!PartsOfOneSource
  <2>3. UNCHANGED Shell!parts \/ \E next \in Documents : Shell!Reparse(next)
    BY DEF Shell!Next, Shell!vars, Shell!SetViewMode, Shell!ToggleViewMode,
           Shell!Seek, Shell!CurrentAnimationFrame, Shell!FoldSubchart,
           Shell!SetCubeDifferentialMode, Shell!ComposeBarcodeTemplates,
           Shell!SetBarcodeCompositionMode, Shell!DropTemplate,
           Shell!ConnectComponents, Shell!Commit
  <2>4. QED  BY <2>1, <2>2, <2>3
<1>2. Shell!ViewModesAgree'
  <2>1. \/ UNCHANGED <<viewMode, switcher>>
        \/ viewMode' = switcher'
        \/ switcher' = "animated"
    BY DEF Shell!Next, Shell!vars, Shell!views, Shell!SetViewMode,
           Shell!ToggleViewMode, Shell!Reparse,
           Shell!Seek, Shell!CurrentAnimationFrame, Shell!FoldSubchart,
           Shell!SetCubeDifferentialMode, Shell!ComposeBarcodeTemplates,
           Shell!SetBarcodeCompositionMode, Shell!DropTemplate,
           Shell!ConnectComponents, Shell!Commit
  <2>2. QED  BY <2>1 DEF ShellInv, Shell!ViewModesAgree
<1>3. ShellLists' /\ Placed'
  <2>1. CASE UNCHANGED <<placed, editLog>>
    BY <2>1 DEF ShellInv, ShellLists, Placed, Shell!Proposals,
                Shell!ProposedProperty
  <2>2. \/ UNCHANGED <<placed, editLog>>
        \/ \E t, proposed : Shell!DropTemplate(t, proposed)
        \/ \E from, to : Shell!ConnectComponents(from, to)
        \/ \E seq : Shell!Commit(seq)
    BY DEF Shell!Next, Shell!vars, Shell!Reparse, Shell!SetViewMode,
           Shell!ToggleViewMode,
           Shell!Seek, Shell!CurrentAnimationFrame, Shell!FoldSubchart,
           Shell!SetCubeDifferentialMode, Shell!ComposeBarcodeTemplates,
           Shell!SetBarcodeCompositionMode
  <2>3. QED  BY <2>1, <2>2, DropKeeps, ConnectKeeps, CommitKeeps DEF ShellInv
<1>4. QED  BY <1>1, <1>2, <1>3 DEF ShellInv

\* A scene that is told of as it was proposed is what was proposed.
LEMMA PlacedIsProposed ==
  ASSUME ShellInv  PROVE Shell!SceneIsProposed
<1> DEFINE added == Shell!Proposals("ADD_COMPONENT")
           related == Shell!Proposals("CREATE_RELATION")
<1>1. PICK S : editLog \in Seq(S)  BY DEF ShellInv, ShellLists
<1>2. added \in Seq(S) /\ related \in Seq(S)  BY <1>1, ProposalsTyped
<1>3. PICK C : placed.components \in Seq(C)  BY DEF ShellInv, ShellLists
<1>4. PICK R : placed.relations \in Seq(R)  BY DEF ShellInv, ShellLists
<1>5. Placed  BY DEF ShellInv
<1>6. /\ DOMAIN added = DOMAIN placed.components
      /\ \A i \in DOMAIN placed.components :
           <<added[i].key[2], added[i].text>> =
             <<placed.components[i].path,
               Shell!ProposedProperty(placed.components[i])>>
  <2> HIDE DEF added
  <2>1. DOMAIN added = 1 .. Len(added)
        /\ DOMAIN placed.components = 1 .. Len(placed.components)
    BY <1>2, <1>3
  <2>2. QED  BY <1>5, <2>1 DEF Placed, added
<1>7. /\ DOMAIN related = DOMAIN placed.relations
      /\ \A i \in DOMAIN placed.relations :
           <<related[i].key[2], related[i].text>> =
             <<placed.relations[i].id,
               <<"relation", placed.relations[i].from,
                 placed.relations[i].to>>>>
  <2> HIDE DEF related
  <2>1. DOMAIN related = 1 .. Len(related)
        /\ DOMAIN placed.relations = 1 .. Len(placed.relations)
    BY <1>2, <1>4
  <2>2. QED  BY <1>5, <2>1 DEF Placed, related
<1>8. Shell!Proposed("ADD_COMPONENT") =
        [i \in DOMAIN added |-> <<added[i].key[2], added[i].text>>]
  BY DEF Shell!Proposed
<1>9. Shell!Proposed("CREATE_RELATION") =
        [i \in DOMAIN related |-> <<related[i].key[2], related[i].text>>]
  BY DEF Shell!Proposed
<1> HIDE DEF added, related
<1>10. QED  BY <1>6, <1>7, <1>8, <1>9 DEF Shell!SceneIsProposed

\* A shell does not come apart: document, triangulation and stream are of one
\* source although a reparse throws in the middle, the switcher is ahead of the
\* shell only to show the animation, and the scene is what was proposed
\* (reparse, currentAnimationFrame, dropTemplate, connectComponents).
THEOREM ShellAgreement == Shell!Spec => []Shell!ShellAgrees
<1>1. ShellInv => Shell!ShellAgrees
  BY PlacedIsProposed DEF ShellInv, Shell!ShellAgrees
<1>2. QED  BY <1>1, ShellInit, ShellNext, PTL DEF Shell!Spec

\* A workbench is a shell, and whatever else it does.
LEMMA ShellSpec == Spec => Shell!Spec
<1>1. Init => Shell!Init  BY DEF Init
<1>2. [Next]_vars => [Shell!Next]_(Shell!vars)
  BY DEF Next, vars, shellVars, Shell!vars, Shell!parts, Shell!views
<1>3. QED  BY <1>1, <1>2, PTL DEF Spec, Shell!Spec

Views == {"lazy", "greedy", "static", "animated"}

\* The views are listed, and after each comes one of them.
LEMMA ViewFacts ==
  /\ Shell!Views = Views
  /\ \A how \in Views : Shell!NextView(how) \in Views
<1> DEFINE order == Shell!ViewOrder
<1>1. /\ DOMAIN order = 1 .. 4 /\ Len(order) = 4
      /\ order[1] = "lazy" /\ order[2] = "greedy" /\ order[3] = "static"
      /\ order[4] = "animated"
  BY DEF Shell!ViewOrder
<1> HIDE DEF order
<1>2. Shell!Views = {order[i] : i \in 1 .. 4}
  BY <1>1 DEF Shell!Views, Shell!Range, order
<1>3. {order[i] : i \in 1 .. 4} = Views  BY <1>1 DEF Views
<1>4. ASSUME NEW how \in Views  PROVE Shell!NextView(how) \in Views
  <2> DEFINE i == CHOOSE i \in DOMAIN order : order[i] = how
  <2>1. \E j \in DOMAIN order : order[j] = how  BY <1>1 DEF Views
  <2>2. i \in 1 .. 4  BY <1>1, <2>1
  <2>3. Shell!NextView(how) = order[(i % 4) + 1]
    BY <1>1 DEF Shell!NextView, order
  <2> HIDE DEF i
  <2>4. (i % 4) + 1 \in 1 .. 4  BY <2>2
  <2>5. QED  BY <1>3, <2>3, <2>4
<1>5. QED  BY <1>2, <1>3, <1>4

\* Types of the state of the shell.
LEMMA ShellTypes ==
  ASSUME FrameCount \in Nat \ {0}, MaxLog \in Nat
  PROVE  Shell!Spec => []Shell!TypeOK
<1> DEFINE Made == /\ {source, document} \subseteq Documents
                   /\ {triangulation.of, stream} \subseteq Documents \ Malformed
           Shown == /\ {viewMode, switcher, triangulation.view} \subseteq Views
                    /\ frame \in 0 .. FrameCount - 1
                    /\ {subchart, cube} \subseteq {"lazy", "greedy"}
           Composed == /\ composition = [of |-> composition.of,
                                         mode |-> composition.mode]
                       /\ composition.mode \in {"lazy", "greedy"}
           Logged == Len(editLog) <= MaxLog
<1>1. Shell!Init => Made /\ Shown /\ Composed /\ Logged
  BY DEF Shell!Init, Shell!TriangulateSource, Views
<1>2. ASSUME ShellInv, Made, Shown, [Shell!Next]_(Shell!vars)  PROVE Made'
  <2>1. ASSUME NEW next \in Documents, Shell!Reparse(next)  PROVE Made'
    BY <1>2, <2>1 DEF Shell!Reparse, Shell!TriangulateSource
  <2>2. CASE UNCHANGED Shell!parts  BY <1>2, <2>2 DEF Shell!parts
  <2>3. UNCHANGED Shell!parts \/ \E next \in Documents : Shell!Reparse(next)
    BY <1>2
       DEF Shell!Next, Shell!vars, Shell!SetViewMode, Shell!ToggleViewMode,
           Shell!Seek, Shell!CurrentAnimationFrame, Shell!FoldSubchart,
           Shell!SetCubeDifferentialMode, Shell!ComposeBarcodeTemplates,
           Shell!SetBarcodeCompositionMode, Shell!DropTemplate,
           Shell!ConnectComponents, Shell!Commit
  <2>4. QED  BY <2>1, <2>2, <2>3
<1>3. ASSUME Shown, [Shell!Next]_(Shell!vars)  PROVE Shown'
  <2>1. ASSUME NEW next \in Documents, Shell!Reparse(next)  PROVE Shown'
    BY <1>3, <2>1 DEF Shell!Reparse, Shell!TriangulateSource, Shell!views
  <2>2. ASSUME NEW name, Shell!SetViewMode(name)  PROVE Shown'
    BY <1>3, <2>2, ViewFacts DEF Shell!SetViewMode, Shell!parts
  <2>3. CASE Shell!ToggleViewMode
    <3>1. switcher' \in Views  BY <1>3, <2>3, ViewFacts DEF Shell!ToggleViewMode
    <3>2. QED  BY <1>3, <2>3, <3>1 DEF Shell!ToggleViewMode, Shell!parts
  <2>4. ASSUME NEW next \in {frame + 1, frame - 1, FrameCount}, Shell!Seek(next)
        PROVE  Shown'
    <3>1. next \in Int  BY <1>3, <2>4
    <3>2. next % FrameCount \in 0 .. FrameCount - 1  BY <3>1
    <3>3. QED  BY <1>3, <2>4, <3>2 DEF Shell!Seek, Shell!parts, Views
  <2>5. CASE Shell!CurrentAnimationFrame
    BY <1>3, <2>5 DEF Shell!CurrentAnimationFrame, Shell!parts, Views
  <2>6. ASSUME NEW folded \in {"lazy", "greedy"}, Shell!FoldSubchart(folded)
        PROVE  Shown'
    BY <1>3, <2>6 DEF Shell!FoldSubchart, Shell!parts, Views
  <2>7. ASSUME NEW name, Shell!SetCubeDifferentialMode(name)  PROVE Shown'
    BY <1>3, <2>7
       DEF Shell!SetCubeDifferentialMode, Shell!CubeMode, Shell!parts
  <2>8. CASE UNCHANGED <<Shell!parts, Shell!views>>
    BY <1>3, <2>8 DEF Shell!parts, Shell!views
  <2>9. \/ \E next \in Documents : Shell!Reparse(next)
        \/ \E name : Shell!SetViewMode(name)
        \/ Shell!ToggleViewMode
        \/ \E next \in {frame + 1, frame - 1, FrameCount} : Shell!Seek(next)
        \/ Shell!CurrentAnimationFrame
        \/ \E folded \in {"lazy", "greedy"} : Shell!FoldSubchart(folded)
        \/ \E name : Shell!SetCubeDifferentialMode(name)
        \/ UNCHANGED <<Shell!parts, Shell!views>>
    BY <1>3
       DEF Shell!Next, Shell!vars, Shell!ComposeBarcodeTemplates,
           Shell!SetBarcodeCompositionMode, Shell!DropTemplate,
           Shell!ConnectComponents, Shell!Commit
  <2>10. QED  BY <2>1, <2>2, <2>3, <2>4, <2>5, <2>6, <2>7, <2>8, <2>9
<1>4. ASSUME Composed, [Shell!Next]_(Shell!vars)  PROVE Composed'
  <2>1. ASSUME NEW name \in {"lazy", "greedy"},
               Shell!ComposeBarcodeTemplates(name)
        PROVE  Composed'
    BY <1>4, <2>1 DEF Shell!ComposeBarcodeTemplates
  <2>2. ASSUME NEW name, Shell!SetBarcodeCompositionMode(name)  PROVE Composed'
    BY <1>4, <2>2 DEF Shell!SetBarcodeCompositionMode
  <2>3. CASE UNCHANGED composition  BY <1>4, <2>3
  <2>4. \/ \E name \in {"lazy", "greedy"} : Shell!ComposeBarcodeTemplates(name)
        \/ \E name : Shell!SetBarcodeCompositionMode(name)
        \/ UNCHANGED composition
    BY <1>4
       DEF Shell!Next, Shell!vars, Shell!Reparse, Shell!SetViewMode,
           Shell!ToggleViewMode, Shell!Seek, Shell!CurrentAnimationFrame,
           Shell!FoldSubchart, Shell!SetCubeDifferentialMode,
           Shell!DropTemplate, Shell!ConnectComponents, Shell!Commit
  <2>5. QED  BY <2>1, <2>2, <2>3, <2>4
<1>5. ASSUME ShellInv, Logged, [Shell!Next]_(Shell!vars)  PROVE Logged'
  <2>1. PICK S : editLog \in Seq(S)  BY <1>5 DEF ShellInv, ShellLists
  <2>2. \/ editLog' = editLog
        \/ Len(editLog) < MaxLog /\ \E e : editLog' = Append(editLog, e)
    <3>1. ASSUME NEW t, NEW proposed, Shell!DropTemplate(t, proposed)
          PROVE  Len(editLog) < MaxLog /\ \E e : editLog' = Append(editLog, e)
      BY <3>1, ProposalFacts DEF Shell!DropTemplate
    <3>2. ASSUME NEW from, NEW to, Shell!ConnectComponents(from, to)
          PROVE  Len(editLog) < MaxLog /\ \E e : editLog' = Append(editLog, e)
      BY <3>2, ProposalFacts DEF Shell!ConnectComponents
    <3>3. ASSUME NEW seq, Shell!Commit(seq)
          PROVE  \/ editLog' = editLog
                 \/ /\ Len(editLog) < MaxLog
                    /\ \E e : editLog' = Append(editLog, e)
      BY <3>3, CommitFacts DEF Shell!Commit
    <3>4. \/ UNCHANGED editLog
          \/ \E t, proposed : Shell!DropTemplate(t, proposed)
          \/ \E from, to : Shell!ConnectComponents(from, to)
          \/ \E seq : Shell!Commit(seq)
      BY <1>5
         DEF Shell!Next, Shell!vars, Shell!Reparse, Shell!SetViewMode,
             Shell!ToggleViewMode, Shell!Seek, Shell!CurrentAnimationFrame,
             Shell!FoldSubchart, Shell!SetCubeDifferentialMode,
             Shell!ComposeBarcodeTemplates, Shell!SetBarcodeCompositionMode
    <3>5. QED  BY <3>1, <3>2, <3>3, <3>4
  <2>3. \A e : /\ Len(Append(editLog, e)) = Len(editLog) + 1
               /\ Len(editLog) \in Nat
    BY <2>1, ListAppended
  <2>4. QED  BY <1>5, <2>2, <2>3
<1>6. Made /\ Shown /\ Composed /\ Logged => Shell!TypeOK
  BY ViewFacts DEF Shell!TypeOK
<1> HIDE DEF Made, Shown, Composed, Logged
<1>7. QED
  BY <1>1, <1>2, <1>3, <1>4, <1>5, <1>6, ShellInit, ShellNext, PTL
     DEF Shell!Spec

-----------------------------------------------------------------------------
(* The graphics backends. *)

\* The folds that make a stream of blocks and find the metadata of a plan,
\* and the comparison that keeps what is picked of a stream in its order.
Building == INSTANCE FoldTheorems
  WITH Step <- LAMBDA how, built, block :
                 built \o Graphics!BlockCommands(block, how)
Ascending == INSTANCE FoldTheorems WITH Step <- LAMBDA context, i, j : i < j
Naming == INSTANCE FoldTheorems
  WITH Step <- LAMBDA context, m, c :
                 IF c.path # None /\ m.path = NoPath
                 THEN [path |-> c.path, witness |-> c.witness] ELSE m

\* What is drawn, and the commands there may be.
Named == Paths \cup {NoPath, "p", "q"}
Commands == {Graphics!Command(kind, path, how) :
               kind \in Graphics!Kinds, path \in Named \cup {None},
               how \in Graphics!Modes}

\* The topology a backend gives what it draws.
Topology(b, how) ==
  CASE b = "webgl"  -> [k \in Graphics!DrawKinds |-> Graphics!TopologyFor(how, k)]
    [] b = "gles"   -> [k \in Graphics!DrawKinds |->
                          Graphics!PrimitiveModeFor(how, k)]
    [] b = "opengl" -> [k \in Graphics!DrawKinds |->
                          Graphics!GLPrimitiveModeFor(how, k)]

\* A plan is what its backend makes of the stream it has the receipt of.
PlanOf(b, p) ==
  LET draws == Graphics!Collected(p.receipt, Graphics!DrawKinds)
  IN  /\ p.mode \in Graphics!Modes
      /\ p.receipt \in Seq(Commands) /\ p.receipt # <<>>
      /\ Graphics!Last(p.receipt).kind = "END_SCENE"
      /\ p.metadata = Graphics!PlanMetadata(p.receipt)
      /\ p.buffers = Graphics!Collected(p.receipt,
                       {"DEFINE_VERTEX_BUFFER", "DEFINE_INDEX_BUFFER"})
      /\ p.materials = Graphics!Collected(p.receipt, {"DEFINE_MATERIAL"})
      /\ p.draws = [i \in DOMAIN draws |->
                      [command  |-> draws[i],
                       topology |-> Topology(b, p.mode)[draws[i].kind]]]
      /\ p.attachments = Graphics!Collected(p.receipt, {"ATTACH_OMI_METADATA"})

GraphicsInv ==
  /\ commands # None => /\ commands.mode \in Graphics!Modes
                        /\ commands.commands \in Seq(Commands)
  /\ plans = [b \in Graphics!Backends |-> plans[b]]
  /\ \A b \in Graphics!Backends : plans[b] # None => PlanOf(b, plans[b])

\* What a command is.
LEMMA IsCommand ==
  ASSUME NEW kind \in Graphics!Kinds, NEW path \in Named \cup {None},
         NEW how \in Graphics!Modes
  PROVE  Graphics!Command(kind, path, how) \in Commands
BY DEF Commands

\* A list of commands, one for each path.
LEMMA ListIsCommands ==
  ASSUME NEW items \in Seq(Named), NEW kind \in Graphics!Kinds,
         NEW how \in Graphics!Modes
  PROVE  [i \in DOMAIN items |-> Graphics!Command(kind, items[i], how)]
           \in Seq(Commands)
<1>1. \A i \in DOMAIN items : Graphics!Command(kind, items[i], how) \in Commands
  BY DEF Commands
<1>2. DOMAIN items = 1 .. Len(items) /\ Len(items) \in Nat  OBVIOUS
<1>3. QED  BY <1>1, <1>2

\* So are the commands of blocks.
LEMMA BlocksAreCommands ==
  ASSUME NEW items \in Seq(Named), NEW how \in Graphics!Modes
  PROVE  Graphics!BuildFromBlocks(items, how) \in Seq(Commands)
<1> DEFINE none == <<>>
<1>1. ASSUME NEW block \in Named
      PROVE  Graphics!BlockCommands(block, how) \in Seq(Commands)
  <2>1. /\ DOMAIN Graphics!BlockKinds = 1 .. 6
        /\ \A k \in 1 .. 6 : Graphics!BlockKinds[k] \in Graphics!Kinds
    BY DEF Graphics!BlockKinds, Graphics!Kinds, Graphics!Range
  <2>2. \A k \in 1 .. 6 :
          Graphics!Command(Graphics!BlockKinds[k], block, how) \in Commands
    BY <2>1, IsCommand
  <2>3. QED  BY <2>1, <2>2 DEF Graphics!BlockCommands
<1>2. none \in Seq(Commands)
      /\ \A s \in Seq(Commands), block \in Named :
           s \o Graphics!BlockCommands(block, how) \in Seq(Commands)
  BY <1>1
<1> HIDE DEF none
<1>3. Building!Fold(how, none, items) \in Seq(Commands)
  BY <1>2, Building!FoldKeeps
<1>4. Graphics!BuildFromBlocks(items, how) = Building!Fold(how, none, items)
  BY DEF Graphics!BuildFromBlocks, Building!Fold, none, Graphics!FoldLeft,
         Graphics!MapThenFoldSet, Graphics!Max, Building!FoldLeft,
         Building!MapThenFoldSet, Building!Max
<1>5. QED  BY <1>3, <1>4

\* A scene around commands is a list of commands.
LEMMA SceneIsCommands ==
  ASSUME NEW list \in Seq(Commands), NEW how \in Graphics!Modes
  PROVE  Graphics!Scene(list, how) \in Seq(Commands)
<1> DEFINE first == Graphics!Command("BEGIN_SCENE", None, how)
           last == Graphics!Command("END_SCENE", None, how)
<1>1. first \in Commands /\ last \in Commands
  <2>1. "BEGIN_SCENE" \in Graphics!Kinds /\ "END_SCENE" \in Graphics!Kinds
    BY DEF Graphics!Kinds
  <2>2. None \in Named \cup {None}  OBVIOUS
  <2>3. QED  BY <2>1, <2>2, IsCommand, Zenon
<1> HIDE DEF first, last
<1>2. <<first>> \o list \o <<last>> \in Seq(Commands)  BY <1>1
<1>3. QED  BY <1>2 DEF Graphics!Scene, first, last

\* Places that are sorted are listed as they ascend.
LEMMA AscendingLists ==
  ASSUME NEW n \in Nat, NEW S \in SUBSET (1 .. n)
  PROVE  Ascending!Lists(Graphics!Sorted(S, <), Ascending!Pairs({}, S), S)
<1>1. IsFiniteSet(S)
  <2>1. IsFiniteSet(1 .. n)  BY FS_Interval
  <2>2. QED  BY <2>1, FS_Subset
<1>2. Ascending!Orders(Ascending!Pairs({}, S), S)
  BY DEF Ascending!Orders, Ascending!Pairs
<1>3. Ascending!Lists(Ascending!Sorted(S, LAMBDA i, j : i < j),
                      Ascending!Pairs({}, S), S)
  BY <1>1, <1>2, Ascending!SortLists DEF Ascending!IsFiniteSet, IsFiniteSet
<1>4. Ascending!Sorted(S, LAMBDA i, j : i < j) = Graphics!Sorted(S, <)
  BY DEF Ascending!Sorted, Graphics!Sorted, Ascending!Cardinality,
         Graphics!Cardinality
<1>5. QED  BY <1>3, <1>4

\* Collecting commands picks some of them, of the kinds that are meant.
LEMMA CollectedFacts ==
  ASSUME NEW list \in Seq(Commands), NEW kinds
  PROVE  Graphics!Collected(list, kinds) \in Seq({c \in Commands : c.kind \in kinds})
<1> DEFINE places == {i \in DOMAIN list : list[i].kind \in kinds}
           sorted == Graphics!Sorted(places, <)
<1>1. /\ DOMAIN list = 1 .. Len(list) /\ Len(list) \in Nat
      /\ places \in SUBSET (1 .. Len(list))
      /\ \A i \in places : list[i] \in {c \in Commands : c.kind \in kinds}
  OBVIOUS
<1> HIDE DEF places
<1>2. Ascending!Lists(sorted, Ascending!Pairs({}, places), places)
  BY <1>1, AscendingLists
<1>3. sorted \in Seq(places)  BY <1>2 DEF Ascending!Lists
<1> HIDE DEF sorted
<1>4. [n \in DOMAIN sorted |-> list[sorted[n]]]
        \in Seq({c \in Commands : c.kind \in kinds})
  <2>1. DOMAIN sorted = 1 .. Len(sorted) /\ Len(sorted) \in Nat  BY <1>3
  <2>2. \A n \in DOMAIN sorted : sorted[n] \in places  BY <1>3
  <2>3. \A n \in DOMAIN sorted :
          list[sorted[n]] \in {c \in Commands : c.kind \in kinds}
    BY <1>1, <2>2
  <2>4. QED  BY <2>1, <2>3
<1>5. QED  BY <1>4 DEF Graphics!Collected, sorted, places

\* The least of a set of numbers.
LEMMA LeastIs ==
  ASSUME NEW S \in SUBSET Nat, S # {}
  PROVE  /\ Graphics!Min(S) \in S
         /\ \A x \in S : Graphics!Min(S) <= x
         /\ \A m \in S : (\A x \in S : m <= x) => Graphics!Min(S) = m
<1>1. PICK m \in S : \A x \in S : m <= x  BY Naming!LeastNat
<1>2. Graphics!Min(S) \in S /\ \A x \in S : Graphics!Min(S) <= x
  BY <1>1 DEF Graphics!Min
<1>3. ASSUME NEW n \in S, \A x \in S : n <= x  PROVE Graphics!Min(S) = n
  <2>1. Graphics!Min(S) <= n /\ n <= Graphics!Min(S)  BY <1>2, <1>3
  <2>2. Graphics!Min(S) \in Nat /\ n \in Nat  BY <1>2
  <2>3. QED  BY <2>1, <2>2
<1>4. QED  BY <1>2, <1>3

\* Where the commands of a list are that name something.
NamedIn(list) == {i \in DOMAIN list : list[i].path \notin {None, NoPath}}

\* The metadata of a plan are of the first command that names something.
LEMMA MetadataFacts ==
  ASSUME NEW list \in Seq(Commands)
  PROVE  /\ NamedIn(list) = {} => Graphics!PlanMetadata(list).path = NoPath
         /\ NamedIn(list) # {} =>
              Graphics!PlanMetadata(list).path
                = list[Graphics!Min(NamedIn(list))].path
         /\ Graphics!PlanMetadata(list).path \in Named
<1> DEFINE base == [path |-> NoPath, witness |-> list[1].witness]
           F(l) == Naming!Fold({}, base, l)
           T == {l \in Seq(Commands) :
                   /\ NamedIn(l) = {} => F(l).path = NoPath
                   /\ NamedIn(l) # {} =>
                        F(l).path = l[Graphics!Min(NamedIn(l))].path}
           none == <<>>
<1>1. base.path = NoPath  OBVIOUS
<1> HIDE DEF base
<1>2. none \in T
  <2>1. NamedIn(none) = {} /\ none \in Seq(Commands)  BY DEF NamedIn
  <2>2. F(none) = base  BY Naming!FoldEmpty
  <2> HIDE DEF none, F
  <2>3. QED  BY <1>1, <2>1, <2>2
<1>3. ASSUME NEW l \in Seq(Commands), l \in T, NEW c \in Commands
      PROVE  Append(l, c) \in T
  <2> DEFINE longer == Append(l, c)
             n == Len(l) + 1
  <2>1. /\ longer \in Seq(Commands) /\ longer[n] = c
        /\ DOMAIN longer = DOMAIN l \cup {n}
        /\ \A i \in DOMAIN l : longer[i] = l[i] /\ i \in Nat /\ i < n
        /\ n \in Nat
    OBVIOUS
  <2>2. F(longer) = IF c.path # None /\ F(l).path = NoPath
                    THEN [path |-> c.path, witness |-> c.witness] ELSE F(l)
    BY Naming!FoldAppend
  <2>3. /\ NamedIn(l) = {} => F(l).path = NoPath
        /\ NamedIn(l) # {} => F(l).path = l[Graphics!Min(NamedIn(l))].path
    BY <1>3
  <2>4. c.path # None /\ F(l).path = NoPath => F(longer).path = c.path  BY <2>2
  <2>5. c.path = None \/ F(l).path # NoPath => F(longer) = F(l)  BY <2>2
  <2> HIDE DEF longer, F, n
  <2>6. NamedIn(longer)
          = NamedIn(l) \cup {i \in {n} : c.path \notin {None, NoPath}}
    BY <2>1 DEF NamedIn
  <2>7. NamedIn(l) \in SUBSET Nat /\ NamedIn(longer) \in SUBSET Nat
    BY <2>1 DEF NamedIn
  <2>8. CASE NamedIn(l) = {}
    <3>1. CASE c.path \in {None, NoPath}
      <4>1. NamedIn(longer) = {}  BY <2>6, <2>8, <3>1
      <4>2. F(longer).path = NoPath  BY <2>3, <2>4, <2>5, <2>8, <3>1
      <4>3. QED  BY <2>1, <4>1, <4>2 DEF longer
    <3>2. CASE c.path \notin {None, NoPath}
      <4>1. NamedIn(longer) = {n}  BY <2>6, <2>8, <3>2
      <4>2. Graphics!Min(NamedIn(longer)) = n  BY <2>1, <2>7, <4>1, LeastIs
      <4>3. F(longer).path = c.path  BY <2>3, <2>4, <2>8, <3>2
      <4>4. QED  BY <2>1, <4>1, <4>2, <4>3 DEF longer
    <3>3. QED  BY <3>1, <3>2
  <2>9. CASE NamedIn(l) # {}
    <3> DEFINE m == Graphics!Min(NamedIn(l))
    <3>1. m \in NamedIn(l) /\ \A x \in NamedIn(l) : m <= x
      BY <2>7, <2>9, LeastIs
    <3> HIDE DEF m
    <3>2. m \in DOMAIN l /\ m < n /\ l[m].path \notin {None, NoPath}
          /\ longer[m] = l[m] /\ m \in Nat
      BY <2>1, <3>1 DEF NamedIn
    <3>3. F(longer) = F(l)  BY <2>3, <2>5, <2>9, <3>2 DEF m
    <3>4. m \in NamedIn(longer) /\ \A x \in NamedIn(longer) : m <= x
      BY <2>1, <2>6, <3>1, <3>2
    <3>5. Graphics!Min(NamedIn(longer)) = m  BY <2>7, <3>4, LeastIs
    <3>6. QED  BY <2>1, <2>3, <2>9, <3>2, <3>3, <3>4, <3>5 DEF m, longer
  <2>10. QED  BY <2>8, <2>9
<1>4. Seq(Commands) \subseteq T
  <2> HIDE DEF T, none
  <2>1. QED  BY <1>2, <1>3, Naming!SequencesGrow DEF none
<1>5. F(list) = Graphics!PlanMetadata(list)
  BY DEF Graphics!PlanMetadata, base, Naming!Fold, Graphics!FoldLeft,
         Graphics!MapThenFoldSet, Graphics!Max, Naming!FoldLeft,
         Naming!MapThenFoldSet, Naming!Max
<1>6. /\ NamedIn(list) = {} => F(list).path = NoPath
      /\ NamedIn(list) # {} =>
           F(list).path = list[Graphics!Min(NamedIn(list))].path
  BY <1>4
<1> HIDE DEF F
<1>7. NamedIn(list) # {} => list[Graphics!Min(NamedIn(list))].path \in Named
  <2>1. SUFFICES ASSUME NamedIn(list) # {}
                 PROVE  list[Graphics!Min(NamedIn(list))].path \in Named
    OBVIOUS
  <2>2. NamedIn(list) \in SUBSET Nat  BY DEF NamedIn
  <2>3. PICK i \in NamedIn(list) : i = Graphics!Min(NamedIn(list))
    BY <2>1, <2>2, LeastIs
  <2>4. list[i] \in Commands /\ list[i].path # None  BY <2>3 DEF NamedIn
  <2>5. list[i].path \in Named  BY <2>4 DEF Commands, Graphics!Command
  <2>6. QED  BY <2>3, <2>5
<1>8. NoPath \in Named  BY DEF Named
<1>9. QED  BY <1>5, <1>6, <1>7, <1>8

\* Whatever is made is a stream of commands.
LEMMA MadeFacts ==
  ASSUME NEW how \in Graphics!Modes, NEW items \in Drawn,
         Graphics!Project(how, items) \/ Graphics!OtherStream(how, items)
  PROVE  /\ commands'.mode \in Graphics!Modes
         /\ commands'.commands \in Seq(Commands)
         /\ plans' = plans
<1>1. items \in Seq(Named)
  <2>1. {NoPath, "p", "q"} \subseteq Named  BY DEF Named
  <2>2. items = <<>> \/ items = <<NoPath, "p">> \/ items = <<"p", "q">>
    BY DEF Drawn
  <2>3. CASE items = <<>>  BY <2>3
  <2>4. CASE items = <<NoPath, "p">>  BY <2>1, <2>4
  <2>5. CASE items = <<"p", "q">>  BY <2>1, <2>5
  <2>6. QED  BY <2>2, <2>3, <2>4, <2>5
<1>2. CASE Graphics!Project(how, items)
  <2> DEFINE given == [blocks |-> items, edges |-> items, templates |-> items]
             list == CASE how = "scope-graph-3d" ->
                            Graphics!BuildScopeCommands(items, how)
                       [] how = "barcode-template-scene" ->
                            Graphics!BuildBarcodeCommands(items, how)
                       [] OTHER -> Graphics!BuildFromBlocks(items, how)
  <2>1. list \in Seq(Commands)
    <3>1. Graphics!BuildScopeCommands(items, how) \in Seq(Commands)
      <4>1. "DRAW_SCOPE_EDGE" \in Graphics!Kinds  BY DEF Graphics!Kinds
      <4>2. QED  BY <1>1, <4>1, ListIsCommands DEF Graphics!BuildScopeCommands
    <3>2. Graphics!BuildBarcodeCommands(items, how) \in Seq(Commands)
      <4>1. "ATTACH_OMI_METADATA" \in Graphics!Kinds
        <5>1. 6 \in DOMAIN Graphics!BlockKinds
              /\ Graphics!BlockKinds[6] = "ATTACH_OMI_METADATA"
          BY DEF Graphics!BlockKinds
        <5>2. QED  BY <5>1 DEF Graphics!Kinds, Graphics!Range
      <4>2. QED  BY <1>1, <4>1, ListIsCommands DEF Graphics!BuildBarcodeCommands
    <3>3. Graphics!BuildFromBlocks(items, how) \in Seq(Commands)
      BY <1>1, BlocksAreCommands
    <3>4. QED  BY <3>1, <3>2, <3>3
  <2>2. Graphics!Projected(how, given)
          = [mode |-> how, commands |-> Graphics!Scene(list, how)]
    BY DEF Graphics!Projected
  <2> HIDE DEF list
  <2>3. commands' = [mode |-> how, commands |-> Graphics!Scene(list, how)]
        /\ plans' = plans
    BY <1>2, <2>2 DEF Graphics!Project, Graphics!Make
  <2>4. Graphics!Scene(list, how) \in Seq(Commands)  BY <2>1, SceneIsCommands
  <2>5. QED  BY <2>3, <2>4
<1>3. CASE Graphics!OtherStream(how, items)
  <2> DEFINE closures == Graphics!Scene(
                           Graphics!BuildClosureCommands(items, how), how)
             blocks == Graphics!Scene(Graphics!BuildFromBlocks(items, how), how)
  <2>1. closures \in Seq(Commands)
    <3>1. "DRAW_CLOSURE_EDGE" \in Graphics!Kinds  BY DEF Graphics!Kinds
    <3>2. Graphics!BuildClosureCommands(items, how) \in Seq(Commands)
      BY <1>1, <3>1, ListIsCommands DEF Graphics!BuildClosureCommands
    <3>3. QED  BY <3>2, SceneIsCommands
  <2>2. blocks \in Seq(Commands)  BY <1>1, BlocksAreCommands, SceneIsCommands
  <2>3. Graphics!Front(blocks) \in Seq(Commands)
    <3> HIDE DEF blocks
    <3>1. QED  BY <2>2 DEF Graphics!Front
  <2>4. /\ \/ commands' = [mode |-> how, commands |-> closures]
           \/ commands' = [mode |-> how, commands |-> Graphics!Front(blocks)]
        /\ plans' = plans
    BY <1>3 DEF Graphics!OtherStream, Graphics!Make
  <2> HIDE DEF closures, blocks
  <2>5. QED  BY <2>1, <2>3, <2>4
<1>4. QED  BY <1>2, <1>3

\* A plan is what its backend makes of the stream.
LEMMA AdaptedFacts ==
  ASSUME GraphicsInv, commands # None, NEW b \in Graphics!Backends, NEW how,
         Graphics!Adapt(b, how)
  PROVE  \E p : /\ PlanOf(b, p)
                /\ plans' = [plans EXCEPT ![b] = p]
                /\ commands' = commands
<1> DEFINE list == commands.commands
           draws == Graphics!Collected(list, Graphics!DrawKinds)
           p == [mode        |-> how,
                 receipt     |-> list,
                 metadata    |-> Graphics!PlanMetadata(list),
                 buffers     |-> Graphics!Collected(list,
                   {"DEFINE_VERTEX_BUFFER", "DEFINE_INDEX_BUFFER"}),
                 materials   |-> Graphics!Collected(list, {"DEFINE_MATERIAL"}),
                 draws       |-> [i \in DOMAIN draws |->
                   [command  |-> draws[i],
                    topology |-> Topology(b, how)[draws[i].kind]]],
                 attachments |-> Graphics!Collected(list,
                   {"ATTACH_OMI_METADATA"})]
           adapted == Graphics!AdaptWith(Topology(b, how), commands, how)
<1>1. /\ plans' = [plans EXCEPT ![b] = adapted] /\ adapted # None
      /\ commands' = commands
  <2>1. b \in {"webgl", "gles", "opengl"}  BY DEF Graphics!Backends
  <2>2. adapted = CASE b = "webgl"  -> Graphics!AdaptWebGL(commands, how)
                    [] b = "gles"   -> Graphics!AdaptGLES(commands, how)
                    [] b = "opengl" -> Graphics!AdaptOpenGL(commands, how)
    <3>1. CASE b = "webgl"  BY <3>1 DEF Topology, Graphics!AdaptWebGL
    <3>2. CASE b = "gles"  BY <3>2 DEF Topology, Graphics!AdaptGLES
    <3>3. CASE b = "opengl"  BY <3>3 DEF Topology, Graphics!AdaptOpenGL
    <3>4. QED  BY <2>1, <3>1, <3>2, <3>3
  <2> HIDE DEF adapted
  <2>3. QED  BY <2>2 DEF Graphics!Adapt
<1>2. Graphics!ValidateStream(commands, how) /\ adapted = p
  BY <1>1 DEF Graphics!AdaptWith, Graphics!CommandReceipt
<1>3. /\ how \in Graphics!Modes /\ list # <<>> /\ list \in Seq(Commands)
      /\ Graphics!Last(list).kind = "END_SCENE"
  BY <1>2 DEF Graphics!ValidateStream, GraphicsInv
<1>4. /\ p.mode = how /\ p.receipt = list
      /\ p.metadata = Graphics!PlanMetadata(list)
      /\ p.buffers = Graphics!Collected(list,
                       {"DEFINE_VERTEX_BUFFER", "DEFINE_INDEX_BUFFER"})
      /\ p.materials = Graphics!Collected(list, {"DEFINE_MATERIAL"})
      /\ p.draws = [i \in DOMAIN draws |->
                      [command  |-> draws[i],
                       topology |-> Topology(b, how)[draws[i].kind]]]
      /\ p.attachments = Graphics!Collected(list, {"ATTACH_OMI_METADATA"})
  OBVIOUS
<1> HIDE DEF p, adapted, list
<1>5. PlanOf(b, p)  BY <1>3, <1>4 DEF PlanOf
<1>6. QED  BY <1>1, <1>2, <1>5

\* The invariant of the graphics backends: whatever streams are made, a plan
\* is the one its backend makes of a whole stream.
THEOREM GraphicsInvariance == Graphics!Spec => []GraphicsInv
<1>1. Graphics!Init => GraphicsInv
  BY DEF Graphics!Init, GraphicsInv
<1>2. GraphicsInv /\ [Graphics!Next]_(Graphics!vars) => GraphicsInv'
  <2> SUFFICES ASSUME GraphicsInv, [Graphics!Next]_(Graphics!vars)
               PROVE  GraphicsInv'
    OBVIOUS
  <2>1. CASE \E how \in Graphics!Modes, items \in Drawn :
               Graphics!Project(how, items) \/ Graphics!OtherStream(how, items)
    <3>1. /\ commands'.mode \in Graphics!Modes
          /\ commands'.commands \in Seq(Commands)
          /\ plans' = plans
      BY <2>1, MadeFacts
    <3>2. QED  BY <3>1 DEF GraphicsInv
  <2>2. CASE commands # None /\ \E b \in Graphics!Backends : \E how :
               Graphics!Adapt(b, how)
    <3>1. PICK b \in Graphics!Backends : \E how : Graphics!Adapt(b, how)
      BY <2>2
    <3>2. PICK p : /\ PlanOf(b, p) /\ plans' = [plans EXCEPT ![b] = p]
                   /\ commands' = commands
      BY <2>2, <3>1, AdaptedFacts
    <3>3. /\ plans' = [c \in Graphics!Backends |-> plans'[c]]
          /\ plans'[b] = p
          /\ \A c \in Graphics!Backends : c # b => plans'[c] = plans[c]
      BY <3>2 DEF GraphicsInv
    <3>4. QED  BY <3>2, <3>3 DEF GraphicsInv
  <2>3. CASE UNCHANGED Graphics!vars
    BY <2>3 DEF Graphics!vars, GraphicsInv
  <2>4. QED  BY <2>1, <2>2, <2>3 DEF Graphics!Next
<1>3. QED  BY <1>1, <1>2, PTL DEF Graphics!Spec

\* What the backends draw is known by the same name, but for polyforms in the
\* mode of barcode templates.
LEMMA TopologiesAgree ==
  ASSUME NEW how \in Graphics!Modes, NEW kind \in Graphics!DrawKinds
  PROVE  /\ how # "barcode-template-scene" \/ kind # "DRAW_POLYFORM" =>
              \A b \in Graphics!Backends :
                Graphics!CanonicalPrimitive(Topology(b, how)[kind])
                  = Graphics!CanonicalPrimitive(Topology("webgl", how)[kind])
         /\ how = "barcode-template-scene" /\ kind = "DRAW_POLYFORM" =>
              Graphics!CanonicalPrimitive(Topology("gles", how)[kind])
                # Graphics!CanonicalPrimitive(Topology("webgl", how)[kind])
<1> DEFINE web == Graphics!TopologyFor(how, kind)
           gles == Graphics!PrimitiveModeFor(how, kind)
           open == Graphics!GLPrimitiveModeFor(how, kind)
           Name(t) == Graphics!CanonicalPrimitive(t)
<1>1. /\ Topology("webgl", how)[kind] = web
      /\ Topology("gles", how)[kind] = gles
      /\ Topology("opengl", how)[kind] = open
  BY DEF Topology
<1>2. /\ how \in {"polyform-2d", "polyform-2_5d", "polyform-3d",
                  "scope-graph-3d", "barcode-template-scene"}
      /\ kind \in {"DRAW_POLYFORM", "DRAW_CLOSURE_EDGE", "DRAW_SCOPE_EDGE"}
  BY DEF Graphics!Modes, Graphics!DrawKinds
<1> HIDE DEF Name
<1>3. CASE kind = "DRAW_SCOPE_EDGE"
  <2>1. web = "line-strip" /\ gles = "LINES" /\ open = "GL_LINES"
    BY <1>3 DEF Graphics!TopologyFor, Graphics!PrimitiveModeFor,
                Graphics!GLPrimitiveModeFor
  <2> HIDE DEF web, gles, open
  <2>2. Name(web) = "lines" /\ Name(gles) = "lines" /\ Name(open) = "lines"
    BY <2>1 DEF Name, Graphics!CanonicalPrimitive
  <2>3. QED  BY <1>1, <1>3, <2>2 DEF Graphics!Backends, Name
<1>4. CASE kind = "DRAW_CLOSURE_EDGE"
  <2>1. web = "line-list" /\ gles = "LINE_STRIP" /\ open = "GL_LINE_STRIP"
    BY <1>4 DEF Graphics!TopologyFor, Graphics!PrimitiveModeFor,
                Graphics!GLPrimitiveModeFor
  <2> HIDE DEF web, gles, open
  <2>2. Name(web) = "lines" /\ Name(gles) = "lines" /\ Name(open) = "lines"
    BY <2>1 DEF Name, Graphics!CanonicalPrimitive
  <2>3. QED  BY <1>1, <1>4, <2>2 DEF Graphics!Backends, Name
<1>5. CASE kind = "DRAW_POLYFORM"
  <2>1. \/ /\ how = "polyform-2d" /\ web = "triangle-fan"
           /\ gles = "TRIANGLE_FAN" /\ open = "GL_TRIANGLE_FAN"
        \/ /\ how = "polyform-2_5d" /\ web = "triangle-strip"
           /\ gles = "TRIANGLE_STRIP" /\ open = "GL_TRIANGLE_STRIP"
        \/ /\ how = "polyform-3d" /\ web = "triangles"
           /\ gles = "TRIANGLES" /\ open = "GL_TRIANGLES"
        \/ /\ how = "scope-graph-3d" /\ web = "line-list"
           /\ gles = "LINES" /\ open = "GL_LINES"
        \/ /\ how = "barcode-template-scene" /\ web = "triangle-list"
           /\ gles = "TRIANGLES" /\ open = "GL_TRIANGLES"
    BY <1>2, <1>5 DEF Graphics!TopologyFor, Graphics!PrimitiveModeFor,
                      Graphics!GLPrimitiveModeFor
  <2> HIDE DEF web, gles, open
  <2>2. /\ how # "barcode-template-scene" =>
             Name(web) = Name(gles) /\ Name(web) = Name(open)
        /\ how = "barcode-template-scene" => Name(web) # Name(gles)
    BY <2>1 DEF Name, Graphics!CanonicalPrimitive
  <2>3. QED  BY <1>1, <1>5, <2>2 DEF Graphics!Backends, Name
<1>6. QED  BY <1>2, <1>3, <1>4, <1>5

\* The commands of a stream that draw, as a plan has them.
Draws(p) == Graphics!Collected(p.receipt, Graphics!DrawKinds)

\* The names of what a plan draws.
Drawing(p) ==
  [i \in DOMAIN p.draws |->
     <<Graphics!NormalizeRecord(p.draws[i].command),
       Graphics!CanonicalPrimitive(p.draws[i].topology)>>]

\* What is drawn of one stream.
LEMMA DrawingFacts ==
  ASSUME NEW b \in Graphics!Backends, NEW p, PlanOf(b, p)
  PROVE  /\ \A i \in DOMAIN Draws(p) : Draws(p)[i].kind \in Graphics!DrawKinds
         /\ DOMAIN p.draws = DOMAIN Draws(p)
         /\ \A i \in DOMAIN Draws(p) : p.draws[i].command = Draws(p)[i]
         /\ Drawing(p) = [i \in DOMAIN Draws(p) |->
              <<Graphics!NormalizeRecord(Draws(p)[i]),
                Graphics!CanonicalPrimitive(
                  Topology(b, p.mode)[Draws(p)[i].kind])>>]
<1> DEFINE draws == Draws(p)
<1>1. draws \in Seq({c \in Commands : c.kind \in Graphics!DrawKinds})
  BY CollectedFacts DEF PlanOf, Draws
<1>2. p.draws = [i \in DOMAIN draws |->
                   [command  |-> draws[i],
                    topology |-> Topology(b, p.mode)[draws[i].kind]]]
  BY DEF PlanOf, Draws
<1> HIDE DEF draws
<1>3. \A i \in DOMAIN draws : draws[i].kind \in Graphics!DrawKinds  BY <1>1
<1>4. /\ DOMAIN p.draws = DOMAIN draws
      /\ \A i \in DOMAIN draws :
           /\ p.draws[i].command = draws[i]
           /\ p.draws[i].topology = Topology(b, p.mode)[draws[i].kind]
  BY <1>2
<1>5. Drawing(p) = [i \in DOMAIN draws |->
         <<Graphics!NormalizeRecord(draws[i]),
           Graphics!CanonicalPrimitive(Topology(b, p.mode)[draws[i].kind])>>]
  BY <1>4 DEF Drawing
<1>6. QED  BY <1>3, <1>4, <1>5 DEF draws

\* Plans of one stream have the same key if they draw the same.
LEMMA KeyFacts ==
  ASSUME NEW b \in Graphics!Backends, NEW p, PlanOf(b, p),
         NEW c \in Graphics!Backends, NEW q, PlanOf(c, q)
  PROVE  /\ Graphics!EquivalenceKey(p) = Graphics!EquivalenceKey(q) =>
              /\ p.receipt = q.receipt /\ p.mode = q.mode
              /\ Drawing(p) = Drawing(q)
         /\ p.receipt = q.receipt /\ p.mode = q.mode /\ Drawing(p) = Drawing(q)
              => Graphics!EquivalenceKey(p) = Graphics!EquivalenceKey(q)
<1>1. \A r : Graphics!EquivalenceKey(r) =
               <<r.mode, r.receipt, r.metadata,
                 Graphics!NormalizeRecords(r.buffers),
                 Graphics!NormalizeRecords(r.materials), Drawing(r),
                 Graphics!NormalizeRecords(r.attachments)>>
  BY DEF Graphics!EquivalenceKey, Drawing
<1>2. ASSUME p.receipt = q.receipt
      PROVE  /\ p.metadata = q.metadata /\ p.buffers = q.buffers
             /\ p.materials = q.materials /\ p.attachments = q.attachments
  BY <1>2 DEF PlanOf
<1>3. QED  BY <1>1, <1>2

\* Plans are told to be the same when they are of one stream and one mode.
LEMMA OneStreamIsSame == GraphicsInv => Graphics!SameIsOneStream
<1> SUFFICES ASSUME GraphicsInv, Graphics!Complete
             PROVE  Graphics!SameIsOneStream
  BY DEF Graphics!SameIsOneStream
<1> DEFINE web == plans["webgl"]
           draws == Draws(web)
           one == \A b \in Graphics!Backends : /\ plans[b].receipt = web.receipt
                                               /\ plans[b].mode = web.mode
           astray == /\ web.mode = "barcode-template-scene"
                     /\ \E i \in DOMAIN web.draws :
                          web.draws[i].command.kind = "DRAW_POLYFORM"
<1>1. /\ "webgl" \in Graphics!Backends /\ "gles" \in Graphics!Backends
      /\ \A b \in Graphics!Backends : PlanOf(b, plans[b])
  BY DEF GraphicsInv, Graphics!Complete, Graphics!Backends
<1>2. /\ \A i \in DOMAIN draws : draws[i].kind \in Graphics!DrawKinds
      /\ DOMAIN web.draws = DOMAIN draws
      /\ \A i \in DOMAIN draws : web.draws[i].command = draws[i]
  <2>1. PlanOf("webgl", web)  BY <1>1
  <2> HIDE DEF web
  <2>2. QED  BY <1>1, <2>1, DrawingFacts
<1>3. web.mode \in Graphics!Modes  BY <1>1 DEF PlanOf
<1>4. ASSUME NEW b \in Graphics!Backends, plans[b].receipt = web.receipt,
             plans[b].mode = web.mode
      PROVE  Drawing(plans[b]) =
               [i \in DOMAIN draws |->
                  <<Graphics!NormalizeRecord(draws[i]),
                    Graphics!CanonicalPrimitive(
                      Topology(b, web.mode)[draws[i].kind])>>]
  <2>1. PlanOf(b, plans[b])  BY <1>1
  <2>2. Draws(plans[b]) = draws  BY <1>4 DEF Draws
  <2>3. plans[b].mode = web.mode  BY <1>4
  <2> HIDE DEF draws, web
  <2>4. QED  BY <2>1, <2>2, <2>3, DrawingFacts
<1>5. Drawing(web) =
        [i \in DOMAIN draws |->
           <<Graphics!NormalizeRecord(draws[i]),
             Graphics!CanonicalPrimitive(
               Topology("webgl", web.mode)[draws[i].kind])>>]
  <2>1. PlanOf("webgl", web)  BY <1>1
  <2> HIDE DEF web
  <2>2. QED  BY <1>1, <2>1, DrawingFacts
<1> HIDE DEF draws
<1>6. ASSUME Graphics!Same  PROVE one /\ ~astray
  <2>1. \A b \in Graphics!Backends :
          /\ plans[b].receipt = web.receipt /\ plans[b].mode = web.mode
          /\ Drawing(plans[b]) = Drawing(web)
    BY <1>1, <1>6, KeyFacts DEF Graphics!Same
  <2>2. SUFFICES ASSUME web.mode = "barcode-template-scene",
                        NEW i \in DOMAIN draws, draws[i].kind = "DRAW_POLYFORM"
                 PROVE  FALSE
    BY <1>2, <2>1
  <2>3. Drawing(plans["gles"])[i]
          = <<Graphics!NormalizeRecord(draws[i]),
              Graphics!CanonicalPrimitive(
                Topology("gles", web.mode)[draws[i].kind])>>
    BY <1>1, <1>4, <2>1
  <2>4. Drawing(web)[i]
          = <<Graphics!NormalizeRecord(draws[i]),
              Graphics!CanonicalPrimitive(
                Topology("webgl", web.mode)[draws[i].kind])>>
    BY <1>5
  <2>5. Graphics!CanonicalPrimitive(Topology("gles", web.mode)[draws[i].kind])
          # Graphics!CanonicalPrimitive(
              Topology("webgl", web.mode)[draws[i].kind])
    BY <1>2, <1>3, <2>2, TopologiesAgree
  <2>6. QED  BY <1>1, <2>1, <2>3, <2>4, <2>5
<1>7. ASSUME one, ~astray  PROVE Graphics!Same
  <2>1. ASSUME NEW b \in Graphics!Backends
        PROVE  Drawing(plans[b]) = Drawing(web)
    <3>1. \A i \in DOMAIN draws :
            Graphics!CanonicalPrimitive(Topology(b, web.mode)[draws[i].kind])
              = Graphics!CanonicalPrimitive(
                  Topology("webgl", web.mode)[draws[i].kind])
      BY <1>2, <1>3, <1>7, TopologiesAgree
    <3>2. Drawing(plans[b]) =
            [i \in DOMAIN draws |->
               <<Graphics!NormalizeRecord(draws[i]),
                 Graphics!CanonicalPrimitive(
                   Topology(b, web.mode)[draws[i].kind])>>]
      BY <1>4, <1>7
    <3>3. QED  BY <1>5, <3>1, <3>2
  <2>2. QED  BY <1>1, <1>7, <2>1, KeyFacts DEF Graphics!Same
<1> HIDE DEF web, one, astray
<1>8. Graphics!Same <=> one /\ ~astray  BY <1>6, <1>7
<1>9. QED  BY <1>8 DEF Graphics!SameIsOneStream, one, astray, web

\* Whatever streams are made and whichever of them the backends are given,
\* plans are told apart exactly when they draw different things, and each says
\* of itself what it draws first.
THEOREM GraphicsAgreement == Graphics!Spec => []Graphics!PlansAgree
<1>1. GraphicsInv => Graphics!MetadataIsOfFirst
  <2> SUFFICES ASSUME GraphicsInv, NEW b \in Graphics!Backends, plans[b] # None
               PROVE  plans[b].metadata.path =
                        IF NamedIn(plans[b].receipt) = {} THEN NoPath
                        ELSE plans[b].receipt[
                               Graphics!Min(NamedIn(plans[b].receipt))].path
    BY DEF Graphics!MetadataIsOfFirst, NamedIn
  <2>1. PlanOf(b, plans[b])  BY DEF GraphicsInv
  <2>2. /\ plans[b].receipt \in Seq(Commands)
        /\ plans[b].metadata = Graphics!PlanMetadata(plans[b].receipt)
    BY <2>1 DEF PlanOf
  <2>3. QED  BY <2>2, MetadataFacts
<1>2. GraphicsInv => Graphics!PlansAgree
  BY <1>1, OneStreamIsSame DEF Graphics!PlansAgree
<1>3. QED  BY <1>2, GraphicsInvariance, PTL

\* In the workbench the steps of the other parts leave the backends alone.
LEMMA GraphicsSpec == Spec => Graphics!Spec
<1>1. Init => Graphics!Init  BY DEF Init
<1>2. [Next]_vars => [Graphics!Next]_(Graphics!vars)
  BY DEF Next, vars, graphicsVars, Graphics!vars
<1>3. QED  BY <1>1, <1>2, PTL DEF Spec, Graphics!Spec

\* Types of the streams and the plans.
LEMMA GraphicsTypes ==
  ASSUME {"p", "q"} \subseteq Paths
  PROVE  Graphics!Spec => []Graphics!TypeOK
<1>1. GraphicsInv => Graphics!TypeOK
  <2> SUFFICES ASSUME GraphicsInv, NEW b \in Graphics!Backends, plans[b] # None
               PROVE  /\ plans[b].mode \in Graphics!Modes
                      /\ plans[b].metadata.path \in Paths \cup {NoPath}
                      /\ Graphics!Last(plans[b].receipt).kind = "END_SCENE"
    BY DEF GraphicsInv, Graphics!TypeOK
  <2>1. PlanOf(b, plans[b])  BY DEF GraphicsInv
  <2>2. plans[b].metadata.path \in Named
    BY <2>1, MetadataFacts DEF PlanOf
  <2>3. QED  BY <2>1, <2>2 DEF PlanOf, Named
<1>2. QED  BY <1>1, GraphicsInvariance, PTL

-----------------------------------------------------------------------------
(* The workbench. *)

\* The bounds are numbers, there is a style, and what is drawn is a path.
BoundsAreNumbers ==
  /\ {MaxLog, MaxChunks, MaxBytes, MaxEdits, MaxTemplates, MaxRelations}
       \subseteq Nat
  /\ {FrameCount, MaxRegions, MaxRecords} \subseteq Nat \ {0}
  /\ Styles # {} /\ {"p", "q"} \subseteq Paths

\* Whatever part of the workbench is explored, its state is of its type, for
\* all bounds, when None is not the name of a chunk (composer_shell.js,
\* stream_declaration.js, gpu_command_stream.js, block_image_declaration.js,
\* composer_package.js, package_trust.js, barcode_template_composition.js).
THEOREM WorkbenchTypes ==
  ASSUME BoundsAreNumbers, NoneIsNoLabel  PROVE Spec => []TypeOK
<1> DEFINE Typed == /\ Shell!TypeOK /\ Streams!TypeOK /\ Graphics!TypeOK
                    /\ Blocks!TypeOK /\ Store!TypeOK /\ Trust!TypeOK
                    /\ Composition!TypeOK
           Explored == part \in {"shell", "stream", "graphics", "block",
                                 "store", "trust", "composition"}
<1>1. /\ Shell!Spec => []Shell!TypeOK
      /\ Streams!Spec => []Streams!TypeOK
      /\ Graphics!Spec => []Graphics!TypeOK
      /\ Blocks!Spec => []Blocks!TypeOK
      /\ Store!Spec => []Store!TypeOK
      /\ Trust!Spec => []Trust!TypeOK
      /\ Composition!Spec => []Composition!TypeOK
  BY ShellTypes, StreamTypes, GraphicsTypes, BlockTypes, StoreTypes,
     TrustTypes, CompositionTypes
     DEF BoundsAreNumbers
<1>2. Spec => []Typed
  BY <1>1, ShellSpec, StreamSpec, GraphicsSpec, BlockSpec, StoreSpec,
     TrustSpec, CompositionSpec, PTL
<1>3. Init => Explored  BY DEF Init
<1>4. Explored /\ [Next]_vars => Explored'  BY DEF Next, vars
<1>5. Typed /\ Explored => TypeOK  BY DEF TypeOK
<1> HIDE DEF Typed, Explored
<1>6. QED  BY <1>2, <1>3, <1>4, <1>5, PTL DEF Spec

\* Whatever the workbench reports as approved, of a package or a composition,
\* was approved by a signer for that very content (reportPackageTrust,
\* reportTrust, importCompositionBundle).
THEOREM WorkbenchApproval == Spec => []ApprovalIsSigned
<1>1. Trust!ApprovalIsSigned /\ Composition!ApprovalIsSigned => ApprovalIsSigned
  BY DEF ApprovalIsSigned
<1>2. QED
  BY <1>1, TrustSpec, TrustApproval, CompositionSpec, CompositionApproval, PTL

\* What is imported, of a directory or of a carrier, is one export, whole, and
\* a package written to its end can be imported, when no export is taken for a
\* missing or torn file (importPackage, validateBundle).
THEOREM WorkbenchOneExport ==
  ASSUME ExportsAreFiles  PROVE Spec => []ImportedIsOneExport
<1>1. Store!Spec => []Store!SettledCanBeImported  BY StoreSettled
<1>2. Store!ImportedIsOneExport /\ Store!SettledCanBeImported
        /\ Composition!ImportedIsOneExport => ImportedIsOneExport
  BY DEF ImportedIsOneExport
<1>3. QED
  BY <1>1, <1>2, StoreSpec, StoreOneExport, CompositionSpec,
       CompositionOneExport, PTL

\* A composition bundle nobody touched is refused exactly when its trust did
\* not stand, when None is no record and no file (exportCompositionBundle,
\* validateBundle).
THEOREM WorkbenchStale ==
  ASSUME NoneIsNothing  PROVE Spec => []OnlyStaleIsRefused
<1>1. Composition!Spec => []Composition!OnlyStaleIsRefused  BY CompositionStale
<1>2. Composition!OnlyStaleIsRefused => OnlyStaleIsRefused
  BY DEF OnlyStaleIsRefused
<1>3. QED  BY <1>1, <1>2, CompositionSpec, PTL

\* Trust is not lost on the way: a whole record leaves the bundle of a package
\* standing and takes no approval back (appendTrustRecord), and the trust of a
\* composition follows its content and not its view (trustStatus).
THEOREM WorkbenchTrust == Spec => TrustIsKept
<1>1. QED
  BY TrustSpec, Attestation, CompositionSpec, CompositionTrust, PTL
     DEF TrustIsKept

\* The document, the triangulation, the stream, the views and the scene of the
\* shell do not come apart (reparse, currentAnimationFrame, dropTemplate,
\* connectComponents).
THEOREM WorkbenchShell == Spec => []ShellAgrees
<1>1. Shell!ShellAgrees => ShellAgrees  BY DEF ShellAgrees
<1>2. QED  BY <1>1, ShellSpec, ShellAgreement, PTL

\* Whatever streams the backends are given, their plans are told to be the
\* same when they are of one stream and mode, but for polyforms drawn in the
\* mode of barcode templates, and are named for the first thing in them that
\* has a name (comparePlans, adapt).
THEOREM WorkbenchPlans == Spec => []PlansAgree
<1>1. Graphics!PlansAgree => PlansAgree  BY DEF PlansAgree
<1>2. QED  BY <1>1, GraphicsSpec, GraphicsAgreement, PTL

\* Nothing is hidden by a region around it, inspectors agree and what is
\* counted adds up (compareOverlayOrder, resolveIndex, projectStreamIndex).
THEOREM WorkbenchRegions == Spec => []RegionsReadAlike
<1>1. Streams!RegionsReadAlike => RegionsReadAlike  BY DEF RegionsReadAlike
<1>2. QED  BY <1>1, StreamSpec, StreamsReadAlike, PTL

\* A block image has each byte once, in any order of its chunks, and comes back
\* from a snapshot, when None is not the name of a chunk (normalizeChunks,
\* exportBlockImageSnapshot, importBlockImageSnapshot).
THEOREM WorkbenchImages ==
  ASSUME NoneIsNoLabel  PROVE Spec => []ImagesComeBack
<1>1. Blocks!ImagesComeBack => ImagesComeBack  BY DEF ImagesComeBack
<1>2. Blocks!Spec => []Blocks!ImagesComeBack  BY BlocksComeBack
<1>3. QED  BY <1>1, <1>2, BlockSpec, PTL

\* A changed byte changes the receipt of its chunk and of the index, and no
\* other chunk's, whatever the size of a block (createRawBinaryChunkIndex).
THEOREM WorkbenchDamage ==
  ASSUME BlockSize \in Nat \ {0}  PROVE Spec => DamageIsLocated
<1>1. Blocks!Spec => Blocks!DamageIsLocated  BY BlockDamage
<1>2. QED  BY <1>1, BlockSpec, PTL DEF DamageIsLocated
=============================================================================
