---------------------------- MODULE CABundleProofs ----------------------------
(***************************************************************************)
(* Proofs about CABundle, for bundles of any number of blocks and any limit *)
(* on the certificates.  The two are numbers; what they are numbers of is   *)
(* said in LauncherInputs, which instantiates CABundle.                     *)
(***************************************************************************)
EXTENDS CABundle, SequenceTheorems, FiniteSetTheorems, WellFoundedInduction, TLAPS

\* A bundle that deserves to be accepted, as BundlesAcceptedExactly puts it.
Clean ==
    /\ bundle # <<>> /\ bundle[Len(bundle)] = "ca"
    /\ Cardinality(Certificates) <= MaxCertificates
    /\ Tolerated

\* The readable blocks in front of the decoder.
Ahead == {i \in next..Len(bundle) : bundle[i] \in WellFormed}

InRange == bundle \in Seq(Blocks) /\ next \in 1..(Len(bundle) + 1)

-----------------------------------------------------------------------------
(***************************************************************************)
(* encoding/pem.                                                            *)
(***************************************************************************)

\* Among numbers one is the least.
LEMMA LeastNumber ==
    ASSUME NEW S \in SUBSET Nat, S # {} PROVE \E i \in S : \A j \in S : i <= j
<1>1. \A m, n \in Nat : m < n => <<m, n>> \in OpToRel(<, Nat)
  BY Zenon DEF OpToRel
<1>2. PICK i \in S : \A j \in S : ~(<<j, i>> \in OpToRel(<, Nat))
  BY NatLessThanWellFounded, WFMin
<1>3. ASSUME NEW j \in S PROVE i <= j
  <2>1. ~(j < i)
    BY <1>1, <1>2, Zenon
  <2> QED BY <2>1
<1> QED BY <1>3

\* A block that is found is the first readable one.
LEMMA PemFinds ==
    ASSUME InRange, pemDecode # 0
    PROVE  /\ pemDecode \in Ahead /\ \A j \in Ahead : pemDecode <= j
           /\ bundle[next] \notin {"otherType", "text"}
<1>1. Ahead \in SUBSET Nat
  BY DEF Ahead, InRange
<1>2. /\ Ahead # {} /\ bundle[next] \notin {"otherType", "text"}
      /\ pemDecode = CHOOSE i \in Ahead : \A j \in Ahead : i <= j
  BY DEF pemDecode, Ahead
<1>3. \E i \in Ahead : \A j \in Ahead : i <= j
  BY <1>1, <1>2, LeastNumber
<1> QED BY <1>2, <1>3

\* When none is found there is none, or what comes next is nothing to skip.
LEMMA PemFails ==
    ASSUME InRange, pemDecode = 0
    PROVE  Ahead = {} \/ bundle[next] \in {"otherType", "text"}
<1> SUFFICES ASSUME Ahead # {}, bundle[next] \notin {"otherType", "text"} PROVE FALSE
  OBVIOUS
<1>1. Ahead \in SUBSET Nat /\ 0 \notin Ahead
  BY DEF Ahead, InRange
<1>2. pemDecode = CHOOSE i \in Ahead : \A j \in Ahead : i <= j
  BY DEF pemDecode, Ahead
<1>3. \E i \in Ahead : \A j \in Ahead : i <= j
  BY <1>1, LeastNumber
<1> QED BY <1>1, <1>2, <1>3

-----------------------------------------------------------------------------
(***************************************************************************)
(* The blocks consumed so far are clean, end in a certificate, and all      *)
(* their certificates are in the pool.                                      *)
(***************************************************************************)
ReadInv ==
    /\ InRange
    /\ pool = {i \in 1..(next - 1) : bundle[i] = "ca"}
    /\ IsFiniteSet(pool) /\ Cardinality(pool) <= MaxCertificates
    /\ next > 1 => bundle[next - 1] = "ca"
    /\ \A i \in 1..(next - 1) :
        /\ bundle[i] \notin Refused
        /\ bundle[i] = "text" => i > 1 /\ bundle[i - 1] # "ca"
    /\ verdict \in {"none", "accepted", "rejected"}
    /\ verdict = "accepted" => next = Len(bundle) + 1 /\ pool # {}
    /\ verdict = "rejected" => ~Clean

\* The certificates of a bundle can be counted.
LEMMA CertificatesFinite == ASSUME InRange PROVE IsFiniteSet(Certificates)
<1>1. Len(bundle) \in Nat /\ DOMAIN bundle = 1..Len(bundle)
  BY LenProperties DEF InRange
<1>2. IsFiniteSet(1..Len(bundle))
  BY <1>1, FS_Interval
<1>3. Certificates \in SUBSET (1..Len(bundle))
  BY <1>1 DEF Certificates
<1> QED BY <1>2, <1>3, FS_Subset

\* A block is refused only in a bundle that is not clean.
LEMMA RefusalJustified ==
    ASSUME MaxCertificates \in Nat, ReadInv, next <= Len(bundle),
           pemDecode = 0 \/ bundle[pemDecode] \in Refused
             \/ ~withinLimit(Cardinality(pool) + 1)
    PROVE  ~Clean
<1>0. /\ Len(bundle) \in Nat /\ DOMAIN bundle = 1..Len(bundle) /\ InRange
      /\ next \in 1..Len(bundle)
  BY LenProperties DEF ReadInv, InRange
<1>1. CASE pemDecode = 0
  <2>1. CASE Ahead = {}
    <3>1. Len(bundle) \in next..Len(bundle)
      BY <1>0
    <3>2. bundle[Len(bundle)] \notin WellFormed
      BY <2>1, <3>1 DEF Ahead
    <3> QED BY <3>2 DEF Clean, WellFormed
  <2>2. CASE bundle[next] = "otherType"
    BY <1>0, <2>2 DEF Clean, Tolerated, Refused
  <2>3. CASE bundle[next] = "text"
    <3>1. next > 1 => bundle[next - 1] = "ca"
      BY DEF ReadInv
    <3> QED BY <1>0, <2>3, <3>1 DEF Clean, Tolerated
  <2> QED BY <1>0, <1>1, <2>1, <2>2, <2>3, PemFails
<1>2. CASE pemDecode # 0 /\ bundle[pemDecode] \in Refused
  <2>1. pemDecode \in 1..Len(bundle)
    BY <1>0, <1>2, PemFinds DEF Ahead
  <2> QED BY <1>0, <1>2, <2>1 DEF Clean, Tolerated
<1>3. CASE /\ pemDecode # 0 /\ bundle[pemDecode] \notin Refused
           /\ ~withinLimit(Cardinality(pool) + 1)
  <2>1. pemDecode \in next..Len(bundle) /\ bundle[pemDecode] = "ca"
    BY <1>0, <1>3, PemFinds DEF Ahead, WellFormed
  <2>2. pool \cup {pemDecode} \in SUBSET Certificates /\ pemDecode \notin pool
    BY <1>0, <2>1 DEF ReadInv, Certificates
  <2>3. /\ Cardinality(pool \cup {pemDecode}) = Cardinality(pool) + 1
        /\ Cardinality(pool) \in Nat
    BY <2>2, FS_AddElement, FS_CardinalityType DEF ReadInv
  <2>4. /\ Cardinality(pool \cup {pemDecode}) <= Cardinality(Certificates)
        /\ Cardinality(Certificates) \in Nat
    BY <1>0, <2>2, CertificatesFinite, FS_Subset, FS_CardinalityType
  <2> QED BY <1>3, <2>3, <2>4 DEF withinLimit, Clean
<1> QED BY <1>1, <1>2, <1>3

\* A block that is consumed keeps what has been consumed clean.
LEMMA ConsumeStep ==
    ASSUME MaxCertificates \in Nat, ReadInv, verdict = "none", next <= Len(bundle),
           pemDecode # 0, bundle[pemDecode] \notin Refused, withinLimit(Cardinality(pool) + 1),
           pool' = pool \cup {pemDecode}, next' = pemDecode + 1, UNCHANGED <<bundle, verdict>>
    PROVE  ReadInv'
<1> DEFINE d == pemDecode
<1>0. /\ Len(bundle) \in Nat /\ InRange /\ next \in 1..Len(bundle)
      /\ \A i \in 1..Len(bundle) : bundle[i] \in Blocks
  BY LenProperties, ElementOfSeq DEF ReadInv, InRange
<1>1. d \in next..Len(bundle) /\ bundle[d] = "ca"
  BY <1>0, PemFinds DEF Ahead, WellFormed
<1>2. \A i \in next..(d - 1) : bundle[i] \notin WellFormed
  BY <1>0, <1>1, PemFinds DEF Ahead
<1>3. bundle[next] # "text"
  BY <1>0, PemFinds
<1>4. InRange'
  BY <1>0, <1>1 DEF InRange
<1>5. pool' = {i \in 1..(next' - 1) : bundle'[i] = "ca"}
  <2>1. \A i \in next..(d - 1) : bundle[i] # "ca"
    BY <1>2 DEF WellFormed
  <2> QED BY <1>0, <1>1, <2>1 DEF ReadInv
<1>6. IsFiniteSet(pool') /\ Cardinality(pool') <= MaxCertificates
  <2>1. d \notin pool
    BY <1>0, <1>1 DEF ReadInv
  <2> QED BY <2>1, FS_AddElement DEF ReadInv, withinLimit
<1>7. \A i \in 1..(next' - 1) :
        /\ bundle[i] \notin Refused
        /\ bundle[i] = "text" => i > 1 /\ bundle[i - 1] # "ca"
  <2> SUFFICES ASSUME NEW i \in 1..d
               PROVE  /\ bundle[i] \notin Refused
                      /\ bundle[i] = "text" => i > 1 /\ bundle[i - 1] # "ca"
    BY <1>0, <1>1
  <2>1. CASE i < next
    BY <1>0, <2>1 DEF ReadInv
  <2>2. CASE i = d
    BY <1>1, <2>2 DEF Refused
  <2>3. CASE next <= i /\ i < d
    <3>1. bundle[i] \notin WellFormed
      BY <1>0, <1>1, <1>2, <2>3
    <3>2. bundle[i] = "text" => i > next
      BY <1>0, <1>3, <2>3
    <3>3. i > next => bundle[i - 1] \notin WellFormed
      BY <1>0, <1>1, <1>2, <2>3
    <3> QED BY <1>0, <3>1, <3>2, <3>3 DEF WellFormed
  <2> QED BY <1>0, <1>1, <2>1, <2>2, <2>3
<1> QED BY <1>0, <1>1, <1>4, <1>5, <1>6, <1>7 DEF ReadInv

\* The verdict at the end of a bundle is the right one.
LEMMA EndStep ==
    ASSUME MaxCertificates \in Nat, ReadInv, EndOfBundle PROVE ReadInv'
<1>0. /\ Len(bundle) \in Nat /\ next = Len(bundle) + 1
      /\ UNCHANGED <<bundle, next, pool>>
      /\ verdict' = IF pool = {} THEN "rejected" ELSE "accepted"
  BY LenProperties DEF ReadInv, InRange, EndOfBundle, Decide
<1>1. pool = {} => ~Clean
  <2> SUFFICES ASSUME pool = {}, Clean PROVE FALSE
    OBVIOUS
  <2>1. Len(bundle) > 0
    BY <1>0, EmptySeq DEF Clean, ReadInv, InRange
  <2> QED BY <1>0, <2>1 DEF ReadInv, Clean
<1>2. Clean' <=> Clean
  BY <1>0 DEF Clean, Certificates, Tolerated
<1> QED BY <1>0, <1>1, <1>2 DEF ReadInv, InRange

\* Every step keeps the invariant.
LEMMA ReadStep == ASSUME MaxCertificates \in Nat PROVE ReadInv /\ [Next]_vars => ReadInv'
<1> SUFFICES ASSUME ReadInv, [Next]_vars PROVE ReadInv'
  OBVIOUS
<1>1. CASE ReadBlock
  <2>1. CASE pemDecode = 0 \/ bundle[pemDecode] \in Refused
               \/ ~withinLimit(Cardinality(pool) + 1)
    <3>1. UNCHANGED <<bundle, next, pool>> /\ verdict' = "rejected" /\ next <= Len(bundle)
      BY <1>1, <2>1 DEF ReadBlock, Decide
    <3>2. ~Clean'
      BY <2>1, <3>1, RefusalJustified DEF Clean, Certificates, Tolerated
    <3> QED BY <3>1, <3>2 DEF ReadInv, InRange
  <2>2. CASE ~(pemDecode = 0 \/ bundle[pemDecode] \in Refused
                 \/ ~withinLimit(Cardinality(pool) + 1))
    BY <1>1, <2>2, ConsumeStep DEF ReadBlock
  <2> QED BY <2>1, <2>2
<1>2. CASE EndOfBundle
  BY <1>2, EndStep
<1>3. CASE Decided \/ UNCHANGED vars
  BY <1>3 DEF Decided, vars, ReadInv, InRange, Clean, Certificates, Tolerated
<1> QED BY <1>1, <1>2, <1>3 DEF Next

\* The invariant holds throughout.
LEMMA ReadInvariant ==
    ASSUME MaxCertificates \in Nat, MaxBlocks \in Nat PROVE Spec => []ReadInv
<1>1. Init => ReadInv
  <2> SUFFICES ASSUME Init PROVE ReadInv
    OBVIOUS
  <2>1. PICK n \in 0..MaxBlocks : bundle \in [1..n -> Blocks]
    BY DEF Init
  <2>2. bundle \in Seq(Blocks) /\ Len(bundle) \in Nat
    BY <2>1, SeqDef, LenProperties
  <2>3. IsFiniteSet({}) /\ Cardinality({}) = 0
    BY FS_EmptySet
  <2> QED BY <2>2, <2>3 DEF Init, ReadInv, InRange
<1>2. ReadInv /\ [Next]_vars => ReadInv'
  BY ReadStep
<1> QED BY <1>1, <1>2, PTL DEF Spec

-----------------------------------------------------------------------------
\* What the invariant says of an accepted bundle.
LEMMA AcceptedIsClean ==
    ASSUME ReadInv, verdict = "accepted" PROVE pool = Certificates /\ Clean
<1>1. /\ Len(bundle) \in Nat /\ DOMAIN bundle = 1..Len(bundle)
      /\ next = Len(bundle) + 1 /\ pool # {}
  BY LenProperties DEF ReadInv, InRange
<1>2. pool = Certificates
  BY <1>1 DEF ReadInv, Certificates
<1>3. bundle # <<>> /\ bundle[Len(bundle)] = "ca"
  BY <1>1, <1>2, EmptySeq DEF ReadInv, Certificates
<1>4. Tolerated
  BY <1>1 DEF ReadInv, Tolerated
<1> QED BY <1>2, <1>3, <1>4 DEF ReadInv, Clean

\* An accepted bundle is trusted as a whole and nothing beside it, however many
\* blocks it has.
THEOREM PoolIsTheBundle ==
    ASSUME MaxCertificates \in Nat, MaxBlocks \in Nat
    PROVE  Spec => []TrustsAllAndOnlyCAs
<1>1. ReadInv => TrustsAllAndOnlyCAs
  BY AcceptedIsClean DEF TrustsAllAndOnlyCAs
<1> QED BY <1>1, ReadInvariant, PTL

\* The decoder accepts a bundle exactly when it is clean.
THEOREM CleanBundlesAccepted ==
    ASSUME MaxCertificates \in Nat, MaxBlocks \in Nat
    PROVE  Spec => []BundlesAcceptedExactly
<1>1. ReadInv => BundlesAcceptedExactly
  BY AcceptedIsClean DEF ReadInv, BundlesAcceptedExactly, Clean
<1> QED BY <1>1, ReadInvariant, PTL
=============================================================================
