------------------------------ MODULE CABundle ------------------------------
(***************************************************************************)
(* parseConstrainedCABundle (src/constrained.go): a CA bundle is taken apart *)
(* block by block.  encoding/pem (external) looks for the next well-formed   *)
(* block and silently skips what it cannot read on the way, which the prefix *)
(* test of pemDecode only prevents at the start of each search.              *)
(***************************************************************************)
EXTENDS Naturals, Sequences, FiniteSets

CONSTANTS
    MaxCertificates,   \* 4 in the code
    MaxBlocks          \* bound on the number of blocks in a bundle

\* A block of a bundle: a CA certificate; a certificate that is no CA, may not
\* sign, does not parse or is too large; a well-formed block of another type;
\* a certificate block whose base64 is broken; text that is no block.
Refused == {"leaf", "noSign", "noDER", "oversized", "otherType"}
WellFormed == {"ca"} \cup Refused
Blocks == WellFormed \cup {"broken", "text"}

VARIABLES
    bundle,     \* the blocks of the input
    next,       \* the first block not consumed yet
    pool,       \* the blocks added to the CertPool
    verdict     \* "none" while reading, then "accepted" or "rejected"

vars == <<bundle, next, pool, verdict>>

Init ==
    /\ bundle \in UNION {[1..n -> Blocks] : n \in 0..MaxBlocks}
    /\ next = 1
    /\ pool = {}
    /\ verdict = "none"

Decide(v) == verdict' = v /\ UNCHANGED <<bundle, next, pool>>

BugSkipsToLastBlock ==
    LET found == {i \in next..Len(bundle) : bundle[i] \in WellFormed} IN
    IF bundle[next] \in {"otherType", "text"} \/ found = {} THEN 0
    ELSE CHOOSE i \in found : \A j \in found : j <= i

\* pemDecode: where the block is that it returns, 0 for none.  The input has to
\* go on with a certificate block; pem.Decode returns the first it can read.
pemDecode ==
    LET found == {i \in next..Len(bundle) : bundle[i] \in WellFormed} IN
    IF bundle[next] \in {"otherType", "text"} \/ found = {} THEN 0
    ELSE CHOOSE i \in found : \A j \in found : i <= j

BugOneTooMany(count) == count <= MaxCertificates + 1

withinLimit(count) == count <= MaxCertificates

ReadBlock ==
    /\ verdict = "none"
    /\ next <= Len(bundle)
    /\ IF pemDecode = 0 \/ bundle[pemDecode] \in Refused
          \/ ~withinLimit(Cardinality(pool) + 1)
       THEN Decide("rejected")
       ELSE /\ pool' = pool \cup {pemDecode}
            /\ next' = pemDecode + 1
            /\ UNCHANGED <<bundle, verdict>>

EndOfBundle ==
    /\ verdict = "none"
    /\ next > Len(bundle)
    /\ Decide(IF pool = {} THEN "rejected" ELSE "accepted")

Decided == verdict # "none" /\ UNCHANGED vars

Next == ReadBlock \/ EndOfBundle \/ Decided

Spec == Init /\ [][Next]_vars

-----------------------------------------------------------------------------
Certificates == {i \in DOMAIN bundle : bundle[i] = "ca"}

\* Text is skipped only behind a broken block, and a bundle ends in a CA.
Tolerated ==
    \A i \in DOMAIN bundle :
        /\ bundle[i] \notin Refused
        /\ bundle[i] = "text" => i > 1 /\ bundle[i - 1] # "ca"

\* A bundle is accepted exactly when it ends in a CA certificate, holds no more
\* of them than the limit and no readable block of any other kind; unreadable
\* text is let pass behind a broken block and nowhere else.
BundlesAcceptedExactly ==
    verdict # "none" =>
        (verdict = "accepted") =
            (/\ bundle # <<>> /\ bundle[Len(bundle)] = "ca"
             /\ Cardinality(Certificates) <= MaxCertificates
             /\ Tolerated)

\* An accepted bundle is trusted as a whole: the pool holds every CA certificate
\* the launcher put in, none of them twice, and nothing else.
TrustsAllAndOnlyCAs == verdict = "accepted" => pool = Certificates
=============================================================================
