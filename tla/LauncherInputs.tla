--------------------------- MODULE LauncherInputs ---------------------------
(***************************************************************************)
(* What a launcher hands to a constrained run, for TLC: the command line     *)
(* with its descriptors, the socket mark, the JSON objects and the CA        *)
(* bundles.  Their readers share no state, so a behaviour is one of a single *)
(* reader, and the states of all are the sum of theirs.                      *)
(***************************************************************************)
EXTENDS ConstrainedInvocation

CONSTANTS
    Varied, MaxLexemes,           \* of ConstrainedInputs
    MaxCertificates, MaxBlocks,   \* of CABundle
    Width, Chars, MaxLength       \* of SocketMark

ASSUME InputConstants ==
    /\ {MaxLexemes, MaxCertificates, MaxBlocks, MaxLength} \subseteq Nat
    /\ Width \in Nat \ {0} /\ Chars \subseteq Nat

VARIABLES
    reader,                               \* the reader of this behaviour
    kind, doc, state, fields, verdict,    \* of ConstrainedInputs
    bundle, next, pool, bundleVerdict,    \* of CABundle
    raw                                   \* of SocketMark

objectVars == <<kind, doc, state, fields, verdict>>
bundleVars == <<bundle, next, pool, bundleVerdict>>

Objects == INSTANCE ConstrainedInputs
Bundles == INSTANCE CABundle WITH verdict <- bundleVerdict
Marks == INSTANCE SocketMark

inputsVars == <<vars, reader, objectVars, bundleVars, raw>>

\* A reader that is not the one of this behaviour is given one fixed input.
InputsInit ==
    /\ \/ reader = "bundles"
       \/ reader \in {"invocation", "objects", "marks"} /\ bundle = <<>>
    /\ Init /\ Objects!Init /\ Bundles!Init /\ Marks!Init
    /\ reader # "invocation" => parser = "raw" /\ linux
    /\ reader # "objects" => kind = "plan"

InvocationStep ==
    /\ reader = "invocation" /\ Next
    /\ UNCHANGED <<reader, objectVars, bundleVars, raw>>

ObjectsStep ==
    /\ reader = "objects" /\ Objects!Next
    /\ UNCHANGED <<reader, vars, bundleVars, raw>>

BundlesStep ==
    /\ reader = "bundles" /\ Bundles!Next
    /\ UNCHANGED <<reader, vars, objectVars, raw>>

MarksStep ==
    /\ reader = "marks" /\ Marks!Next
    /\ UNCHANGED <<reader, vars, objectVars, bundleVars>>

InputsNext == InvocationStep \/ ObjectsStep \/ BundlesStep \/ MarksStep

InputsSpec == InputsInit /\ [][InputsNext]_inputsVars

-----------------------------------------------------------------------------
\* The readers keep their types, and an invocation its vocabulary of records.
InputsTypeOK == TypeOK /\ Objects!TypeOK

\* The decoder of the JSON objects accepts exactly what the formats mean.
ObjectsAcceptedExactly == Objects!ObjectsAcceptedExactly

\* The failure details of PIA's two answers name the first fault.
DetailNamesFirstFault == Objects!DetailNamesFirstFault

\* A CA bundle is accepted exactly when it is clean, up to text that
\* encoding/pem skips behind a broken block.
BundlesAcceptedExactly == Bundles!BundlesAcceptedExactly

\* The pool of an accepted bundle holds all its CA certificates and no other.
TrustsAllAndOnlyCAs == Bundles!TrustsAllAndOnlyCAs

\* The parser of socket marks returns a mark exactly for its spellings.
MarksParsedExactly == reader = "marks" => Marks!ParsesExactly
=============================================================================
