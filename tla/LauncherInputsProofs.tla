------------------------ MODULE LauncherInputsProofs ------------------------
(***************************************************************************)
(* Proofs about what a launcher hands to a constrained run: first about the *)
(* invocation, for any of the six descriptor flags and command lines of any *)
(* length, then about the invocation and the decoders side by side, with    *)
(* the decoders' own theorems from ConstrainedInputsProofs, CABundleProofs  *)
(* and SocketMarkProofs.                                                    *)
(***************************************************************************)
EXTENDS LauncherInputs, FiniteSetTheorems, TLAPS

Raw == RawDescriptor \/ RawSocketMark \/ RawReject \/ RawEnd
Cli == CliDescriptor \/ CliSocketMark \/ CliOrdinary \/ CliUsage \/ CliEnd

-----------------------------------------------------------------------------
(***************************************************************************)
(* What the steps have in common.                                           *)
(***************************************************************************)

\* Reading the command line touches no descriptor and reports nothing.
LEMMA ParseFrame ==
    ASSUME Raw \/ Cli
    PROVE  /\ pc = "parse" /\ pc' \in {"parse", "open", "reject", "done"}
           /\ UNCHANGED <<linux, opened, shut, record>>
           /\ pc' # "done" => UNCHANGED outcome
           /\ pc' \in {"open", "done"} => UNCHANGED <<values, mark>>
           /\ pc' = "done" => outcome' \in {"usage", "ordinary"}
<1> USE DEF program, parsed, Reject
<1>1. CASE Raw
  BY <1>1 DEF Raw, RawDescriptor, RawSocketMark, RawReject, RawEnd
<1>2. CASE Cli
  BY <1>2 DEF Cli, CliDescriptor, CliSocketMark, CliOrdinary, CliUsage, CliEnd, ordinaryAction
<1> QED BY <1>1, <1>2

\* Behind the command line nothing of it changes any more.
LEMMA ParsedFrame ==
    ASSUME \/ OpenDescriptor \/ Opened \/ Collect \/ writeInvalidInvocationFailureFD
           \/ Validate \/ Terminated \/ UNCHANGED vars
    PROVE  UNCHANGED <<linux, parser, parsed>>
BY DEF OpenDescriptor, Opened, Collect, writeInvalidInvocationFailureFD, Validate, Terminated,
       vars, program

\* Only the ends of pipes are fit for a flag, and the result flag is written to.
LEMMA OnlyPipesFit ==
    /\ \A f \in FdFlags : Fit(f) \cap {"unset", "low", "file"} = {}
    /\ Fit("result-fd") = Writable
BY InvocationConstants DEF Fit, WriteFlags

\* A word that begins with a dash is not Plain.
LEMMA PlainHasNoDash == Plain.dashes = 0
BY DEF Plain

\* The result descriptor is the last to be opened.
LEMMA ResultIsLast ==
    ASSUME spec("result-fd") PROVE FdFlags \ opened = {"result-fd"}
<1>1. ASSUME NEW g \in FdFlags, g # "result-fd" PROVE Before(g, "result-fd")
  <2>1. PICK i \in 1..6 : FlagOrder[i] = g
    BY InvocationConstants
  <2>2. FlagOrder[6] = "result-fd"
    BY DEF FlagOrder
  <2>3. i < 6
    BY <1>1, <2>1, <2>2
  <2> QED BY <2>1, <2>2, <2>3 DEF Before
<1> QED BY <1>1 DEF spec

-----------------------------------------------------------------------------
(***************************************************************************)
(* Opening.  What has been opened is fit and shared by no other flag, and   *)
(* nothing is shut before something has failed.                             *)
(***************************************************************************)
OpenInv ==
    /\ opened \subseteq FdFlags
    /\ pc = "parse" => opened = {}
    /\ pc \in {"parse", "open", "leak", "validate"} => shut = {}
    /\ pc = "validate" => opened = FdFlags
    /\ opened # {} => linux
    /\ \A f \in opened : values[f] \in Fit(f)
    /\ \A f, g \in opened : values[f] = values[g] => f = g
    /\ "result-fd" \in opened => opened = FdFlags

\* openConstrainedFiles keeps it.
LEMMA OpenDescriptorStep == ASSUME OpenInv, OpenDescriptor PROVE OpenInv'
<1>0. pc = "open" /\ UNCHANGED <<linux, values>>
  BY DEF OpenDescriptor, program, parsed
<1>1. PICK f \in FdFlags :
        /\ spec(f)
        /\ \/ /\ wellFormed(values[f])
              /\ validateConstrainedDescriptor(f, values[f])
              /\ opened' = opened \cup {f}
              /\ UNCHANGED <<pc, shut>>
           \/ pc' = "reject" /\ UNCHANGED opened
           \/ pc' = "leak" /\ UNCHANGED <<opened, shut>>
  BY DEF OpenDescriptor, Reject
<1>2. CASE \/ pc' = "reject" /\ UNCHANGED opened
           \/ pc' = "leak" /\ UNCHANGED <<opened, shut>>
  BY <1>0, <1>2 DEF OpenInv
<1>3. CASE /\ wellFormed(values[f])
           /\ validateConstrainedDescriptor(f, values[f])
           /\ opened' = opened \cup {f}
           /\ UNCHANGED <<pc, shut>>
  <2>1. linux /\ values[f] \in Fit(f) /\ \A g \in opened : values[g] # values[f]
    BY <1>3 DEF wellFormed, validateConstrainedDescriptor, OpenedFds
  <2>2. "result-fd" \in opened' => opened' = FdFlags
    <3>1. CASE f = "result-fd"
      BY <1>1, <1>3, <3>1, ResultIsLast DEF OpenInv
    <3>2. CASE "result-fd" \in opened
      BY <1>3, <3>2 DEF OpenInv
    <3> QED BY <1>3, <3>1, <3>2
  <2>3. \A g, h \in opened' : values[g] = values[h] => g = h
    BY <1>3, <2>1 DEF OpenInv
  <2> QED BY <1>0, <1>3, <2>1, <2>2, <2>3 DEF OpenInv
<1> QED BY <1>1, <1>2, <1>3

\* So does every other step.
LEMMA OpenStep == OpenInv /\ [Next]_vars => OpenInv'
<1> SUFFICES ASSUME OpenInv, [Next]_vars PROVE OpenInv'
  OBVIOUS
<1>1. CASE Raw \/ Cli
  BY <1>1, ParseFrame DEF OpenInv
<1>2. CASE OpenDescriptor
  BY <1>2, OpenDescriptorStep
<1>3. CASE Opened
  BY <1>3, ParsedFrame DEF Opened, OpenInv, parsed
<1>4. CASE Collect \/ writeInvalidInvocationFailureFD \/ Validate
  <2>1. pc' \in {"reject", "done"} /\ UNCHANGED <<opened, linux, values>>
    BY <1>4, ParsedFrame DEF Collect, writeInvalidInvocationFailureFD, Validate, Reject, parsed
  <2> QED BY <2>1 DEF OpenInv
<1>5. CASE Terminated \/ UNCHANGED vars
  BY <1>5 DEF Terminated, vars, program, parsed, OpenInv
<1> QED BY <1>1, <1>2, <1>3, <1>4, <1>5 DEF Next, Raw, Cli

\* The invariant holds throughout.
LEMMA OpenInvariant == Spec => []OpenInv
<1>1. Init => OpenInv
  BY DEF Init, OpenInv
<1> QED BY <1>1, OpenStep, PTL DEF Spec

\* With every flag opened, the descriptors are as a run needs them.
LEMMA AllOpenedFit == ASSUME OpenInv, pc = "validate" PROVE DescriptorsFit /\ linux
<1>1. opened = FdFlags /\ shut = {} /\ FdFlags # {}
  BY InvocationConstants DEF OpenInv
<1> QED BY <1>1 DEF OpenInv, DescriptorsFit

-----------------------------------------------------------------------------
(***************************************************************************)
(* Starting.                                                                *)
(***************************************************************************)
OutcomeInv ==
    /\ outcome # "none" <=> pc = "done"
    /\ RunIsWellFormed

\* Every step keeps what a run of either mode may rely on.
LEMMA OutcomeStep == OpenInv /\ OutcomeInv /\ [Next]_vars => OutcomeInv'
<1> SUFFICES ASSUME OpenInv, OutcomeInv, [Next]_vars PROVE OutcomeInv'
  OBVIOUS
<1>1. CASE (Raw \/ Cli) /\ ~CliEnd
  <2>1. CASE pc' = "done"
    <3>1. outcome' = "usage"
      BY <1>1, <2>1 DEF Raw, RawDescriptor, RawSocketMark, RawReject, RawEnd, Reject,
                        Cli, CliDescriptor, CliSocketMark, CliOrdinary, CliUsage
    <3> QED BY <2>1, <3>1 DEF OutcomeInv, RunIsWellFormed
  <2>2. CASE pc' # "done"
    <3>1. outcome' = "none"
      BY <1>1, <2>2, ParseFrame DEF OutcomeInv
    <3> QED BY <2>2, <3>1 DEF OutcomeInv, RunIsWellFormed
  <2> QED BY <2>1, <2>2
<1>2. CASE CliEnd
  <2>1. UNCHANGED <<values, mark>> /\ pc = "parse"
    BY <1>2 DEF CliEnd, parsed
  <2>2. CASE constrainedRequested /\ pc' = "open" /\ UNCHANGED outcome
    <3>1. outcome' = "none"
      BY <2>1, <2>2 DEF OutcomeInv
    <3> QED BY <2>2, <3>1 DEF OutcomeInv, RunIsWellFormed
  <2>3. CASE ~constrainedRequested /\ pc' = "done" /\ ordinaryAction
    <3>1. outcome' = "ordinary" => mark' = "none" /\ \A f \in Triggers : values'[f] = "unset"
      BY <2>1, <2>3 DEF ordinaryAction, constrainedRequested
    <3>2. outcome' \in {"usage", "ordinary"}
      BY <2>3 DEF ordinaryAction
    <3> QED BY <2>3, <3>1, <3>2 DEF OutcomeInv, RunIsWellFormed
  <2> QED BY <1>2, <2>2, <2>3 DEF CliEnd
<1>3. CASE OpenDescriptor \/ Opened \/ Collect
  <2>1. outcome' = outcome /\ pc # "done" /\ pc' # "done"
    BY <1>3 DEF OpenDescriptor, Opened, Collect, Reject
  <2> QED BY <2>1 DEF OutcomeInv, RunIsWellFormed
<1>4. CASE writeInvalidInvocationFailureFD
  BY <1>4 DEF writeInvalidInvocationFailureFD, OutcomeInv, RunIsWellFormed
<1>5. CASE Validate
  <2>1. UNCHANGED <<linux, values, shut, mark, ordinary, positional>> /\ pc = "validate"
        /\ pc' = "done"
    BY <1>5 DEF Validate, program, parsed
  <2>2. CASE outcome' = "failed"
    BY <2>1, <2>2 DEF OutcomeInv, RunIsWellFormed
  <2>3. CASE /\ validateConstrainedInvocation /\ constrainedSocketControl = ""
             /\ outcome' = "run"
    <3>1. DescriptorsFit'
      BY <2>1, AllOpenedFit DEF DescriptorsFit
    <3>2. /\ ~ordinary /\ ~positional
          /\ mark \notin {"invalid", "dashed"}
          /\ mark = "valid" => linux
      BY <2>3 DEF validateConstrainedInvocation, constrainedSocketControl
    <3> QED BY <2>1, <2>3, <3>1, <3>2 DEF OutcomeInv, RunIsWellFormed
  <2> QED BY <1>5, <2>2, <2>3 DEF Validate, Fail
<1>6. CASE Terminated \/ UNCHANGED vars
  BY <1>6 DEF Terminated, vars, program, parsed, OutcomeInv, RunIsWellFormed, DescriptorsFit
<1> QED BY <1>1, <1>2, <1>3, <1>4, <1>5, <1>6 DEF Next, Raw, Cli

\* The invariant holds throughout.
LEMMA OutcomeInvariant == Spec => []OutcomeInv
<1>1. Init => OutcomeInv
  BY DEF Init, OutcomeInv, RunIsWellFormed
<1> QED BY <1>1, OutcomeStep, OpenInvariant, PTL DEF Spec

\* No run of either mode starts on a command line it does not take in full, for
\* any command line and whatever the descriptors turn out to be.
THEOREM RunsAreWellFormed == Spec => []RunIsWellFormed
<1>1. OutcomeInv => RunIsWellFormed
  BY DEF OutcomeInv
<1> QED BY <1>1, OutcomeInvariant, PTL

-----------------------------------------------------------------------------
(***************************************************************************)
(* Reporting.  The result descriptor is opened last: whatever fails before  *)
(* it can only have shut other descriptors, and of those it shares none.    *)
(***************************************************************************)
Reportable ==
    /\ linux /\ values["result-fd"] \in Writable
    /\ \A f \in FdFlags \ {"result-fd"} : values[f] # values["result-fd"]

ReportInv ==
    /\ (pc \in {"leak", "reject"} /\ Reportable) => values["result-fd"] \notin shut
    /\ pc = "leak" => "result-fd" \notin opened
    /\ (outcome = "failed" /\ Reportable) => record.class = "invalid_invocation"

\* A descriptor that is refused takes the result descriptor along only where it
\* is the same one, or is refused itself.
LEMMA ReportSurvives ==
    ASSUME OpenInv, pc = "open", Reportable, NEW f \in FdFlags, spec(f),
           ~validateConstrainedDescriptor(f, values[f])
    PROVE  values["result-fd"] \notin shut \cup closeOnReturn(values[f])
<1>1. shut = {} /\ "result-fd" \notin opened /\ opened \subseteq FdFlags
  BY InvocationConstants DEF OpenInv, spec
<1>2. f # "result-fd"
  BY <1>1, OnlyPipesFit DEF Reportable, validateConstrainedDescriptor
<1> QED BY <1>1, <1>2 DEF closeOnReturn, OpenedFds, Reportable

\* Every step keeps a rejection that can be reported reportable.
LEMMA ReportStep == OpenInv /\ OutcomeInv /\ ReportInv /\ [Next]_vars => ReportInv'
<1> SUFFICES ASSUME OpenInv, OutcomeInv, ReportInv, [Next]_vars PROVE ReportInv'
  OBVIOUS
<1>1. CASE Raw \/ Cli
  <2>1. pc = "parse" /\ pc' # "leak" /\ shut' = {} /\ outcome' # "failed"
    <3>1. outcome = "none" \/ pc' = "done"
      BY <1>1, ParseFrame DEF OutcomeInv
    <3> QED BY <1>1, <3>1, ParseFrame DEF OpenInv, OutcomeInv
  <2> QED BY <2>1 DEF ReportInv
<1>2. CASE OpenDescriptor
  <2>1. /\ pc = "open" /\ outcome' = "none" /\ (Reportable' <=> Reportable)
        /\ values' = values
    BY <1>2, ParsedFrame DEF OpenDescriptor, OutcomeInv, Reportable, parsed
  <2>2. PICK f \in FdFlags :
        /\ spec(f)
        /\ \/ pc' = "open"
           \/ /\ ~validateConstrainedDescriptor(f, values[f])
              /\ shut' = shut \cup closeOnReturn(values[f])
              /\ pc' = "reject"
           \/ pc' = "leak" /\ UNCHANGED <<opened, shut>>
    BY <1>2, <2>1 DEF OpenDescriptor, Reject
  <2>3. CASE pc' = "open"
    BY <2>1, <2>3 DEF ReportInv
  <2>4. CASE /\ ~validateConstrainedDescriptor(f, values[f])
             /\ shut' = shut \cup closeOnReturn(values[f])
             /\ pc' = "reject"
    BY <2>1, <2>2, <2>4, ReportSurvives DEF ReportInv
  <2>5. CASE pc' = "leak" /\ UNCHANGED <<opened, shut>>
    <3>1. "result-fd" \notin opened /\ shut = {}
      BY <2>1, <2>2, InvocationConstants DEF OpenInv, spec
    <3> QED BY <2>1, <2>5, <3>1 DEF ReportInv
  <2> QED BY <2>2, <2>3, <2>4, <2>5
<1>3. CASE Opened
  BY <1>3 DEF Opened, OutcomeInv, ReportInv
<1>4. CASE Collect
  <2>1. /\ pc' = "reject" /\ outcome' = "none" /\ values' = values /\ linux' = linux
        /\ shut' \subseteq shut \cup OpenedFds
    BY <1>4 DEF Collect, Reject, OutcomeInv, program, parsed
  <2>2. shut = {} /\ "result-fd" \notin opened /\ opened \subseteq FdFlags
    BY <1>4 DEF Collect, OpenInv, ReportInv
  <2>3. Reportable => values["result-fd"] \notin OpenedFds
    BY <2>2 DEF Reportable, OpenedFds
  <2>4. Reportable' <=> Reportable
    BY <2>1 DEF Reportable
  <2> QED BY <2>1, <2>2, <2>3, <2>4 DEF ReportInv
<1>5. CASE writeInvalidInvocationFailureFD
  <2>1. /\ pc = "reject" /\ pc' = "done" /\ values' = values /\ linux' = linux
    BY <1>5 DEF writeInvalidInvocationFailureFD, program, parsed
  <2>2. Reportable => values["result-fd"] \notin {"unset", "low"}
                      /\ validateConstrainedDescriptor("result-fd", values["result-fd"])
    BY <2>1, OnlyPipesFit, InvocationConstants DEF ReportInv, Reportable, validateConstrainedDescriptor
  <2>3. Reportable => record'.class = "invalid_invocation"
    BY <1>5, <2>2 DEF writeInvalidInvocationFailureFD
  <2>4. Reportable' => Reportable
    BY <2>1 DEF Reportable
  <2> QED BY <2>1, <2>3, <2>4 DEF ReportInv
<1>6. CASE Validate
  <2>1. ASSUME NEW detail, Fail(detail) PROVE record'.class = "invalid_invocation"
    BY <2>1 DEF Fail
  <2>2. pc' = "done" /\ (Fail("") \/ Fail(constrainedSocketControl) \/ outcome' = "run")
    BY <1>6 DEF Validate
  <2>3. outcome' = "failed" => record'.class = "invalid_invocation"
    BY <2>1, <2>2
  <2> QED BY <2>2, <2>3 DEF ReportInv
<1>7. CASE Terminated \/ UNCHANGED vars
  BY <1>7 DEF Terminated, vars, program, parsed, ReportInv, Reportable
<1> QED BY <1>1, <1>2, <1>3, <1>4, <1>5, <1>6, <1>7 DEF Next, Raw, Cli

\* A rejected command line is reported whenever its result descriptor can carry
\* the report, wherever it was rejected and whatever was closed on the way.
THEOREM RejectionIsReported == Spec => []ReportedWhenPossible
<1>1. Init => ReportInv
  BY DEF Init, ReportInv
<1>2. ReportInv => ReportedWhenPossible
  BY DEF ReportInv, Reportable, ReportedWhenPossible
<1> QED BY <1>1, <1>2, ReportStep, OpenInvariant, OutcomeInvariant, PTL DEF Spec

-----------------------------------------------------------------------------
(***************************************************************************)
(* Counting.  Every argument is a flag seen for the first time or makes the *)
(* count exceed the flags seen, and anything the runner would refuse about  *)
(* the command line is of the second kind.                                  *)
(***************************************************************************)
CountInv ==
    /\ IsFiniteSet(seen) /\ count \in Nat /\ Cardinality(seen) <= count
    /\ "socket-mark" \in seen \/ mark = "none"
    /\ repeated \/ mark = "dashed" \/ (longSeen \subseteq seen /\ ~longTwice)
    /\ (repeated \/ ordinary \/ positional) => Cardinality(seen) < count

\* An argument that is a flag.
LEMMA NoteStep ==
    ASSUME CountInv, NEW name, NEW style, NEW word \in Words, Note(name, style, word),
           UNCHANGED <<ordinary, positional>>,
           \/ word = Plain /\ mark' = mark
           \/ /\ name = "socket-mark"
              /\ name \in seen \/ mark' \in MarkRead(word)
    PROVE  CountInv' /\ (name \in seen => Cardinality(seen') < count')
<1>1. /\ IsFiniteSet(seen') /\ Cardinality(seen) \in Nat
      /\ Cardinality(seen') = IF name \in seen THEN Cardinality(seen)
                                               ELSE Cardinality(seen) + 1
  BY FS_AddElement, FS_CardinalityType DEF Note, CountInv
<1>2. count \in Nat /\ count' = count + 1 /\ Cardinality(seen) <= count
  BY DEF Note, CountInv
<1>3. Cardinality(seen') <= count' /\ (name \in seen => Cardinality(seen') < count')
  BY <1>1, <1>2
<1>4. "socket-mark" \in seen' \/ mark' = "none"
  BY DEF Note, CountInv
<1>5. repeated' \/ mark' = "dashed" \/ (longSeen' \subseteq seen' /\ ~longTwice')
  <2>1. CASE repeated \/ name \in seen
    BY <2>1 DEF Note
  <2>2. CASE ~repeated /\ name \notin seen /\ word.dashes # 2
    <3>1. longNames(name, style, word) \subseteq {name}
      BY <2>2 DEF longNames
    <3>2. mark = "dashed" => mark' = "dashed"
      BY <2>2 DEF CountInv
    <3>3. mark # "dashed" => longSeen \subseteq seen /\ ~longTwice
      BY <2>2 DEF CountInv
    <3>4. word # [dashes |-> 2, name |-> name]
      BY <2>2
    <3>5. (longSeen \subseteq seen /\ ~longTwice) => (longSeen' \subseteq seen' /\ ~longTwice')
      BY <2>2, <3>1, <3>4 DEF Note, rejectDuplicateLongFlags
    <3> QED BY <3>2, <3>3, <3>5
  <2>3. CASE name \notin seen /\ word.dashes = 2
    <3>1. word # Plain
      BY <2>3, PlainHasNoDash
    <3> QED BY <2>3, <3>1 DEF MarkRead
  <2> QED BY <2>1, <2>2, <2>3
<1>6. repeated' => repeated \/ name \in seen
  BY Zenon DEF Note
<1>7. (repeated \/ ordinary \/ positional) => Cardinality(seen') < count'
  BY <1>1, <1>2 DEF CountInv
<1>8. (repeated' \/ ordinary' \/ positional') => Cardinality(seen') < count'
  BY <1>3, <1>6, <1>7, Zenon
<1> QED BY <1>1, <1>2, <1>3, <1>4, <1>5, <1>8 DEF CountInv

\* An argument that is none.
LEMMA OtherArgument ==
    ASSUME CountInv, count' = count + 1, UNCHANGED <<seen, longSeen, mark>>,
           longTwice' = longTwice, repeated' = repeated
    PROVE  CountInv' /\ Cardinality(seen') < count'
<1>1. Cardinality(seen) \in Nat
  BY FS_CardinalityType DEF CountInv
<1>2. count' \in Nat /\ Cardinality(seen') < count' /\ Cardinality(seen') <= count'
  BY <1>1 DEF CountInv
<1>3. IsFiniteSet(seen') /\ ("socket-mark" \in seen' \/ mark' = "none")
  BY DEF CountInv
<1>4. repeated' \/ mark' = "dashed" \/ (longSeen' \subseteq seen' /\ ~longTwice')
  BY Zenon DEF CountInv
<1> QED BY <1>2, <1>3, <1>4 DEF CountInv

\* The three ways in which a command line is read further by a flag.
LEMMA FlagRead ==
    ASSUME RawDescriptor \/ RawSocketMark \/ CliDescriptor \/ CliSocketMark
    PROVE  \E name \in FdFlags \cup {"socket-mark"}, style \in Styles, word \in Words :
              /\ Note(name, style, word)
              /\ \/ word = Plain /\ mark' = mark
                 \/ /\ name = "socket-mark"
                    /\ name \in seen \/ mark' \in MarkRead(word)
              /\ parser = "raw" => ~duplicateFlag(name) \/ Reject
              /\ (parser = "raw" /\ pc' = "reject") => duplicateFlag(name)
<1> USE DEF Styles
<1>1. CASE RawDescriptor \/ CliDescriptor
  <2>1. Plain \in Words
    BY DEF Words
  <2> QED BY <1>1, <2>1 DEF RawDescriptor, CliDescriptor, Reject
<1>2. CASE RawSocketMark \/ CliSocketMark
  BY <1>2 DEF RawSocketMark, CliSocketMark, NoteMark, Reject, duplicateFlag
<1> QED BY <1>1, <1>2

\* Every step keeps the count.
LEMMA CountStep == CountInv /\ [Next]_vars => CountInv'
<1> SUFFICES ASSUME CountInv, [Next]_vars PROVE CountInv'
  OBVIOUS
<1>1. CASE RawDescriptor \/ RawSocketMark \/ CliDescriptor \/ CliSocketMark
  <2>1. PICK name \in FdFlags \cup {"socket-mark"}, style \in Styles, word \in Words :
          /\ Note(name, style, word)
          /\ \/ word = Plain /\ mark' = mark
             \/ /\ name = "socket-mark"
                /\ name \in seen \/ mark' \in MarkRead(word)
    BY <1>1, FlagRead
  <2>2. UNCHANGED <<ordinary, positional>>
    BY <1>1 DEF RawDescriptor, RawSocketMark, CliDescriptor, CliSocketMark
  <2> QED BY <2>1, <2>2, NoteStep
<1>2. CASE RawReject \/ CliOrdinary \/ CliUsage
  BY <1>2, OtherArgument DEF RawReject, CliOrdinary, CliUsage, elements
<1>3. CASE RawEnd \/ CliEnd
  <2>1. UNCHANGED parsed
    BY <1>3 DEF RawEnd, CliEnd
  <2> QED BY <2>1 DEF parsed, elements, CountInv
<1>4. CASE \/ OpenDescriptor \/ Opened \/ Collect \/ writeInvalidInvocationFailureFD
           \/ Validate \/ Terminated \/ UNCHANGED vars
  <2>1. UNCHANGED parsed
    BY <1>4, ParsedFrame
  <2> QED BY <2>1 DEF parsed, elements, CountInv
<1> QED BY <1>1, <1>2, <1>3, <1>4 DEF Next

\* The invariant holds throughout.
LEMMA CountInvariant == Spec => []CountInv
<1>1. Init => CountInv
  BY FS_EmptySet DEF Init, CountInv
<1> QED BY <1>1, CountStep, PTL DEF Spec

-----------------------------------------------------------------------------
(***************************************************************************)
(* The mark.  On Linux nothing of a faultless command line is rejected      *)
(* before the mark is looked at.                                            *)
(***************************************************************************)
Faultless == count = Cardinality(seen) /\ DescriptorsFit

MarkInv ==
    /\ (linux /\ pc \in {"leak", "reject"}) => ~Faultless
    /\ (outcome = "failed" /\ linux /\ Faultless
          /\ (mark = "invalid" \/ (mark = "dashed" /\ ~longTwice))) =>
         record.detail = "socket_mark_invalid"

\* The parsers reject no faultless command line.
LEMMA ParseRejects ==
    ASSUME CountInv, Raw \/ Cli, pc' = "reject"
    PROVE  ~Faultless'
<1>1. CASE RawDescriptor \/ RawSocketMark
  <2>0. parser = "raw" /\ UNCHANGED <<ordinary, positional>>
    BY <1>1 DEF RawDescriptor, RawSocketMark
  <2>1. PICK name \in FdFlags \cup {"socket-mark"}, style \in Styles, word \in Words :
          /\ Note(name, style, word)
          /\ \/ word = Plain /\ mark' = mark
             \/ /\ name = "socket-mark"
                /\ name \in seen \/ mark' \in MarkRead(word)
          /\ duplicateFlag(name)
    BY <1>1, <2>0, FlagRead
  <2>2. UNCHANGED <<ordinary, positional>>
    BY <2>0
  <2>3. Cardinality(seen') < count' /\ CountInv'
    BY <2>1, <2>2, NoteStep DEF duplicateFlag
  <2>4. Cardinality(seen') \in Nat /\ count' \in Nat
    BY <2>3, FS_CardinalityType DEF CountInv
  <2> QED BY <2>3, <2>4 DEF Faultless
<1>2. CASE RawReject
  <2>1. Cardinality(seen') < count' /\ CountInv'
    BY <1>2, OtherArgument DEF RawReject, elements
  <2>2. Cardinality(seen') \in Nat /\ count' \in Nat
    BY <2>1, FS_CardinalityType DEF CountInv
  <2> QED BY <2>1, <2>2 DEF Faultless
<1>3. CASE RawEnd
  <2>1. \E f \in FdFlags : values'[f] = "unset"
    BY <1>3 DEF RawEnd, parsed
  <2> QED BY <2>1, OnlyPipesFit DEF Faultless, DescriptorsFit
<1>4. CASE Cli
  BY <1>4 DEF Cli, CliDescriptor, CliSocketMark, CliOrdinary, CliUsage, CliEnd
<1> QED BY <1>1, <1>2, <1>3, <1>4 DEF Raw

\* Neither does openConstrainedFiles.
LEMMA OpenRejects ==
    ASSUME OpenInv, OpenDescriptor, linux, pc' \in {"leak", "reject"}
    PROVE  ~Faultless'
<1>1. pc = "open" /\ values' = values /\ shut = {}
  BY DEF OpenDescriptor, parsed, OpenInv
<1>2. PICK f \in FdFlags :
        /\ spec(f)
        /\ \/ /\ ~validateConstrainedDescriptor(f, values[f])
              /\ shut' = shut \cup closeOnReturn(values[f])
           \/ ~wellFormed(values[f])
  BY <1>1 DEF OpenDescriptor, Reject
<1>3. CASE /\ ~validateConstrainedDescriptor(f, values[f])
           /\ shut' = shut \cup closeOnReturn(values[f])
  BY <1>1, <1>3 DEF closeOnReturn, Faultless, DescriptorsFit
<1>4. CASE values[f] \in {"unset", "low"}
  BY <1>1, <1>4, OnlyPipesFit DEF Faultless, DescriptorsFit
<1>5. CASE values[f] \in OpenedFds
  <2>1. PICK g \in opened : values[g] = values[f]
    BY <1>5 DEF OpenedFds
  <2>2. g # f /\ g \in FdFlags
    BY <1>2, <2>1 DEF spec, OpenInv
  <2> QED BY <1>1, <2>1, <2>2 DEF Faultless, DescriptorsFit
<1> QED BY <1>2, <1>3, <1>4, <1>5 DEF wellFormed

\* Every step keeps an invalid mark on its way to the launcher.
LEMMA MarkStep == OpenInv /\ OutcomeInv /\ CountInv /\ MarkInv /\ [Next]_vars => MarkInv'
<1> SUFFICES ASSUME OpenInv, OutcomeInv, CountInv, MarkInv, [Next]_vars PROVE MarkInv'
  OBVIOUS
<1>1. CASE Raw \/ Cli
  <2>1. pc' # "leak" /\ outcome' # "failed"
    <3>1. outcome = "none" \/ pc' = "done"
      BY <1>1, ParseFrame DEF OutcomeInv
    <3> QED BY <1>1, <3>1, ParseFrame DEF OutcomeInv
  <2>2. pc' = "reject" => ~Faultless'
    BY <1>1, ParseRejects
  <2> QED BY <2>1, <2>2 DEF MarkInv
<1>2. CASE OpenDescriptor
  <2>1. outcome' = "none" /\ linux' = linux
    BY <1>2 DEF OpenDescriptor, OutcomeInv, program
  <2>2. (linux /\ pc' \in {"leak", "reject"}) => ~Faultless'
    BY <1>2, OpenRejects
  <2> QED BY <2>1, <2>2 DEF MarkInv
<1>3. CASE Opened
  BY <1>3 DEF Opened, OutcomeInv, MarkInv
<1>4. CASE Collect
  <2>1. /\ pc = "leak" /\ outcome' = "none" /\ linux' = linux /\ shut \subseteq shut'
        /\ UNCHANGED <<values, count, seen>>
    BY <1>4 DEF Collect, Reject, OutcomeInv, program, parsed
  <2>2. Faultless' => Faultless
    BY <2>1 DEF Faultless, DescriptorsFit
  <2> QED BY <2>1, <2>2 DEF MarkInv
<1>5. CASE writeInvalidInvocationFailureFD
  <2>1. /\ pc = "reject" /\ pc' = "done" /\ linux' = linux
        /\ UNCHANGED <<values, count, seen, shut>>
    BY <1>5 DEF writeInvalidInvocationFailureFD, program, parsed
  <2>2. Faultless' => Faultless
    BY <2>1 DEF Faultless, DescriptorsFit
  <2> QED BY <2>1, <2>2 DEF MarkInv
<1>6. CASE Validate
  <2>1. /\ pc' = "done" /\ linux' = linux
        /\ UNCHANGED <<values, count, seen, shut, mark, longTwice>>
    BY <1>6 DEF Validate, program, parsed, elements
  <2>2. Faultless' => Faultless
    BY <2>1 DEF Faultless, DescriptorsFit
  <2>3. CASE validateConstrainedInvocation /\ Fail(constrainedSocketControl)
    <3>1. record'.detail = constrainedSocketControl
      BY <2>3 DEF Fail
    <3>2. mark \in {"invalid", "dashed"} => constrainedSocketControl = "socket_mark_invalid"
      BY DEF constrainedSocketControl
    <3> QED BY <2>1, <3>1, <3>2 DEF MarkInv
  <2>4. CASE ~validateConstrainedInvocation
    <3>1. CASE ordinary \/ positional \/ repeated
      <4>1. Cardinality(seen) < count /\ Cardinality(seen) \in Nat /\ count \in Nat
        BY <3>1, FS_CardinalityType DEF CountInv
      <4>2. ~Faultless
        BY <4>1 DEF Faultless
      <4> QED BY <2>1, <2>2, <4>2 DEF MarkInv
    <3>2. CASE longTwice /\ mark = "dashed"
      BY <2>1, <3>2 DEF MarkInv
    <3> QED BY <2>4, <3>1, <3>2 DEF validateConstrainedInvocation, CountInv
  <2>5. CASE outcome' = "run"
    BY <2>1, <2>5 DEF MarkInv
  <2> QED BY <1>6, <2>3, <2>4, <2>5 DEF Validate
<1>7. CASE Terminated \/ UNCHANGED vars
  BY <1>7 DEF Terminated, vars, program, parsed, elements, MarkInv, Faultless, DescriptorsFit
<1> QED BY <1>1, <1>2, <1>3, <1>4, <1>5, <1>6, <1>7 DEF Next, Raw, Cli

\* On a command line with no other fault, of any length and in any order, an
\* invalid mark is reported as one.
THEOREM BadMarkIsReported == Spec => []InvalidMarkReported
<1>1. Init => MarkInv
  BY DEF Init, MarkInv
<1>2. MarkInv => InvalidMarkReported
  BY DEF MarkInv, Faultless, InvalidMarkReported
<1> QED BY <1>1, <1>2, MarkStep, OpenInvariant, OutcomeInvariant, CountInvariant, PTL DEF Spec

-----------------------------------------------------------------------------
(***************************************************************************)
(* Duplicates.  DuplicatesRejected is refuted by a flag that the ordinary   *)
(* parser reads twice; the raw parser stops at the first repetition, and    *)
(* execute refuses a name that stands twice, with two dashes, before the    *)
(* first "--".                                                              *)
(***************************************************************************)
DuplicateExplained == ~DuplicatesRejected => parser # "raw" /\ ~longTwice

DuplicateInv ==
    /\ (parser = "raw" /\ repeated) => pc \in {"reject", "done"}
    /\ outcome = "run" => ~longTwice
    /\ DuplicateExplained

\* A step that starts nothing is answerable only for the raw parser.
LEMMA NothingStarted ==
    ASSUME outcome' # "run", (parser' = "raw" /\ repeated') => pc' \in {"reject", "done"}
    PROVE  DuplicateInv'
BY DEF DuplicateInv, DuplicateExplained, DuplicatesRejected

\* Every step keeps it.
LEMMA DuplicateStep == OutcomeInv /\ DuplicateInv /\ [Next]_vars => DuplicateInv'
<1> SUFFICES ASSUME OutcomeInv, DuplicateInv, [Next]_vars PROVE DuplicateInv'
  OBVIOUS
<1>1. CASE RawDescriptor \/ RawSocketMark
  <2>2. pc = "parse" /\ outcome' # "run" /\ parser' = parser /\ parser = "raw"
    BY <1>1 DEF RawDescriptor, RawSocketMark, program, OutcomeInv
  <2>1. PICK name, style, word : Note(name, style, word) /\ (~duplicateFlag(name) \/ Reject)
    BY <1>1, <2>2, FlagRead
  <2>3. (parser' = "raw" /\ repeated') => pc' = "reject"
    BY <2>1, <2>2 DEF Note, duplicateFlag, Reject, DuplicateInv
  <2> QED BY <2>2, <2>3, NothingStarted
<1>2. CASE RawReject \/ RawEnd
  <2>1. pc = "parse" /\ outcome' # "run" /\ UNCHANGED <<parser, repeated>>
    BY <1>2 DEF RawReject, RawEnd, program, parsed, OutcomeInv
  <2>2. ~(parser = "raw" /\ repeated)
    BY <2>1 DEF DuplicateInv
  <2> QED BY <2>1, <2>2, NothingStarted
<1>3. CASE Cli
  <2>1. parser' = "cli"
    BY <1>3 DEF Cli, CliDescriptor, CliSocketMark, CliOrdinary, CliUsage, CliEnd, program
  <2>2. outcome' # "run"
    <3>1. outcome # "run"
      BY <1>3, ParseFrame DEF OutcomeInv
    <3> QED BY <1>3, <3>1, ParseFrame
  <2> QED BY <2>1, <2>2, NothingStarted
<1>4. CASE OpenDescriptor \/ Opened \/ Collect
  <2>1. pc \notin {"reject", "done"} /\ outcome' = outcome /\ UNCHANGED <<parser, repeated>>
    BY <1>4, ParsedFrame DEF OpenDescriptor, Opened, Collect, parsed
  <2>2. ~(parser = "raw" /\ repeated) /\ outcome' # "run"
    BY <2>1 DEF DuplicateInv, OutcomeInv
  <2> QED BY <2>1, <2>2, NothingStarted
<1>5. CASE writeInvalidInvocationFailureFD
  BY <1>5, NothingStarted DEF writeInvalidInvocationFailureFD
<1>6. CASE Validate
  <2>1. /\ pc = "validate" /\ UNCHANGED <<parser, repeated, longTwice>>
        /\ outcome' = "run" => ~longTwice
    BY <1>6, ParsedFrame DEF Validate, Fail, parsed, elements, validateConstrainedInvocation
  <2>2. ~(parser = "raw" /\ repeated)
    BY <2>1 DEF DuplicateInv
  <2> QED BY <2>1, <2>2 DEF DuplicateInv, DuplicateExplained, DuplicatesRejected
<1>7. CASE Terminated \/ UNCHANGED vars
  <2>1. UNCHANGED <<pc, outcome, parser, repeated, longTwice>>
    BY <1>7, ParsedFrame DEF Terminated, vars, parsed, elements
  <2> QED BY <2>1 DEF DuplicateInv, DuplicateExplained, DuplicatesRejected
<1> QED BY <1>1, <1>2, <1>3, <1>4, <1>5, <1>6, <1>7 DEF Next, Raw, Cli

\* A constrained run starts on a repeated flag only if the ordinary parser read
\* the command line, and only if no name stands twice with two dashes before the
\* first "--" that rejectDuplicateLongFlags meets, a value of --socket-mark
\* included: the repetition has one dash, or stands behind such a value.
THEOREM DuplicatesOnlyBehindCliParser == Spec => []DuplicateExplained
<1>1. Init => DuplicateInv
  BY DEF Init, DuplicateInv, DuplicateExplained, DuplicatesRejected
<1>2. DuplicateInv => DuplicateExplained
  BY DEF DuplicateInv
<1> QED BY <1>1, <1>2, DuplicateStep, OutcomeInvariant, PTL DEF Spec

-----------------------------------------------------------------------------
(***************************************************************************)
(* Types.                                                                   *)
(***************************************************************************)
ProgressOK ==
    /\ linux \in BOOLEAN /\ parser \in {"raw", "cli"}
    /\ pc \in {"parse", "open", "leak", "reject", "validate", "done"}
    /\ outcome \in {"none", "run", "ordinary", "usage", "failed"}
FlagsOK ==
    /\ count \in 0..MaxArgs
    /\ values \in [FdFlags -> Values]
    /\ seen \subseteq FdFlags \cup {"socket-mark"}
    /\ longSeen \subseteq FdFlags \cup {"socket-mark", "other"}
    /\ mark \in {"none", "valid", "invalid", "dashed"}
SwitchesOK == {repeated, longTwice, ended, triggered, ordinary, positional} \subseteq BOOLEAN
RecordOK == record \in [class : {"none", "invalid_invocation"},
                        detail : {"", "socket_mark_invalid", "socket_mark_unsupported"}]
FilesOK == opened \subseteq FdFlags /\ shut \subseteq Values

\* The parts are the whole.
LEMMA TypeParts == TypeOK <=> ProgressOK /\ FlagsOK /\ SwitchesOK /\ RecordOK /\ FilesOK
BY DEF TypeOK, ProgressOK, FlagsOK, SwitchesOK, RecordOK, FilesOK

\* The places of the program keep their type.
LEMMA ProgressStep == ProgressOK /\ [Next]_vars => ProgressOK'
<1> SUFFICES ASSUME ProgressOK, [Next]_vars PROVE ProgressOK'
  OBVIOUS
<1> USE DEF program, Reject
<1>0. UNCHANGED <<linux, parser>>
  BY ParsedFrame DEF Next, RawDescriptor, RawSocketMark, RawReject, RawEnd, CliDescriptor,
                     CliSocketMark, CliOrdinary, CliUsage, CliEnd
<1>1. CASE Raw \/ Cli
  BY <1>0, <1>1, ParseFrame DEF ProgressOK
<1>2. CASE OpenDescriptor \/ Opened \/ Collect
  BY <1>0, <1>2 DEF OpenDescriptor, Opened, Collect, ProgressOK
<1>3. CASE writeInvalidInvocationFailureFD \/ Validate
  BY <1>0, <1>3 DEF writeInvalidInvocationFailureFD, Validate, Fail, ProgressOK
<1>4. CASE Terminated \/ UNCHANGED vars
  BY <1>4 DEF Terminated, vars, ProgressOK
<1> QED BY <1>1, <1>2, <1>3, <1>4 DEF Next, Raw, Cli

\* What has been read keeps its type.
LEMMA FlagsStep == FlagsOK /\ [Next]_vars => FlagsOK'
<1> SUFFICES ASSUME FlagsOK, [Next]_vars PROVE FlagsOK'
  OBVIOUS
<1>0. ASSUME NEW name \in FdFlags \cup {"socket-mark"}, NEW style \in Styles,
             NEW word \in Words, Note(name, style, word)
      PROVE  /\ count' \in 0..MaxArgs /\ seen' \subseteq FdFlags \cup {"socket-mark"}
             /\ longSeen' \subseteq FdFlags \cup {"socket-mark", "other"}
  <2>1. longNames(name, style, word) \subseteq FdFlags \cup {"socket-mark", "other"}
    <3>1. ASSUME word.dashes = 2, word # EndOfFlags
          PROVE  word.name \in FdFlags \cup {"socket-mark", "other"}
      <4>1. word # Plain
        BY <3>1, PlainHasNoDash
      <4>2. word \in [dashes : {1, 2}, name : FdFlags \cup {"socket-mark", "other", ""}]
        BY <4>1 DEF Words
      <4>3. word = [dashes |-> word.dashes, name |-> word.name]
        BY <4>2
      <4> QED BY <3>1, <4>2, <4>3 DEF EndOfFlags
    <3> QED BY <3>1 DEF longNames
  <2>2. count' \in 0..MaxArgs /\ seen' \subseteq FdFlags \cup {"socket-mark"}
    BY <1>0, InvocationConstants DEF Note, FlagsOK
  <2> QED BY <1>0, <2>1, <2>2 DEF Note, rejectDuplicateLongFlags, FlagsOK
<1>1. CASE RawDescriptor \/ CliDescriptor
  <2>1. PICK f \in FdFlags, v \in Fds, style \in Styles :
          Note(f, style, Plain) /\ values' \in {values, [values EXCEPT ![f] = v]}
    BY <1>1 DEF RawDescriptor, CliDescriptor, Styles
  <2>2. mark' = mark /\ Plain \in Words
    BY <1>1 DEF RawDescriptor, CliDescriptor, Words
  <2>3. values' \in [FdFlags -> Values]
    BY <2>1 DEF FlagsOK, Values
  <2> QED BY <1>0, <2>1, <2>2, <2>3 DEF FlagsOK
<1>2. CASE RawSocketMark \/ CliSocketMark
  <2>1. PICK style \in Styles, word \in Words : Note("socket-mark", style, word)
    BY <1>2 DEF RawSocketMark, CliSocketMark, NoteMark, Styles
  <2>2. values' = values /\ mark' \in {"none", "valid", "invalid", "dashed"}
    BY <1>2 DEF RawSocketMark, CliSocketMark, MarkRead, FlagsOK
  <2> QED BY <1>0, <2>1, <2>2 DEF FlagsOK
<1>3. CASE RawReject \/ CliOrdinary \/ CliUsage
  <2>1. /\ count < MaxArgs /\ count' = count + 1
        /\ UNCHANGED <<values, seen, longSeen, mark>>
    BY <1>3 DEF RawReject, CliOrdinary, CliUsage, elements
  <2> QED BY <2>1, InvocationConstants DEF FlagsOK
<1>4. CASE RawEnd \/ CliEnd
  BY <1>4 DEF RawEnd, CliEnd, parsed, elements, FlagsOK
<1>5. CASE \/ OpenDescriptor \/ Opened \/ Collect \/ writeInvalidInvocationFailureFD
           \/ Validate \/ Terminated \/ UNCHANGED vars
  BY <1>5, ParsedFrame DEF parsed, elements, FlagsOK
<1> QED BY <1>1, <1>2, <1>3, <1>4, <1>5 DEF Next

\* The switches stay Boolean.
LEMMA SwitchesStep == SwitchesOK /\ [Next]_vars => SwitchesOK'
<1> SUFFICES ASSUME SwitchesOK, [Next]_vars PROVE SwitchesOK'
  OBVIOUS
<1>1. CASE RawDescriptor \/ RawSocketMark \/ CliDescriptor \/ CliSocketMark
  <2>1. PICK name, style, word : Note(name, style, word)
    BY <1>1, FlagRead
  <2>2. {repeated', longTwice', ended', triggered'} \subseteq BOOLEAN
    BY <2>1 DEF Note, rejectDuplicateLongFlags, rawConstrainedRequested, SwitchesOK
  <2>3. UNCHANGED <<ordinary, positional>>
    BY <1>1 DEF RawDescriptor, RawSocketMark, CliDescriptor, CliSocketMark
  <2> QED BY <2>2, <2>3 DEF SwitchesOK
<1>2. CASE RawReject \/ CliOrdinary \/ CliUsage
  BY <1>2 DEF RawReject, CliOrdinary, CliUsage, elements, SwitchesOK
<1>3. CASE RawEnd \/ CliEnd
  BY <1>3 DEF RawEnd, CliEnd, parsed, elements, SwitchesOK
<1>4. CASE \/ OpenDescriptor \/ Opened \/ Collect \/ writeInvalidInvocationFailureFD
           \/ Validate \/ Terminated \/ UNCHANGED vars
  BY <1>4, ParsedFrame DEF parsed, elements, SwitchesOK
<1> QED BY <1>1, <1>2, <1>3, <1>4 DEF Next

\* Every record is of the fixed vocabulary.
LEMMA RecordStep == RecordOK /\ [Next]_vars => RecordOK'
<1> SUFFICES ASSUME RecordOK, [Next]_vars PROVE RecordOK'
  OBVIOUS
<1>1. CASE Raw \/ Cli
  BY <1>1, ParseFrame DEF RecordOK
<1>2. CASE OpenDescriptor \/ Opened \/ Collect \/ Terminated \/ UNCHANGED vars
  BY <1>2 DEF OpenDescriptor, Opened, Collect, Terminated, vars, RecordOK
<1>3. CASE writeInvalidInvocationFailureFD
  BY <1>3 DEF writeInvalidInvocationFailureFD, NoRecord, RecordOK
<1>4. CASE Validate
  <2>1. constrainedSocketControl \in {"", "socket_mark_invalid", "socket_mark_unsupported"}
    BY DEF constrainedSocketControl
  <2>2. ASSUME NEW detail \in {"", "socket_mark_invalid", "socket_mark_unsupported"}, Fail(detail)
        PROVE  RecordOK'
    BY <2>2 DEF Fail, RecordOK
  <2>3. CASE UNCHANGED record
    BY <2>3 DEF RecordOK
  <2> QED BY <1>4, <2>1, <2>2, <2>3 DEF Validate
<1> QED BY <1>1, <1>2, <1>3, <1>4 DEF Next, Raw, Cli

\* The descriptors keep their type.
LEMMA FilesStep == FlagsOK /\ FilesOK /\ [Next]_vars => FilesOK'
<1> SUFFICES ASSUME FlagsOK, FilesOK, [Next]_vars PROVE FilesOK'
  OBVIOUS
<1>0. OpenedFds \subseteq Values /\ \A f \in FdFlags : closeOnReturn(values[f]) \subseteq Values
  BY DEF OpenedFds, closeOnReturn, FlagsOK, FilesOK
<1>1. CASE Raw \/ Cli
  BY <1>1, ParseFrame DEF FilesOK
<1>2. CASE OpenDescriptor
  <2>1. PICK f \in FdFlags :
          opened' \in {opened, opened \cup {f}}
            /\ shut' \in {shut, shut \cup closeOnReturn(values[f])}
    BY <1>2 DEF OpenDescriptor
  <2> QED BY <1>0, <2>1 DEF FilesOK
<1>3. CASE Collect
  BY <1>0, <1>3 DEF Collect, FilesOK
<1>4. CASE Opened \/ writeInvalidInvocationFailureFD \/ Validate
  BY <1>4 DEF Opened, writeInvalidInvocationFailureFD, Validate, FilesOK
<1>5. CASE Terminated \/ UNCHANGED vars
  BY <1>5 DEF Terminated, vars, FilesOK
<1> QED BY <1>1, <1>2, <1>3, <1>4, <1>5 DEF Next, Raw, Cli

\* Every variable keeps its type, and every record is of the fixed vocabulary.
THEOREM TypeCorrect == Spec => []TypeOK
<1>1. Init => TypeOK
  <2> SUFFICES ASSUME Init PROVE TypeOK
    OBVIOUS
  <2>1. FlagsOK /\ FilesOK
    BY InvocationConstants DEF Init, FlagsOK, FilesOK, Values
  <2>2. ProgressOK /\ SwitchesOK
    BY DEF Init, ProgressOK, SwitchesOK
  <2>3. RecordOK
    BY DEF Init, NoRecord, RecordOK
  <2> QED BY <2>1, <2>2, <2>3, TypeParts
<1>2. TypeOK /\ [Next]_vars => TypeOK'
  <2> SUFFICES ASSUME TypeOK, [Next]_vars PROVE TypeOK'
    OBVIOUS
  <2>1. (ProgressOK /\ FlagsOK /\ SwitchesOK /\ RecordOK /\ FilesOK)'
    BY TypeParts, ProgressStep, FlagsStep, SwitchesStep, RecordStep, FilesStep
  <2> QED BY <2>1 DEF TypeOK, ProgressOK, FlagsOK, SwitchesOK, RecordOK, FilesOK
<1> QED BY <1>1, <1>2, PTL DEF Spec

-----------------------------------------------------------------------------
(***************************************************************************)
(* The readers side by side.  A step of LauncherInputs is one of a single   *)
(* reader, so each of them behaves as it does alone.                        *)
(***************************************************************************)
ObjectProofs == INSTANCE ConstrainedInputsProofs
BundleProofs == INSTANCE CABundleProofs WITH verdict <- bundleVerdict
MarkProofs == INSTANCE SocketMarkProofs

\* No reader is disturbed by another.
LEMMA ReadersApart == InputsSpec => Spec /\ Objects!Spec /\ Bundles!Spec /\ Marks!Spec
<1>1. InputsInit => Init /\ Objects!Init /\ Bundles!Init /\ Marks!Init
  BY DEF InputsInit
<1> USE DEF InputsNext, inputsVars, objectVars, bundleVars,
            InvocationStep, ObjectsStep, BundlesStep, MarksStep
<1>2. [InputsNext]_inputsVars => [Next]_vars
  OBVIOUS
<1>3. [InputsNext]_inputsVars => [Objects!Next]_(Objects!vars)
  BY DEF Objects!vars
<1>4. [InputsNext]_inputsVars => [Bundles!Next]_(Bundles!vars)
  BY DEF Bundles!vars
<1>5. [InputsNext]_inputsVars => [Marks!Next]_raw
  OBVIOUS
<1> QED BY <1>1, <1>2, <1>3, <1>4, <1>5, PTL DEF InputsSpec, Spec, Objects!Spec, Bundles!Spec, Marks!Spec

\* The decoder of ConstrainedInputsProofs is the one of LauncherInputs.
LEMMA SameDecoder ==
    /\ Objects!Init => ObjectProofs!Init
    /\ [Objects!Next]_(Objects!vars) => [ObjectProofs!Next]_(ObjectProofs!vars)
<1>1. Objects!Init <=> ObjectProofs!Init
  BY DEF Objects!Init, ObjectProofs!Init, Objects!Kinds, ObjectProofs!Kinds,
         Objects!required, ObjectProofs!required, Objects!allowed, ObjectProofs!allowed,
         Objects!Given, ObjectProofs!Given
<1>2. [Objects!Next]_(Objects!vars) <=> [ObjectProofs!Next]_(ObjectProofs!vars)
  BY DEF Objects!Next, ObjectProofs!Next, Objects!vars, ObjectProofs!vars,
         Objects!Kinds, ObjectProofs!Kinds, Objects!required, ObjectProofs!required,
         Objects!allowed, ObjectProofs!allowed, Objects!Lexemes, ObjectProofs!Lexemes,
         Objects!Values, ObjectProofs!Values, Objects!Field, ObjectProofs!Field,
         Objects!Mark, ObjectProofs!Mark, Objects!Read, ObjectProofs!Read,
         Objects!EndOfInput, ObjectProofs!EndOfInput, Objects!Decided, ObjectProofs!Decided,
         Objects!Space, ObjectProofs!Space, Objects!Open, ObjectProofs!Open,
         Objects!Close, ObjectProofs!Close, Objects!KeyValue, ObjectProofs!KeyValue,
         Objects!Stop, ObjectProofs!Stop, Objects!Continue, ObjectProofs!Continue,
         Objects!parse, ObjectProofs!parse, Objects!takes, ObjectProofs!takes
<1> QED BY <1>1, <1>2

\* And so are its formats.
LEMMA SameFormats ==
    /\ ObjectProofs!ObjectsAcceptedExactly => Objects!ObjectsAcceptedExactly
    /\ ObjectProofs!DetailNamesFirstFault => Objects!DetailNamesFirstFault
    /\ ObjectProofs!TypeOK => Objects!TypeOK
BY DEF Objects!ObjectsAcceptedExactly, ObjectProofs!ObjectsAcceptedExactly,
       Objects!DetailNamesFirstFault, ObjectProofs!DetailNamesFirstFault,
       Objects!TypeOK, ObjectProofs!TypeOK, Objects!Kinds, ObjectProofs!Kinds,
       Objects!Values, ObjectProofs!Values, Objects!IsObject, ObjectProofs!IsObject,
       Objects!Once, ObjectProofs!Once, Objects!Known, ObjectProofs!Known,
       Objects!Complete, ObjectProofs!Complete, Objects!Valid, ObjectProofs!Valid,
       Objects!Positions, ObjectProofs!Positions, Objects!At, ObjectProofs!At,
       Objects!allowed, ObjectProofs!allowed, Objects!required, ObjectProofs!required,
       Objects!takes, ObjectProofs!takes, Objects!Mark, ObjectProofs!Mark

\* The bundles of CABundleProofs are those of LauncherInputs.
LEMMA SameBundles ==
    /\ Bundles!Init => BundleProofs!Init
    /\ [Bundles!Next]_(Bundles!vars) => [BundleProofs!Next]_(BundleProofs!vars)
    /\ BundleProofs!BundlesAcceptedExactly => Bundles!BundlesAcceptedExactly
    /\ BundleProofs!TrustsAllAndOnlyCAs => Bundles!TrustsAllAndOnlyCAs
<1> USE DEF Bundles!Refused, BundleProofs!Refused, Bundles!WellFormed, BundleProofs!WellFormed,
            Bundles!Blocks, BundleProofs!Blocks, Bundles!vars, BundleProofs!vars,
            Bundles!Certificates, BundleProofs!Certificates, Bundles!Tolerated, BundleProofs!Tolerated,
            Bundles!Cardinality, BundleProofs!Cardinality
<1>1. Bundles!Init => BundleProofs!Init
  BY DEF Bundles!Init, BundleProofs!Init
<1>2. [Bundles!Next]_(Bundles!vars) => [BundleProofs!Next]_(BundleProofs!vars)
  BY DEF Bundles!Next, BundleProofs!Next, Bundles!ReadBlock, BundleProofs!ReadBlock,
         Bundles!EndOfBundle, BundleProofs!EndOfBundle, Bundles!Decided, BundleProofs!Decided,
         Bundles!Decide, BundleProofs!Decide, Bundles!pemDecode, BundleProofs!pemDecode,
         Bundles!withinLimit, BundleProofs!withinLimit
<1>3. BundleProofs!BundlesAcceptedExactly => Bundles!BundlesAcceptedExactly
  BY DEF Bundles!BundlesAcceptedExactly, BundleProofs!BundlesAcceptedExactly
<1>4. BundleProofs!TrustsAllAndOnlyCAs => Bundles!TrustsAllAndOnlyCAs
  BY DEF Bundles!TrustsAllAndOnlyCAs, BundleProofs!TrustsAllAndOnlyCAs
<1> QED BY <1>1, <1>2, <1>3, <1>4

\* The invocation and the decoder of the JSON objects keep their types.
THEOREM InputsTypeCorrect == InputsSpec => []InputsTypeOK
<1>1. TypeOK /\ ObjectProofs!TypeOK => InputsTypeOK
  BY SameFormats DEF InputsTypeOK
<1> QED BY <1>1, ReadersApart, SameDecoder, TypeCorrect, ObjectProofs!TypeCorrect, PTL
           DEF Objects!Spec, ObjectProofs!Spec

\* strictJSONObject and parseCredentials accept an input of any length exactly
\* when it is one object with every required field, none twice and none unknown,
\* whose values their consumers take.
THEOREM ObjectsAreAccepted == InputsSpec => []ObjectsAcceptedExactly
<1>1. ObjectProofs!ObjectsAcceptedExactly => ObjectsAcceptedExactly
  BY SameFormats DEF ObjectsAcceptedExactly
<1> QED BY <1>1, ReadersApart, SameDecoder, ObjectProofs!ObjectsAccepted, PTL
           DEF Objects!Spec, ObjectProofs!Spec

\* The failure detail of an answer of PIA names its first fault.
THEOREM DetailsNameFirstFault == InputsSpec => []DetailNamesFirstFault
<1>1. ObjectProofs!DetailNamesFirstFault => DetailNamesFirstFault
  BY SameFormats DEF DetailNamesFirstFault
<1> QED BY <1>1, ReadersApart, SameDecoder, ObjectProofs!FirstFaultNamed, PTL
           DEF Objects!Spec, ObjectProofs!Spec

\* parseConstrainedCABundle accepts a bundle of any number of blocks exactly when
\* it is clean, up to the text that encoding/pem skips.
THEOREM BundlesAreAccepted == InputsSpec => []BundlesAcceptedExactly
<1>1. BundleProofs!Spec => []BundleProofs!BundlesAcceptedExactly
  BY InputConstants, BundleProofs!CleanBundlesAccepted
<1>2. BundleProofs!BundlesAcceptedExactly => BundlesAcceptedExactly
  BY SameBundles DEF BundlesAcceptedExactly
<1> QED BY <1>1, <1>2, ReadersApart, SameBundles, PTL DEF Bundles!Spec, BundleProofs!Spec

\* The pool of an accepted bundle holds all its CA certificates and no other.
THEOREM PoolsTrustTheBundle == InputsSpec => []TrustsAllAndOnlyCAs
<1>1. BundleProofs!Spec => []BundleProofs!TrustsAllAndOnlyCAs
  BY InputConstants, BundleProofs!PoolIsTheBundle
<1>2. BundleProofs!TrustsAllAndOnlyCAs => TrustsAllAndOnlyCAs
  BY SameBundles DEF TrustsAllAndOnlyCAs
<1> QED BY <1>1, <1>2, ReadersApart, SameBundles, PTL DEF Bundles!Spec, BundleProofs!Spec

\* The marks of SocketMarkProofs are those of LauncherInputs.
LEMMA SameMarks ==
    /\ Marks!Init => MarkProofs!Init
    /\ [Marks!Next]_raw => [MarkProofs!Next]_raw
    /\ MarkProofs!ParsesExactly => Marks!ParsesExactly
<1>1. Marks!Init <=> MarkProofs!Init
  BY DEF Marks!Init, MarkProofs!Init
<1>2. [Marks!Next]_raw <=> [MarkProofs!Next]_raw
  BY DEF Marks!Next, MarkProofs!Next, Marks!Type, MarkProofs!Type, Marks!Typed, MarkProofs!Typed
<1>3. MarkProofs!ParsesExactly <=> Marks!ParsesExactly
  BY DEF Marks!ParsesExactly, MarkProofs!ParsesExactly, Marks!Marks, MarkProofs!Marks,
         Marks!Spellings, MarkProofs!Spellings, Marks!Digits, MarkProofs!Digits,
         Marks!parseSocketMark, MarkProofs!parseSocketMark, Marks!inRange, MarkProofs!inRange,
         Marks!ParseUint, MarkProofs!ParseUint, Marks!X, MarkProofs!X
<1> QED BY <1>1, <1>2, <1>3

\* parseSocketMark returns a mark exactly for its spellings, in decimal or behind
\* 0x, and the mark they spell, whatever the width and the length.
THEOREM MarksAreParsed == InputsSpec => []MarksParsedExactly
<1>1. MarkProofs!Spec => []MarkProofs!ParsesExactly
  BY InputConstants, MarkProofs!MarksAreParsed
<1>2. MarkProofs!ParsesExactly => MarksParsedExactly
  BY SameMarks DEF MarksParsedExactly
<1> QED BY <1>1, <1>2, ReadersApart, SameMarks, PTL DEF Marks!Spec, MarkProofs!Spec
=============================================================================
