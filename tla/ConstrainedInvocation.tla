------------------------ MODULE ConstrainedInvocation ------------------------
(***************************************************************************)
(* From the command line to a running constrainedRunner (src/main.go,       *)
(* src/constrained.go, src/socket_mark.go, src/constrained_descriptor_*.go):*)
(* which of the two parsers takes the command line, what each accepts, the  *)
(* opening and validation of the inherited descriptors, and how a rejected  *)
(* invocation is reported.                                                  *)
(*                                                                          *)
(* Arguments are read one at a time and chosen by the launcher.  The pipe   *)
(* mechanics of the report are those of ConstrainedRunner: here a record    *)
(* that is written arrives.                                                 *)
(***************************************************************************)
EXTENDS Integers, FiniteSets

CONSTANTS
    FdFlags,    \* the descriptor flags of this instance; all of FlagOrder in the code
    MaxArgs,    \* bound on the number of arguments
    Readable,   \* the descriptors that are a pipe open for reading
    Writable    \* the descriptors that are a pipe open for writing; both may be one

\* The descriptor flags in the order openConstrainedFiles takes them.
FlagOrder == <<"constrained-plan-fd", "credentials-fd", "public-ca-fd",
               "regional-ca-fd", "config-fd", "result-fd">>

ASSUME InvocationConstants ==
    /\ FdFlags \subseteq {FlagOrder[i] : i \in 1..6}
    /\ "result-fd" \in FdFlags
    /\ MaxArgs \in Nat
    /\ {"unset", "low", "file"} \cap (Readable \cup Writable) = {}

Before(f, g) == \E i, j \in 1..6 : i < j /\ FlagOrder[i] = f /\ FlagOrder[j] = g
WriteFlags == {"config-fd", "result-fd"}

\* Flags whose presence selects constrained mode (--credentials-fd does not).
Triggers == FdFlags \ {"credentials-fd"}

\* The descriptors a launcher may name: a number below 3, a pipe's end, a regular
\* file; and those that are fit for a flag.
Fds == {"low", "file"} \cup Readable \cup Writable
Values == Fds \cup {"unset"}
Fit(flag) == IF flag \in WriteFlags THEN Writable ELSE Readable

\* How an argument is written: --name value or --name=value, -name value,
\* -name=value.
Styles == {"long", "short", "shortEq"}

\* What --socket-mark takes as its value when that is an element of its own: no
\* dash in front, or something that looks like a flag, or "--" itself.  The value
\* of a descriptor flag is a number, hence Plain.
Plain == [dashes |-> 0, name |-> ""]
EndOfFlags == [dashes |-> 2, name |-> ""]
Words == {Plain} \cup
         [dashes : {1, 2}, name : FdFlags \cup {"socket-mark", "other", ""}]

VARIABLES
    linux,       \* whether the program was built for Linux
    pc,          \* parse, open, leak, reject, validate, done
    parser,      \* "raw" (parseRawConstrainedArgs) or "cli" (urfave/cli)
    count,       \* arguments read so far
    values,      \* the descriptor flags read so far
    seen,        \* the flag names read so far
    repeated,    \* some flag was given twice
    longSeen,    \* the names of the elements --name before the first "--"
    longTwice,   \* some name stands twice among these elements
    ended,       \* "--" was read, as a value
    triggered,   \* an element before the first "--" selects the raw parser
    mark,        \* the --socket-mark value: "none", "valid", "invalid", or "dashed",
                 \* which is invalid and begins with two dashes
    ordinary,    \* an ordinary generation flag was given
    positional,  \* a positional argument was given
    opened,      \* the flags whose descriptors openConstrainedFiles has opened
    shut,        \* descriptors the process has closed
    record,      \* the record written to the result descriptor: class and detail
    outcome      \* "none", "run", "ordinary", "usage" or "failed"

program == <<linux, parser>>
elements == <<longSeen, longTwice, ended, triggered>>
parsed == <<count, values, seen, repeated, elements, mark, ordinary, positional>>
vars == <<pc, program, parsed, opened, shut, record, outcome>>

NoRecord == [class |-> "none", detail |-> ""]

Init ==
    /\ linux \in BOOLEAN
    /\ pc = "parse"
    /\ parser \in {"raw", "cli"}
    /\ count = 0
    /\ values = [f \in FdFlags |-> "unset"]
    /\ seen = {} /\ repeated = FALSE /\ longSeen = {} /\ longTwice = FALSE
    /\ ended = FALSE /\ triggered = FALSE
    /\ mark = "none" /\ ordinary = FALSE /\ positional = FALSE
    /\ opened = {}
    /\ shut = {}
    /\ record = NoRecord
    /\ outcome = "none"

-----------------------------------------------------------------------------
Reject == pc' = "reject"

\* What a flag and the word behind it are as elements of os.Args, to the two
\* functions that look at every element before the first "--", values included.
longNames(name, style, word) ==
    (IF style = "long" THEN {name} ELSE {}) \cup
    (IF word.dashes = 2 /\ word # EndOfFlags THEN {word.name} ELSE {})

rawFlagNames(name, style, word) ==
    (IF style # "shortEq" THEN {name} ELSE {}) \cup (IF word # Plain THEN {word.name} ELSE {})

rejectDuplicateLongFlags(name, style, word) ==
    IF ended THEN UNCHANGED <<longSeen, longTwice>>
    ELSE /\ longSeen' = longSeen \cup longNames(name, style, word)
         /\ longTwice' = (\/ longTwice
                          \/ longNames(name, style, word) \cap longSeen # {}
                          \/ style = "long" /\ word = [dashes |-> 2, name |-> name])

rawConstrainedRequested(name, style, word) ==
    triggered \/ (~ended /\ rawFlagNames(name, style, word) \cap Triggers # {})

\* Note that a flag was given.
Note(name, style, word) ==
    /\ count < MaxArgs
    /\ count' = count + 1
    /\ seen' = seen \cup {name}
    /\ repeated' = (repeated \/ name \in seen)
    /\ ended' = (ended \/ word = EndOfFlags)
    /\ rejectDuplicateLongFlags(name, style, word)
    /\ triggered' = rawConstrainedRequested(name, style, word)

\* --socket-mark with its value, as written.
NoteMark(style, word) ==
    /\ style = "shortEq" => word = Plain
    /\ Note("socket-mark", style, word)

MarkRead(word) ==
    IF word = Plain THEN {"valid", "invalid"}
    ELSE IF word.dashes = 2 THEN {"dashed"} ELSE {"invalid"}

-----------------------------------------------------------------------------
(***************************************************************************)
(* parseRawConstrainedArgs.  main hands it the command line exactly when     *)
(* rawConstrainedRequested finds a trigger written --name, --name=value or  *)
(* -name before the first "--"; behind a trigger it stops at a "--".        *)
(***************************************************************************)

duplicateFlag(name) == name \in seen

\* A descriptor flag with a number.
RawDescriptor ==
    /\ pc = "parse" /\ parser = "raw"
    /\ \E f \in FdFlags, v \in Fds, style \in {"long", "short"} :
        /\ Note(f, style, Plain)
        /\ \/ /\ ~duplicateFlag(f)
              /\ values' = [values EXCEPT ![f] = v]
              /\ UNCHANGED pc
           \/ /\ duplicateFlag(f)
              /\ Reject
              /\ UNCHANGED values
    /\ UNCHANGED <<program, mark, ordinary, positional, opened, shut, record, outcome>>

BugMarkParsedEarly ==
    /\ pc = "parse" /\ parser = "raw"
    /\ \E word \in Words, style \in {"long", "short"} :
        /\ NoteMark(style, word)
        /\ ended' => triggered'
        /\ mark' \in MarkRead(word)
        /\ IF duplicateFlag("socket-mark") \/ mark' # "valid" THEN Reject ELSE UNCHANGED pc
    /\ UNCHANGED <<program, values, ordinary, positional, opened, shut, record, outcome>>

\* --socket-mark: the mark is kept as written, its syntax is left to the runner.
\* Had "--" come before any trigger, the ordinary parser would be reading.
RawSocketMark ==
    /\ pc = "parse" /\ parser = "raw"
    /\ \E word \in Words, style \in {"long", "short"} :
        /\ NoteMark(style, word)
        /\ ended' => triggered'
        /\ \/ ~duplicateFlag("socket-mark") /\ mark' \in MarkRead(word) /\ UNCHANGED pc
           \/ duplicateFlag("socket-mark") /\ Reject /\ UNCHANGED mark
    /\ UNCHANGED <<program, values, ordinary, positional, opened, shut, record, outcome>>

\* A value that is missing or not a number, an ordinary or unknown flag (every
\* -name=value is one), a positional argument, or "--" behind a trigger.
RawReject ==
    /\ pc = "parse" /\ parser = "raw"
    /\ count < MaxArgs
    /\ count' = count + 1
    /\ Reject
    /\ UNCHANGED <<program, values, seen, repeated, elements, mark, ordinary, positional,
                   opened, shut, record, outcome>>

\* The end of the command line: every descriptor flag must have been given.
RawEnd ==
    /\ pc = "parse" /\ parser = "raw"
    /\ triggered
    /\ IF \A f \in FdFlags : values[f] # "unset" THEN pc' = "open" ELSE Reject
    /\ UNCHANGED <<program, parsed, opened, shut, record, outcome>>

-----------------------------------------------------------------------------
(***************************************************************************)
(* The ordinary parser: no trigger was found.  A repeated flag keeps its     *)
(* last value; everything behind the first positional argument is           *)
(* positional.  A string flag takes "--" as its value like any other word,  *)
(* and behind it a trigger is a flag like the others.                       *)
(***************************************************************************)
CliDescriptor ==
    /\ pc = "parse" /\ parser = "cli" /\ ~positional
    /\ \E f \in FdFlags, v \in Fds, style \in Styles :
        /\ Note(f, style, Plain)
        /\ ~triggered'
        /\ values' = [values EXCEPT ![f] = v]
    /\ UNCHANGED <<pc, program, mark, ordinary, positional, opened, shut, record, outcome>>

CliSocketMark ==
    /\ pc = "parse" /\ parser = "cli" /\ ~positional
    /\ \E word \in Words, style \in Styles :
        NoteMark(style, word) /\ ~triggered' /\ mark' \in MarkRead(word)
    /\ UNCHANGED <<pc, program, values, ordinary, positional, opened, shut, record, outcome>>

\* An ordinary generation flag, which may be a string flag that takes "--", or a
\* positional argument.
CliOrdinary ==
    /\ pc = "parse" /\ parser = "cli"
    /\ count < MaxArgs
    /\ count' = count + 1
    /\ \/ /\ ordinary' = TRUE /\ ~positional /\ UNCHANGED positional
          /\ ended' \in {ended, TRUE}
       \/ positional' = TRUE /\ UNCHANGED <<ordinary, ended>>
    /\ UNCHANGED <<pc, program, values, seen, repeated, longSeen, longTwice, triggered, mark,
                   opened, shut, record, outcome>>

\* An unknown flag or a value that does not parse: urfave/cli prints the usage.
CliUsage ==
    /\ pc = "parse" /\ parser = "cli" /\ ~positional
    /\ count < MaxArgs
    /\ count' = count + 1
    /\ pc' = "done"
    /\ outcome' = "usage"
    /\ UNCHANGED <<program, values, seen, repeated, elements, mark, ordinary, positional,
                   opened, shut, record>>

\* rejectSocketMarkOutsideConstrainedMode, then the ordinary actions.
ordinaryAction == outcome' = IF mark # "none" THEN "usage" ELSE "ordinary"

constrainedRequested == \E f \in Triggers : values[f] # "unset"

\* The end of the command line, or a "--" behind which nothing follows.
CliEnd ==
    /\ pc = "parse" /\ parser = "cli"
    /\ \/ constrainedRequested /\ pc' = "open" /\ UNCHANGED outcome
       \/ ~constrainedRequested /\ pc' = "done" /\ ordinaryAction
    /\ UNCHANGED <<program, parsed, opened, shut, record>>

-----------------------------------------------------------------------------
(***************************************************************************)
(* openConstrainedFiles, one descriptor per step.                           *)
(***************************************************************************)
\* The flag whose turn it is.
spec(f) ==
    /\ f \in FdFlags \ opened
    /\ \A g \in FdFlags \ opened : ~Before(g, f)

OpenedFds == {values[f] : f \in opened}

\* validateConstrainedDescriptor: an open pipe of the right direction.
validateConstrainedDescriptor(flag, fd) ==
    /\ linux
    /\ fd \notin shut
    /\ fd \in Fit(flag)

\* constrainedFiles.close: this descriptor and all opened before it.
BugClosesEverything(fd) == {values[f] : f \in FdFlags}

closeOnReturn(fd) == OpenedFds \cup {fd}

BugSharedDescriptor(fd) == fd \notin {"unset", "low"}

wellFormed(fd) == fd \notin {"unset", "low"} /\ fd \notin OpenedFds

OpenDescriptor ==
    /\ pc = "open"
    /\ \E f \in FdFlags :
        /\ spec(f)
        /\ \/ /\ wellFormed(values[f])
              /\ validateConstrainedDescriptor(f, values[f])
              /\ opened' = opened \cup {f}
              /\ UNCHANGED <<pc, shut>>
           \/ /\ wellFormed(values[f])
              /\ ~validateConstrainedDescriptor(f, values[f])
              /\ shut' = shut \cup closeOnReturn(values[f])
              /\ Reject
              /\ UNCHANGED opened
           \* Missing, below 3 or shared: returns without files.close().
           \/ /\ ~wellFormed(values[f])
              /\ pc' = "leak"
              /\ UNCHANGED <<opened, shut>>
    /\ UNCHANGED <<program, parsed, record, outcome>>

\* The files opened so far are garbage: their finalizers may close the
\* descriptors before the failure is reported, or not.
Collect ==
    /\ pc = "leak"
    /\ Reject
    /\ \/ shut' = shut \cup OpenedFds
       \/ UNCHANGED shut
    /\ UNCHANGED <<program, parsed, opened, record, outcome>>

Opened ==
    /\ pc = "open"
    /\ opened = FdFlags
    /\ pc' = "validate"
    /\ UNCHANGED <<program, parsed, opened, shut, record, outcome>>

\* writeInvalidInvocationFailureFD: the result descriptor is used if it was read
\* and is fit for it.
writeInvalidInvocationFailureFD ==
    /\ pc = "reject"
    /\ LET fd == values["result-fd"] IN
       record' = IF fd \notin {"unset", "low"} /\ validateConstrainedDescriptor("result-fd", fd)
                 THEN [class |-> "invalid_invocation", detail |-> ""]
                 ELSE NoRecord
    /\ pc' = "done"
    /\ outcome' = "failed"
    /\ UNCHANGED <<program, parsed, opened, shut>>

-----------------------------------------------------------------------------
(***************************************************************************)
(* The checks with which execute begins.                                    *)
(***************************************************************************)
validateConstrainedInvocation == ~positional /\ ~ordinary /\ ~longTwice

\* The detail constrainedSocketControl reports, "" when the mark can be used.
BugDetailTypo ==
    IF mark \in {"invalid", "dashed"} THEN "socket_mark_malformed"
    ELSE IF mark = "valid" /\ ~linux THEN "socket_mark_unsupported"
    ELSE ""

constrainedSocketControl ==
    IF mark \in {"invalid", "dashed"} THEN "socket_mark_invalid"
    ELSE IF mark = "valid" /\ ~linux THEN "socket_mark_unsupported"
    ELSE ""

Fail(detail) ==
    /\ record' = [class |-> "invalid_invocation", detail |-> detail]
    /\ outcome' = "failed"

Validate ==
    /\ pc = "validate"
    /\ pc' = "done"
    /\ \/ ~validateConstrainedInvocation /\ Fail("")
       \/ /\ validateConstrainedInvocation
          /\ constrainedSocketControl # ""
          /\ Fail(constrainedSocketControl)
       \/ /\ validateConstrainedInvocation
          /\ constrainedSocketControl = ""
          /\ outcome' = "run"
          /\ UNCHANGED record
    /\ UNCHANGED <<program, parsed, opened, shut>>

Terminated == pc = "done" /\ UNCHANGED vars

Next ==
    \/ RawDescriptor \/ RawSocketMark \/ RawReject \/ RawEnd
    \/ CliDescriptor \/ CliSocketMark \/ CliOrdinary \/ CliUsage \/ CliEnd
    \/ OpenDescriptor \/ Opened \/ Collect
    \/ writeInvalidInvocationFailureFD \/ Validate \/ Terminated

Spec == Init /\ [][Next]_vars

-----------------------------------------------------------------------------
(***************************************************************************)
(* Properties.                                                              *)
(***************************************************************************)

\* Every variable keeps its type, and the result carries a record of the fixed
\* vocabulary of constrained.go and socket_mark.go.
TypeOK ==
    /\ linux \in BOOLEAN
    /\ pc \in {"parse", "open", "leak", "reject", "validate", "done"}
    /\ parser \in {"raw", "cli"}
    /\ count \in 0..MaxArgs
    /\ values \in [FdFlags -> Values]
    /\ seen \subseteq FdFlags \cup {"socket-mark"}
    /\ longSeen \subseteq FdFlags \cup {"socket-mark", "other"}
    /\ {repeated, longTwice, ended, triggered, ordinary, positional} \subseteq BOOLEAN
    /\ mark \in {"none", "valid", "invalid", "dashed"}
    /\ opened \subseteq FdFlags
    /\ shut \subseteq Values
    /\ record \in [class : {"none", "invalid_invocation"},
                   detail : {"", "socket_mark_invalid", "socket_mark_unsupported"}]
    /\ outcome \in {"none", "run", "ordinary", "usage", "failed"}

\* Every descriptor flag names an open pipe of its own, of the right direction.
DescriptorsFit ==
    /\ \A f \in FdFlags : values[f] \in Fit(f) \ shut
    /\ \A f, g \in FdFlags : values[f] = values[g] => f = g

\* No run of either mode starts on a command line it does not take in full, and
\* a constrained run only on a complete one: every descriptor flag names its own
\* open pipe of the right direction, no ordinary flag, positional argument or
\* unusable mark is ignored, whichever parser read it; and the ordinary mode
\* ignores no mark it would not set and no descriptor it would not read.
RunIsWellFormed ==
    /\ outcome = "run" =>
        /\ DescriptorsFit
        /\ ~ordinary /\ ~positional
        /\ mark \notin {"invalid", "dashed"}
        /\ mark = "valid" => linux
    /\ outcome = "ordinary" => mark = "none" /\ \A f \in Triggers : values[f] = "unset"

\* A rejected constrained invocation is reported whenever it can be: the result
\* flag was read, names a pipe for writing, and no other flag names the same one.
ReportedWhenPossible ==
    (outcome = "failed" /\ values["result-fd"] \in Writable /\ linux
       /\ \A f \in FdFlags \ {"result-fd"} : values[f] # values["result-fd"])
    => record.class = "invalid_invocation"

\* The comment on parseRawConstrainedArgs, as far as it is true: on a command line
\* that is otherwise well formed (as many arguments as different flags, fit
\* descriptors), an invalid mark reaches the launcher as socket_mark_invalid
\* wherever it stands, whichever parser read it.  The exception is a mark that
\* itself begins with two dashes: execute takes it for a flag, and where that name
\* stands a second time it rejects a duplicate flag, before it reads the mark.
InvalidMarkReported ==
    (/\ outcome = "failed" /\ linux
     /\ count = Cardinality(seen) /\ DescriptorsFit
     /\ mark = "invalid" \/ (mark = "dashed" /\ ~longTwice))
    => record.detail = "socket_mark_invalid"

\* README.md: constrained mode rejects duplicate flags.
DuplicatesRejected == outcome = "run" => ~repeated
=============================================================================
