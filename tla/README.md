# pia-wg-config: TLA+ models and proofs

pia-wg-config turns Private Internet Access (PIA) credentials into a WireGuard
configuration. It has an *ordinary* mode (flags, server list, files) and a
*constrained* mode, in which a launcher starts it with six inherited pipes and
a 60 second budget. This directory models the parts of it that are hard to
test, checks them with TLC on small instances, and proves every safety property
that holds with TLAPS for every value of the constants.

`PROJECT.json` lists the components, the runs, the source lines behind every
definition, the mutants that show each property can fail, the hazards and the
findings.

## 1. The system

| Component | State | Operations | Interacts with |
|---|---|---|---|
| Constrained invocation (`src/main.go`, `src/constrained.go`, `src/constrained_descriptor_*.go`) | parsed flags, opened descriptors | two parsers, `openConstrainedFiles`, `writeInvalidInvocationFailureFD` | the launcher's command line; starts the runner |
| Constrained runner (`src/constrained.go`) | context, plan, answer of PIA, output files | `execute`, `writeFailure`, `admit`, timed reads and writes | launcher (pipes, interrupt, exit status), PIA (two HTTP exchanges) |
| Socket mark (`src/socket_mark*.go`) | the dial hook | `parseSocketMark`, `constrainedSocketControl` | runner, kernel |
| Constrained requests (`src/constrained.go`) | one HTTP client per exchange | single dial, TLS verification, body limits | runner, PIA |
| Constrained inputs (`src/constrained.go`), credentials (`src/credentials.go`) | none | strict JSON, plan, CA bundle, field validators | runner |
| Server-list cache (`src/pia/serverlist.go`) | the cache file, a temporary file | `fetchServerListWithPolicy`, retry loop, atomic write | other processes on the same file, the server-list server |
| Ordinary generation (`src/main.go`, `src/pia/pia.go`, `src/pia/wg.go`, `src/pia/metadata.go`) | server lists, CA certificate, output files | `defaultAction`, `listRegionsAction`, `NewPIAClient`, `Generate` | server-list cache, PIA |

What is hard in it:

* **Time.** Five admission gates share one budget with nine timed operations,
  and all inequalities between them hold with equality.
* **Two actors on one pipe.** When a write to a blocking pipe times out, the
  writer goroutine stays behind and may still write.
* **Partial failure.** A key can be registered at PIA without the launcher
  learning of it; a config can be written without a result.
* **Asynchronous interrupts**, seen only by the gates and the HTTP exchanges.
* **Shared files.** Several processes read, write and delete one cache file,
  and may be killed or lose power in the middle.
* **Two parsers** for one command line, with different ideas of a flag.
* **Checks by hand** where a library's are switched off or too lenient: TLS
  verification, strict JSON, PEM blocks, the single dial.
* **Outputs written in place**, one after the other, by a command that is run
  again and again on the same files.

What makes each component correct: an invocation starts a run only when it is
complete and clean, and is otherwise reported; a run ends in time, leaves at
most one record, and the record, the exit status and the config pipe agree; the
cache is never torn and stands in for the server only as its policy says; an
exchange shows its secret to nobody but the intended, verified server, over one
marked connection; a decoder accepts exactly its format; an ordinary run sends
the credentials only where they belong, and what it leaves in its files is
consistent however it ended.

## 2. Modules

| Module | Models |
|---|---|
| `LauncherContract` | abstract specification: two pipes and an exit status, as the launcher sees them |
| `ConstrainedRunner` | `constrainedAction`, `execute`, `writeFailure` and their surroundings; implements `LauncherContract` |
| `ConstrainedRunnerProofs` | its theorems: time and records, what it leaves behind, and the contract |
| `ConstrainedInvocation` | from the command line to an accepted or rejected run |
| `ConstrainedRequest` | one HTTP exchange: dial, mark, handshake, headers, body; implements the exchanges of `ConstrainedRunner` |
| `ConstrainedRequestProofs` | its theorems |
| `ConstrainedInputs` | the strict JSON objects: plan and nested objects, credentials, PIA's two answers |
| `ConstrainedInputsProofs` | its theorems |
| `CABundle` | the CA bundles, block by block |
| `CABundleProofs` | its theorems |
| `SocketMark` | the syntax of a socket mark |
| `SocketMarkProofs` | its theorem, and the induction it rests on |
| `OrdinaryRun` | the ordinary mode: listing, generation and its output files, over several runs |
| `OrdinaryRunProofs` | its theorems |
| `ServerListCache` | processes sharing a cache file |
| `ServerListCacheProofs` | its theorems |
| `LauncherInputs` | `ConstrainedInvocation` and the three decoders side by side, for one run of TLC |
| `LauncherInputsProofs` | theorems about `ConstrainedInvocation` and the composition |
| `MCServerListCache` | the symmetry set for TLC |

### ConstrainedRunner

`pc` is the place in `execute` or `writeFailure`. A gate location runs
`admit`; a location in `Blocked` is inside a timed operation that ends at
`opEnd` at the latest. The four reads, the two exchanges (sending, waiting for
the headers, reading the body), the two writes and the failure write are
locations of their own, so interrupts (`Interrupt`), the context deadline
(`ContextExpires`), the launcher (`LauncherCloses`), PIA (`PIARegisters`) and
abandoned goroutines (`LateWrite`) interleave with them.

* The parsers' and PIA's verdicts are choices: an input is accepted or not
  (the class does not depend on why), an answer is a record of what the checks
  in `validateConstrainedAddKey` can tell apart.
* Output descriptors inherited in non-blocking mode (`nonblock`) support
  deadlines; on the others `writeLimitedFile` closes the file and leaves the
  goroutine behind (`closed`, `pending`). A result record is at most `PIPE_BUF`
  bytes and is written in one piece; a config is not.
* Time advances inside timed operations (`Tick`). Time lost elsewhere, by
  computing or by not being scheduled, is `Stall`: `lag` counts all of it,
  `slip` what was lost since the last gate that admitted the run.
* Left out because the code cannot reach them: `json.Marshal` failing on a
  struct of strings, `http.NewRequestWithContext` failing on a constant URL, a
  nil result writer behind `openConstrainedFiles`.

### ConstrainedInvocation

The arguments are read one at a time. `rawConstrainedRequested` sends a command
line to `parseRawConstrainedArgs` when it finds a descriptor flag written
`--name`, `--name=value` or `-name` before the first `--`, and otherwise the
ordinary parser reads it (`triggered`). Like `rejectDuplicateLongFlags` it does
not ask whether an element is a flag or a flag's value, and the ordinary parser
takes even `--` as the value of a string flag. So the model records what stands
behind `--socket-mark` when it is an element of its own (`Words`: no dash, a
name with one or two dashes, or `--`), the names with two dashes so far
(`longSeen`, `longTwice`) and whether a `--` has been passed (`ended`).
`Readable` and `Writable` are the ends of pipes a launcher has to give.

`openConstrainedFiles`
opens one descriptor per step; where it returns without `files.close()` the
opened files are garbage and their finalizers may close the descriptors
(`Collect`) before the rejection is reported. The platform (`linux`) is a choice
of the start: on any other, no descriptor passes `validateConstrainedDescriptor`.

### ServerListCache

Each process runs `fetchServerListWithPolicy`: `Stat` and `ReadFile` are two
steps, each attempt of the fetch loop is one, and each system call of
`writeServerListCache` is one that may fail. `durable` is what the disk would
show after a power loss; data that was never synced survives in part. A list is
only whole, part of one, or bad: bytes with a closing brace, as
`fetchServerListRaw` requires, that `parseServerList` refuses. Which of them a
server may answer with is the constant `FetchedBodies`. Ages are kept on a
bounded clock.

### ConstrainedRequest

One call of `constrainedTokenRequest` or `constrainedAddKeyRequest`: `Dial` is
the transport's `DialContext` (the second call is denied), `Control` the dial
control that sets the mark on the socket, `Handshake` presents any certificate
to `verifyConstrainedTLSConnection`, `Send` is the first moment the secret is
out, `Respond` and `ReadBody` the answer. `Breaks` is any network error. That
net/http may retry a broken request on a new connection (`TransportRetries`) is
external behaviour the single dial has to withstand.

`Runner` instantiates `ConstrainedRunner` with a refinement mapping: the
locations inside `client.Do` are its one location `tokenDo` or `addKeyDo`, and
the class and detail of a failure are the same in both. `Refines` says that
every step is a step of the runner's `Exchange` or `Environment` or does not
change what the runner sees, so that what is checked and proved about the
runner does not rest on exchanges that cannot happen, nor miss one that can.

### ConstrainedInputs, CABundle, SocketMark

Decoders with a reference definition. `ConstrainedInputs` reads one lexeme per
step, as `encoding/json` hands them over, and keeps what the code keeps: whether
it is before, in or behind the object and the fields so far. A field's value is
`valid`, `invalid` (of the right type, refused by its validator), `null` or
`mistyped`. The reference is stated on the whole input: `IsObject`, `Once`,
`Known`, `Complete`, `Valid`. The nested objects of a plan are kinds of their
own. What the character-level validators accept is not modelled.

`CABundle` takes a bundle apart with `pemDecode`. That `pem.Decode` skips a
block it cannot read is external behaviour, and the reason for the exact
statement in `BundlesAcceptedExactly`: text is let pass behind a broken block. The
value and the sizes of certificates are choices.

`SocketMark` runs `parseSocketMark` on every argument over a set of characters
and compares it with the spellings of all marks of `Width` bits.

`LauncherInputs` puts the command line and the three decoders into one
specification: they share no state, so each behaviour is one of a single reader
(`reader`), and its properties are theirs by name.

### OrdinaryRun

`pc` is the place in `defaultAction` or `listRegionsAction`. The command line
(`inv`) is any combination of the flags that matter; the server list, once it
arrives, is any function from region IDs to what a region offers. `sent`
records what went to whom and where the credentials came from; `keys` which
runs' keys PIA has registered, answered or not. `os.WriteFile` is two steps,
truncating and filling. A run may be killed between any two steps (`Kill`) or
fail in any output (`OutputFails`), and the same command line may be run again
on the files it left (`Rerun`). The two unchecked index expressions end a run
in a panic of its own kind.

Assumed of PIA (external): an answer that says OK comes after the registration.
Nothing else: an OK answer may lack any field, and an answer that refuses the
key may carry them all. Since `AddKey` and `Generate` ignore the status field,
the index expression in `generateConfig` alone keeps a refusal from the files,
and only one without a DNS server (`RefusalKeepsFiles`). `misled` is a history
variable: the runs whose refusal had one. No action reads it.

## 3. Runs

| Run | Checks |
|---|---|
| `runner` | `TypeOK`, `WithinBudget`, `TimeoutSpendsNothing`, `OneResultRecord`, `SuccessMeansDelivered`, `ExitMatchesResult`, `ClassTellsRegistration`, with a process that may be stalled anywhere; `Terminates`, `CancelStopsRun`, and `KeepsContract`: the refinement of `LauncherContract`, fairness included |
| `cache_safety` | `TypeOK`, `NeverTorn`, `NoTempLeft`, `CacheUseJustified`, `RetriesExhausted`, two processes |
| `cache_live` | `RunReturns`, `FetchedListServed`, with a server that may also answer with a list nobody can parse |
| `inputs` | `InputsTypeOK`; of the invocation `RunIsWellFormed`, `ReportedWhenPossible`, `InvalidMarkReported`; of the decoders `ObjectsAcceptedExactly`, `DetailNamesFirstFault`, `BundlesAcceptedExactly`, `TrustsAllAndOnlyCAs`, `MarksParsedExactly` |
| `request` | `TypeOK`, `MarkedSingleConnection`, `SecretOnlyToVerifiedPeer`, `RefusedBeforeSending`, `RequestEnds`, and `Refines`: the refinement of `ConstrainedRunner`'s exchanges |
| `ordinary` | `TypeOK`, `CredentialsStayCentral`, `NoFallback`, `UnusableRegionSpendsNothing`, `ListingComplete`, `RefusalKeepsFiles`, `MetadataNeverAhead`, `SuccessMeansComplete`: two runs on the same files, all server lists of two regions |

Six further runs show a disagreement between the code and what is written about
it; each checks one property that TLC refutes.

| Run | The code | Written |
|---|---|---|
| `runner_late_success` | exits 1 with a success record in the result pipe, when the record's write timed out and landed all the same | README.md:81, on failure the result contains `failure_class` |
| `cache_max_age` | serves a cache older than the maximum age when the TTL is larger | serverlist.go:21, README.md:48 |
| `cache_connect` | gives up at the first refused connection or DNS failure | serverlist.go:90, "as transient" |
| `ordinary_stdout` | logs the configuration to standard error, with `--json` nowhere | README.md:31, main.go:273 |
| `ordinary_no_meta` | panics for a region without metadata servers with `-s`, the key sent and answered | pia.go:85, "with the list of servers populated" |
| `invocation_duplicate` | starts on `-config-fd=7 -config-fd=8` among the other flags | README.md:79-81, rejects duplicate flags |

The models contain smaller disagreements that have no run of their own:

* `FetchRetries` 0 makes six attempts (`maxAttempts`), serverlist.go:23 says
  five.
* A stale list is served although it has passed the maximum age while its
  refresh was retried: the age is measured before (`GiveUp`). With a TTL below
  the maximum age this refutes `NeverServedInvalid` as well.
* An answer of status 200 is cached before anything has parsed it
  (`FetchSucceeds`), and served from the cache until the TTL is over.
* `--json` prints the metadata before the metadata file is written
  (`PrintMetadata`), README.md:36 says after a successful run.
* `socket_mark_unsupported` is never reported on a platform without `SO_MARK`,
  which README.md:94-95 promises: there the descriptors are rejected first
  (`validateConstrainedDescriptor`), without a record.

* A mark that looks like a flag already given, as in `--socket-mark
  --socket-mark` with good descriptors, is rejected as a duplicate flag and
  without a detail (`rejectDuplicateLongFlags` scans values), where
  constrained.go:202-206 says that an invalid mark is reported wherever it
  appears. `InvalidMarkReported` excepts it.
* Behind a `--` that the ordinary parser takes as a value, even a descriptor
  flag written `--name` twice is accepted: `--socket-mark --` ends both scans of
  the command line, and a later `-socket-mark 7` replaces the mark.
* An `addKey` answer that refuses the key but carries the fields of a
  configuration is written to the files, with exit status 0 (`PIAAnswers`,
  `misled`). Constrained mode checks the status (constrained.go:1141).

### Bounds

* Durations. The code's 60/45/45/30/15/10 with timeouts 5/15/5 is scaled to
  6/5/5/4/3/2 with all timeouts 1: as in the code, every gate is exactly the
  timeout behind it plus the next gate, so that any stall (`MaxLag` 1) misses a
  gate or overruns a deadline behind one. The proofs cover all durations that
  chain in this way, and all stalls.
* One endpoint: a plan excludes it or none, which is the only comparison the
  runner makes.
* Two processes on the cache: every interaction is through one file. `MaxNow`
  reaches past the maximum age. `BackoffCount` is the code's 5.
* Command lines of up to five arguments and three of the six descriptor flags
  (one input, both outputs) let every flag be given with a mark, and one be
  repeated or be followed by something else. A pipe open for reading, one for
  writing and one for both are enough for these three; the code's six need four
  readable and two writable ends, which the theorems allow. Reading, opening and reporting treat the four
  input flags alike, except that `--credentials-fd` does not select constrained
  mode, which is why it is the input flag of the instance.
* An exchange has at most two dials by construction of the code, so its state is
  finite; `Timeout` 3 lets it expire in any of its phases.
* `ConstrainedInputs` varies the fields in `Varied`; the others of a format are
  present and valid, since the decoder treats all names of a format alike. Six
  lexemes are an object with two fields, room for a space, and one more to be
  repeated, unknown or trailing.
* `CABundle` has the code's limit of four certificates and one block more.
* `SocketMark`: five bits instead of 32. Every decimal and hexadecimal spelling
  of a 5-bit mark fits five characters, with a zero behind `0x` and with values
  beyond the range; the characters include digits of both bases, `x` and one
  that is none.
* `OrdinaryRun`: two regions tell the region asked for from any other; two runs,
  and a server or none in an answer, tell files of different runs and their
  contents apart. Runs meet only through the files and PIA's keys, so a third
  run meets what a second one left.

### Fairness

* `ConstrainedRunner`: weak fairness of the runner's own steps, of expired
  timers and of time inside a timed operation: what the Go runtime provides.
  Nothing is assumed of PIA, of the launcher or of interrupts, so `Terminates`
  rests on the timeouts alone. `Expire` gives each waiting location its own
  way out once its timer has fired.
* `ServerListCache`: weak fairness of a started process. This includes that a
  fetch ends, which the code does not enforce (`http.Get` has no timeout); it is
  an assumption about the network.
* `ConstrainedRequest`: time passes and the client's timer fires; nothing is
  assumed of the peer, so `RequestEnds` rests on the timer alone.

The other modules have no liveness property: `ConstrainedInvocation` and the
decoders have no waits, and `OrdinaryRun` waits on requests without a timeout,
for whose end the code gives no reason.

## 4. Proofs

Every invariant and every action property that a passing run checks is proved,
and so are both refinements, up to fairness. The theorems hold for all values of
the constants that satisfy the named assumptions of the modules:

* `ConstantTypes` and `GateChain` (`ConstrainedRunner`): the durations are
  numbers, and each gate leaves room for the operation behind it and the next
  gate; the code's numbers satisfy it with equality. Any stall is allowed.
* `CacheConstants` (`ServerListCache`): any number of processes, any policy.
* `TimeoutAssumption` (`ConstrainedRequest`): any positive timeout.
* `OrdinaryConstants` (`OrdinaryRun`): any regions, servers and number of runs.
* `InvocationConstants` (`ConstrainedInvocation`): any of the six descriptor
  flags with `--result-fd` among them, command lines of any length, any pipes.
  With four readable and two writable ends, all six flags can start a run.
* `ConstrainedInputsProofs` assumes nothing: any set of varied fields, inputs of
  any length. `CABundle` and `SocketMark` are only instantiated, so their
  theorems carry their hypotheses (the limits are numbers, and so are the
  characters) in their statement; `InputConstants` in `LauncherInputs` says the
  same, for marks of any width.

Few of the properties are inductive. The arguments, with the invariant each of
them rests on:

### ConstrainedRunnerProofs

* `TypeCorrect`: `TypeOK`, one step per action.
* `RunWithinBudget`: `WithinBudget` says nothing of how late the run is in the
  middle. `PhaseBound` adds, for each location, the latest time (`Latest`) at
  which the run can be there, counted from the deadline backwards and shifted
  by `slip`, and the same for `opEnd`; a gate resets `slip` because it measures
  the clock itself.
* `LateRunSpendsNothing`: `TimeoutSpendsNothing`. `SpendInv` adds that nothing
  is sent before the token gate and that the context expires only at the end of
  the budget; with `PhaseBound` and no stall, every later gate is reached in
  time and before that, so none of them can fail for the deadline.
* `AtMostOneRecord`: `OneResultRecord`. `ResultInv` adds that a body pending for
  the result pipe implies that the pipe's file is closed and the pipe empty,
  that at most one such body exists, and that the pipe is empty wherever a
  record can still be written.
* `ClassesTellRegistration`: `ClassTellsRegistration` speaks of failed runs
  only. `RegistrationInv` adds where the others may be: before the request
  nothing is sent, behind the answer the key is registered, and a run that has
  not failed has no class.
* `SuccessIsDelivered`: `SuccessMeansDelivered`. `DeliveredInv` states the same
  of the bodies that abandoned goroutines still hold (`Truthful`), because a
  late write must not make a record that has become false, and that the
  configuration is whole from the last gate on.
* `ExitAgreesWithResult`: `ExitMatchesResult`. `ExitInv` extends it to the
  moment the exit is decided; that no other record appears afterwards is
  `ResultInv`.
* `ImplementsContract`: `Spec => Launcher!Spec`, the safety half of
  `KeepsContract`. Only the steps that write, and the exit, are visible;
  `ContractStep` maps each to its action of `LauncherContract`, with the four
  invariants above for their guards.
* `NonblockingKeepsReadme` bounds the finding of `runner_late_success`: the
  README's promise (`FailureLeavesNoSuccess`) holds whenever the launcher hands
  over the result pipe in non-blocking mode. `PromptInv` says that a write to
  such a pipe never stays behind, so a success record is there only when the run
  has taken it for written.

### ConstrainedRequestProofs

`SecretNeedsVerifiedPeer`, `OneMarkedConnection` and `RefusalSendsNothing` come
from one invariant, `RequestInv`, which follows the single dial. `DialInv`:
nothing is connected before the dial, and the one connection has the mark of its
socket. `SecretInv`: nothing is out before the handshake, and from then on the
certificate is that of a named peer, because the second dial is denied and no
other certificate can take its place. `FailureInv`: a reason that promises that
nothing was sent is only given where nothing was.

`TypeCorrect` is `TypeOK`; it includes that every failure is one in the runner's
vocabulary. `ExchangeRefinesRunner` proves `Refines`, the refinement of the
runner's exchanges: one lemma per kind of step, under the same mapping TLC
checks.

### LauncherInputsProofs

Of the invocation:

* `RunsAreWellFormed`: `RunIsWellFormed`. `OpenInv` says that what has been
  opened is fit and shared by no other flag, that the result flag is opened
  last, and that nothing is closed before something has failed; when every
  descriptor is open, all of them fit.
* `RejectionIsReported`: `ReportedWhenPossible`. `ReportInv` adds that the
  result descriptor survives the leaked files: a finalizer can only close a
  descriptor that some other flag names, or that was refused itself.
* `BadMarkIsReported`: `InvalidMarkReported`. `CountInv` relates the number of
  arguments to the flags seen: a repetition, an ordinary flag or a positional
  argument makes the count exceed them, and without a repetition no name stands
  twice with two dashes unless the mark is one of the two (`dashed`). `MarkInv`
  then says that a faultless command line never gets to the general rejection
  before its mark is looked at.
* `DuplicatesOnlyBehindCliParser` bounds the finding of `invocation_duplicate`: a
  run starts on a repeated flag only behind the ordinary parser, and only if no
  name stands twice with two dashes among the elements that
  `rejectDuplicateLongFlags` gets to see. `DuplicateInv`: a command line that the
  raw parser has found repeated is on its way to the rejection.

Of the readers side by side, `ReadersApart` proves that each behaves as it does
alone (a step of `LauncherInputs` is one of a single reader), `SameDecoder`,
`SameFormats`, `SameBundles` and `SameMarks` that the instances are those the next
three modules prove about. `InputsTypeCorrect`, `ObjectsAreAccepted`,
`DetailsNameFirstFault`, `BundlesAreAccepted`, `PoolsTrustTheBundle` and
`MarksAreParsed` are the decoders' theorems, stated of `InputsSpec`.

### ConstrainedInputsProofs and CABundleProofs

The decoders take one element of their input per step, so what they compute on
inputs of any length needs no induction over data but an invariant of the
decoder.

* `ObjectsAccepted` (`ObjectsAcceptedExactly`) and `FirstFaultNamed`
  (`DetailNamesFirstFault`). `DecodeInv` says what the decoder has read: space
  before the object; inside it, one opening brace, and known, different fields
  whose values are those it holds (`Decoded`); behind it, the same and a closing
  brace. `ClosedObject` then turns the parser's tests of the fields into
  `Complete` and `Valid` of the whole input, and `NoObject` names what keeps an
  input from being an object, one case per refused lexeme.
* `CleanBundlesAccepted` (`BundlesAcceptedExactly`) and `PoolIsTheBundle`
  (`TrustsAllAndOnlyCAs`). `ReadInv`: the blocks consumed so far are clean and
  end in a certificate, and the pool holds exactly their certificates. The steps
  rest on `PemFinds` and `PemFails`: a block that is found is the first readable
  one, and when none is found there is none or the text in front is not skipped.
* `TypeCorrect`: the decoder's part of `InputsTypeOK`, which is inductive.

### SocketMarkProofs

`MarksAreParsed` (`ParsesExactly`) does need induction: `ParseUint` folds over
the digits of an argument and `Digits` divides a mark down to nothing, both as
recursive functions. The library's induction theorems take an operator, which
the provers cannot instantiate; `Induction` and `StrongInduction` say the same
of a *set* of numbers, from the well-foundedness of `<`, and each use names the
set of the numbers for which the claim holds. On them rest

* `LoopExists` and `TableExists`: the recursive functions exist and obey their
  equations, for digits and marks of any size (`ParseUintStep`, `DigitsStep`);
* `ParseOfDigits`: parsing the digits of a mark gives the mark, in either base;
* `DigitsOfParse`: the digits of what a digit string parses to are that string
  without its leading zeros; with `LeadingZeros`, zeros in front change nothing.

`SpellingsAreRead` and `MarksAreSpelled` are then the two directions of the
property: every spelling of a mark within `MaxLength` is read as that mark, and
whatever is read as a mark is one of its spellings. Nothing is assumed of the
width or of the characters but that they are numbers.

### OrdinaryRunProofs

* `CredentialsNeverRegional`: `CredentialsStayCentral`. `executePIARequest`
  would add the credentials to a request with an empty token; `CredentialsInv`
  adds that no step leaves one.
* `RefusalsKeepFiles`: `RefusalKeepsFiles`. `RegisteredInv` adds that a decoded
  answer with a DNS server comes after the registration or is a refusal that
  carries one (`RegisteredOrMisled`), and that nothing gets past
  `generateConfig` without such an answer. It rests on the assumption about OK
  answers named under OrdinaryRun, and on nothing about the others.
* `MetadataFollowsConfig`: `MetadataNeverAhead`. `OrderInv` adds that until a
  run touches the metadata file, that file is an earlier run's, and that it does
  so only when its own configuration is whole.
* `UnusableRegionIsFree`: `UnusableRegionSpendsNothing`. `UsableInv`: only a
  usable region gets past `NewPIAClient`, and before it nothing is sent and both
  files are earlier runs'.
* `DescriptorNeverFallsBack`: `NoFallback`. `SourceInv`: from
  `credentialsFromInvocation` on the credentials are those of the one source
  the command line names.
* `ListingShowsUsable`: `ListingComplete`, with `EndInv`: a run has an exit
  exactly when it is over, and only three steps end one well.
* `SuccessIsComplete`: `SuccessMeansComplete`. `CompleteInv` adds that each
  output asked for is behind the run when it gets to the next; registration and
  the configuration file come from `RegisteredInv` and `OrderInv`.
* `TypeCorrect`: `TypeOK`.
* `PanicNeedsRegionWithoutMeta` bounds the finding of `ordinary_no_meta`: the
  panic takes `-s` and a region with WireGuard but no metadata servers
  (`UsableInv`), and comes after the token and the key have been sent to the
  region's server (`PanicInv`).

### ServerListCacheProofs

* `TypeCorrect`: `TypeOK`.
* `CacheNeverTorn`: `NeverTorn`. `TornInv` adds that what is on disk is not torn
  and is synced, that a temporary file is complete from the sync and synced from
  the close on, and that the bytes a process holds are not torn.
* `CacheServedWithinPolicy`, `AllRetriesMade` and `TempAlwaysRemoved`:
  `CacheUseJustified`, `RetriesExhausted` and `NoTempLeft` from one invariant of
  each process, `RunInv`: a process that sleeps has attempts left; one that
  refreshes a stale list measured an age between the TTL and the maximum; a
  result is there exactly when it has returned; and outside the steps of
  `writeServerListCache` it has no temporary file. `RunKept` says that this
  speaks of the process's own state only, which is why the number of processes
  does not matter.
* `FetchedIsServed`: the action property `FetchedListServed`, from the type
  invariant and the steps that end a save.
* `OnlyFallbackOutdates` bounds the finding of `cache_max_age`: with a TTL within
  the maximum age, as in the defaults, a list taken from the cache without a
  refresh is within the maximum age when it is handed over. Only the fallback of
  a failed refresh, whose age was measured before the retries, can be older.

### Only model-checked

* Liveness: `Terminates`, `CancelStopsRun`, `RunReturns`, `RequestEnds`, and the
  fairness of `KeepsContract`. `WF` and `ENABLED` are out of the prover's reach.
* The six disagreements, which are violations TLC finds.

## 5. Not modelled, and the plan

Not modelled: vendored code; wording, formatting and logging; the character
syntax of regions, addresses, names and keys; ports (the ordinary configuration
fixes 1337, the metadata reports PIA's); body size limits other than as a
failure of the read; file permissions; an `os.Remove` that fails in a directory
that has just accepted a file; clocks that step backwards; requests of the
ordinary mode that never end; a kill of the constrained runner (`SIGKILL`, or an
interrupt after `stop()`), after which there may be neither record nor a chosen
exit status. Which file a cached list's age was measured on, when a rename comes
between `Stat` and `ReadFile`, is left to `NeverTorn`: nothing promises more than
whole bytes.

`OrdinaryRun` and `ServerListCache` are not composed: a run's use of the cache
is one call, whose outcomes (no list, a list that does not parse, any list) are
choices in `OrdinaryRun`; and `ConstrainedInputs` meets `ConstrainedRunner` only
in whether an input is accepted, which is a choice there.

What is left is one composition: `Refines` ties the steps of an exchange to the
runner's, with the context free to end at any time. A runner whose exchanges are
`ConstrainedRequest`'s would also tie their clocks. Liveness could be proved
only with a prover for `ENABLED`.
