# A formal model of monkey (testman)

`monkey` tests a REST API. A server, reached over a bidirectional gRPC stream,
decides what to test; this program runs what it is told to: it calls the
system under test, checks the responses, resets the system between tests and
reports all of it. The modules here model that program, TLC checks them on
small instances, and TLAPS proves what matters most of them for every value of
their constants.

Line numbers are those of the files of `src/`; `PROJECT.json` maps every
definition to the lines it stands for.

## The system and its parts

| Part | Source | State it keeps | Operations | Interacts with | Hard behaviours |
|---|---|---|---|---|---|
| bidirectional channel | `pkg/internal/fm/chans_bidi.go` | four unbuffered Go channels, a derived context, the stream | `NewChBiDi`, `Send`, `Receive`, `Close` | its own two goroutines, the fuzzing loop, the server | interleavings of three goroutines, ten-second timeouts, cancellation, late answers |
| fuzzing loop | `pkg/runtime/{fuzz,call,reset,progress}.go`, `main.go` | `rt.client`, `rt.progress`, `rt.lastFuzzingProgress`, the exit code | `Fuzz` (recursive), `call`, `reset`, `recvFuzzingProgress`, `Cleanup` | the channel, the server, the resetter, the caller, the checks | order of an exchange of messages, errors in any step of it, ^C and the time budget, shrinking inside a campaign |
| user checks of a call | `pkg/runtime/call.go` | the buffered channel `vs`, the shared `passed` | `userChecks` | one goroutine per check, one consumer, the channel | completion in any order, a consumer that gives up, closing a channel others send on |
| check definitions and state | `pkg/runtime/builtin_check.go`, `call.go`, `reset.go` | each check's `state` and `state0`, its hook, its tags | `Check`, `runUserCheck`, `reset` of the states | Starlark scripts | state carried from call to call, partial failure |
| shell resetter | `pkg/resetter/shell/resetter.go` | `isNotFirstRun`, the script's file, the environment's file | `ExecStart`, `ExecReset`, `ExecStop`, `Terminate` | Bash, the file system, the fuzzing loop | two processes racing, kills, partial writes, hung or detached children |
| HTTP caller and its checks | `pkg/modeler/openapiv3/caller_http.go`, `caller_checks.go` | what was recorded of request and response | `NewCaller`, `Do`, `RoundTrip`, `NextCallerCheck` | `net/http`, the checks | callbacks of the HTTP client (redirections), stale fields, nil responses |
| specification IR and schemas | `pkg/modeler/openapiv3/{validator,ir_openapi3}.go` | numbering of schemas, endpoints, pointers from names to numbers | `seed`, `ensureMapped`, `fromGo`, `toGo`, `FilterEndpoints`, `Validate`, `ValidateAgainstSchema` | the server (numbers travel), the caller's checks | recursive and forward references, a pointer rewritten while others hold its number, two ways to validate |
| assertions | `pkg/starlarktruth/` | subjects not yet resolved, per script | `that(...)`, its predicates, `Close` | the checks | a subject that is never resolved, multiset and order algorithms |
| tags and filters | `pkg/tags/tags.go`, `main.go` | allow and deny lists | `NewFilter`, `Excludes` | checks, `monkey fuzz` flags | empty against missing lists |
| identifiers of a working directory | `pkg/cwid/`, `do_pastseed.go` | numbered files, the log of past seeds | `MakePwdID`, `pastseed` | other processes | two processes choosing a slot, logs removed or begun while they are looked through |
| progress reporting | `pkg/progresser/` | the bar and its ticker | `WithContext`, `Terminate` and others | the fuzzing loop | a ticker's goroutine |
| self-update | `pkg/update/` | the installed program, a temporary file | `PeekLatestRelease`, `ReplaceCurrentRelease`, `fetchLatestSum` | GitHub, other processes | altered downloads, kills, a release or another update in between |
| generated protocol code | `pkg/internal/fm/fuzzymonkey.pb.go` | none | `MarshalTo`, `Size`, `Unmarshal` of 37 messages | the server, of another version perhaps | a size that is not that of what is written, fields the other side does not know |
| runtime start-up | `pkg/runtime/{runtime,module_initial,builtin_env}.go` | the frozen environment | `NewMonkey` | Starlark | freezing |
| formatting, conversions | `pkg/starlarkclone`, `pkg/starlarkvalue`, `pkg/protovalue`, `pkg/runtime/{fmt,lint}.go` | none | | | none that interact |

How they meet. `main.go` builds a `Runtime` and calls `Fuzz` with a context that
^C or `--time-budget-overall` ends. `Fuzz` dials one channel per campaign and
loops: it receives an instruction, serves it (`call` or `reset`, each an
exchange of several messages of which some are answered by a progress), and
stops at a result, at an error of the channel, or when the context ends. A
result that has a next seed starts another campaign inside the first
(`Fuzz` calls itself, the outer channel still open). `call` asks the caller for a
request, performs it, runs the caller's checks one by one and the user's checks
in goroutines, each result going to the server. `reset` empties the states of
the user checks and lets the resetter run its script. In the end `main.go`
turns what `Fuzz` returned into an exit code and terminates the resetter.

What makes each part correct:

- channel: an answer is that of the message it is taken for; nothing is lost,
  repeated or reordered until a call fails; every call returns; the end of the
  context is noticed.
- fuzzing loop: neither end of the stream ever gets a message it does not
  expect, nothing sent by the server is dropped unread, nothing is sent after an
  error, and the exit code tells the standing that was last reported.
- user checks: the outcome is that of all of them, in any order of completion;
  no goroutine is left blocked and none sends on a closed channel.
- resetter: "success" means the whole script ran; no call stands in the way of
  the next one; a hung script does not hang the program; a system that is taken
  for started was started.
- caller: the checks judge the last response, never what a redirection left
  behind or a response that does not exist.
- check states: a verdict tells what the script did in this call and in no other;
  the state a call finds can be represented, unless a failure was already reported.
- assertions: a subject without a predicate is an error, never a success;
  comparisons agree with their mathematical meaning.
- specification IR: a number that was handed out keeps leading to its schema, every
  reference leads to what its name stands for, both ways of validating agree, the
  endpoints and checks that run are those the command line asks for.
- protocol code: what is sent is what is received; what is not known is kept.
- working directory: a run's log is its own; the seed that is found again is that of
  the youngest log that has one; what an update installs was released.

## Modules

| Module | Models | Checked by runs | Proofs |
|---|---|---|---|
| `Channel` | abstract: what `pkg/internal/fm` promises, call by call | as `ImplementsChannel` | |
| `ChBiDi` | `chans_bidi.go` | `chbidi`, `chbidi_budget` | `ChBiDi_proofs` |
| `Verdicts` | abstract: what `userChecks` promises to a call | as `ImplementsVerdicts` | |
| `UserChecks` | `userChecks`, `runUserCheckWrapper` of `call.go` | `userchecks` | `UserChecks_proofs` |
| `Campaign` | `fuzz.go`, `call.go`, `reset.go`, `progress.go`, the end of `main.go`, and a server | `campaign` | `Campaign_proofs` |
| `ShellResetter` | `resetter.go` and Bash | `shell` | `ShellResetter_proofs` |
| `CallerHTTP` | `caller_http.go`, `caller_checks.go` | `http` | `CallerHTTP_proofs` |
| `Truth` | the protocol of `pkg/starlarktruth` and its predicates on lists and dicts | `checks`, `checks_all`, `checks_pairs` | `CheckState_proofs` |
| `CheckState` | `runUserCheck` of `call.go`, `check.reset`, with a script that runs `Truth` | `checks`, `checks_all`, `checks_pairs` | `CheckState_proofs` |
| `SpecIR` | `ir_openapi3.go`, `seed`, `ensureMapped`, `fromGo`, `toGo` of `validator.go` | `spec`, `spec_except` | `SpecIR_proofs` |
| `Selection` | `FilterEndpoints` of `validator.go`, `tags.go`, `newTagsFilter` of `main.go`, on the table of `SpecIR` | the same | `SpecIR_proofs` |
| `WireTypes` | `fuzzymonkey.pb.go`: how a number, and a value of each wire type, is written and read | `spec` | `SpecIR_proofs` |
| `Messages`, `Wire` | `fuzzymonkey.pb.go`: the numbers of each message; what the code around them does | `spec` | |
| `Sent` | `SpecIR` and `Selection` with the messages that carry them | `spec` | |
| `Workdir` | `pwd_id.go`, `do_pastseed.go`, the log of `main.go`, several processes | `workdir` | `Update_proofs` |
| `Update` | `github.go`, `doUpdate` of `main.go`, by processes of `Workdir` | `workdir` | `Update_proofs` |

`MCChBiDi`, `MCUserChecks`, `MCCampaign`, `MCCheckState`, `MCSpecIR` and `MCUpdate` only
give names to sets the `.cfg` files assign to constants.

The modules compose by abstraction. `ChBiDi` refines `Channel`; `UserChecks` and
`Campaign` use the channel as `Channel` describes it: a call works, or it fails
and no other follows (`SilentAfterError` of `Campaign` checks that the program
keeps to this rule). `UserChecks` refines `Verdicts`, which says what `Campaign`
relies on when it sends the verdicts one by one with a progress in between.
`CheckState` extends `Truth` and is what stands behind `CheckRuns` of `UserChecks`:
the goroutine that finds one check's verdict.
`ShellResetter` and `CallerHTTP` stand behind the steps `ResetEnds` and `Request`,
`Respond`, `CallerCheck` of `Campaign`, which leave their outcome open. `SpecIR` makes the
table that `CallerHTTP` validates responses with, `Selection` the set of endpoints and
the `Excluded` of `CheckState`, and `Sent` puts the table next to the messages that take
it to the server. `Update` extends `Workdir`: an update is a process of the working
directory like any other, with a slot and a log, that runs the program another one
may be replacing.

Next to some definitions stands a variant, `Name_Fault`, that no specification
uses: the definition as it would be with one plausible mistake (a verdict that
overwrites the others, a flag set too early, a raw error returned). Putting the
variant's body in the place of the definition makes a named property fail; the
pairs are under "mutants" in `PROJECT.json`. They are how this project knows that
a property can fail at all.

### ChBiDi

State: both contexts (the caller's and the one `NewChBiDi` derives), the
stream, and where each of the three goroutines is, with the message and error it
holds. Messages are their numbers. A transfer on an unbuffered channel is one
step of both ends: `SendHandsOff` (`sndMsg`, line 150), `SendReturns` (`sndErr`),
`ReceiveReturnsMsg` (`rcvMsg`), `ReceiveReturnsErr` (`rcvErr`). `SendTimesOut` and
`ReceiveTimesOut` may come at any moment of the wait: an answer may be late. A
`select` is a choice between the actions it enables. `SenderFailed` finishes the
stream, as a failed `SendMsg` of gRPC does, and turns `io.EOF` into
`context.DeadlineExceeded` as line 110 does.

The user of the channel is the fuzzing loop: one call at a time, `Close` after
the first error or when the campaign is over.

### Campaign

One action per call on the channel and per decision in between: `Dial`, `Hello`,
`Loop` (a message received, `Handles`), `Request`, `Respond`, `CallerCheck`,
`UserCheck`, `ChecksDone`, `ResetStarts`, `ResetEnds`, `RecvFuzzingProgress`,
`Break` (what follows the loop), `Return` (all recursions at once: each only passes
the error on) and `Cleanup`. Errors are the kinds `main.go` tells apart.

The server's source is elsewhere. It is modelled from the way this code talks to
it: it answers the first message with `FuzzRep`, each response and verdict
with its progress, gives an instruction only between exchanges but may send it
right behind a progress, and reports progress before the result. It may report
any standing at any time. These are the assumptions under which `Campaign` is
checked; a server that breaks them is outside this model.

### UserChecks

One goroutine per check (`CheckRuns`, `CheckSends`), the consumer (`ConsumerTakes`
to `ConsumerCloses`) and `WaitReturns`. The consumer's call of `Send` is taken apart as
`ChBiDi` has it: a look at the context (`ConsumerSends`, `ConsumerSendsTooLate`), the hand-off
that nothing guards (`ConsumerHandsOff`), the answer or its timeout (`ConsumerSent`,
`ConsumerSendFails`). The sender itself is not in this module: after the end of the context
the hand-off may happen or never happen. What a check finds is left open; the script
that finds it is for the module on check states. `CheckSends` is guarded by
`~closed`, so that a send on the closed channel, a panic in Go, would show as a
goroutine that can never go on; `NoSendAfterClose` says it does not come to that.

### ShellResetter

Two processes. `exec` in its control points `stat`, `start`, `wait`, `check`;
Bash in `CommandWorks`, `CommandEnds`, `Truncates`, `Writes`, `Killed`. Shared: the
script's file, the file of the environment (with what wrote it last), its time
of modification. A command may end well, fail, end the script with success
(`exit 0`), hang, or leave a process behind that holds Bash's output open
(`held`). The command line chooses the initial state: a campaign makes resets and
one `Terminate`; each `monkey exec` is one call.

Assumed: once `exec` has returned because its context ended, Bash is dead. The
signal is sent by `os/exec` when the context ends and `exec` does not wait for
its effect (lines 211-231), so what Bash may still do in the instants in between
is left out.

### CallerHTTP

Built for one call: `Request`, then `DoFails`, `RoundTripFails`, `BodyFails` or any
number of `RoundTrip`, then `Check` until a failure. `RoundTrip` runs once per hop:
`http.Client` follows redirections and calls the transport again. Responses are
a code and one of four kinds of body. A redirection that has a location is
followed, one that has none is the last response.

### Truth and CheckState

`Truth` has the assertions of one script: `subjects`, what `assert.that()` made, each
with the list it is about and its `forOrdering`; `local`, the thread's
`LocalThreadKeyForClose`, which holds a pending call frame, the empty frame of a
subject that was tested, or nothing; and whether the script runs or has raised.
`That` is `module.go`, `Predicate` is `builtinAttr`, which marks the local whatever
the outcome and for whichever subject. `contains_exactly`, `contains_all_of`,
`in_order` and `is_equal_to` are translated as they compute, on lists of small
numbers: `ExactlyPasses` walks both lists until a pair differs and counts from
there, `AllStep` is one turn of the loop of `containsAll`. The other predicates
(`OtherPredicate`) pass or raise.

`CheckState` has the check around it: `Calls` makes the thread and the snapshot,
`Mutates` is an assignment in the script, `Returns` and `Fails` give the verdict by
the order of the tests in `runUserCheck`, `Reset` clones `state0` again. `used`,
`asked` and `broken` are histories: which subjects a predicate was called on,
whether any was, and whether the check failed since the last reset.

A subject holds the list it was made with; a script that changes the list
afterwards is left out, as are elements that are equal but print differently,
which the counters tell apart by their text. A dict is the sequence of its items in
order of insertion; comparing it leaves no order behind on its subject, so that for
the script's protocol it is one of the `OtherPredicate`, and `ItemsPass`
(`is_equal_to`, `contains_exactly_items_in`) and `PairsPass` (`contains_exactly`) are what it
computes.

### SpecIR

A document is whatever its next schema turns out to be: any shape of `Shapes`, any
`$ref`, nested by what was mapped before it. `PreSeed`, then `MapSchema`, `MapRef` and
`Seeded` for each named schema, then `Input`, `Output` and `EndpointBuilt` for the
endpoints; a parameter or JSON body without a schema ends in a nil dereference
(`InputWithoutSchema`). The recursion of `ensureMapped` is `stack`, what its finished calls returned
to callers that are not finished. `doc` and `sidOf` remember each call and its
answer: that is what the table is compared with.

A schema is a set of keywords. `FromOA3`, `FromGo` and `ToGo` say what the three
conversions do to them; a keyword has a value only where a conversion treats one value
differently (`multipleOf:1`, formats that are known and not). `gojsonschema` is
external: it refuses a schema (`Refused`) or enforces the keywords it knows
(`Enforced`). A map's iteration order does not matter to the numbering because names
are sorted; among equal schemas `ensureMapped` returns the one it meets, and
`TableDenotesDocument` says there is one. Methods, paths and how pointers are written
as text are left out.

### Selection

`FilterEndpoints` on the lines of the endpoints: `Obeyed` is the first loop, which leaves
at the first option with an equals sign, `FilterStep` one regular expression. A
regular expression is the word of a line it matches. `NewFilter` gives the filter of
`--tags` and `--exclude-tags`, unset, empty or a list, and `Excludes` the set of answers
the order of a Go map allows.

### Messages, WireTypes, Wire and Sent

`Messages` has four tuples per message of the protocol, read off the generated code:
its fields, the keys `MarshalTo` writes, the constants `Size` adds, and the number and
wire type of each case of `Unmarshal`. `Wire` has the shape the generator gives to each
kind of field, once, for whatever rows `Protocol` has. It stands on `WireTypes`, the values
that follow a key, where the code's loops over seven bits at a time are written as what
they compute: the bytes of a number by their weights, and its end at the first byte that
does not continue. The messages tried have in them nothing, everything, one field or
two fields, each with values that take one byte and two (300, a string of 128 bytes),
and the zero of the kind where the code tells it from nothing. A string is its bytes;
numbers stay below 2^31, which leaves out the ten-byte varints of negative numbers;
a `double` is its eight bytes; the entries of a map come in one order, the same each
time; `types.Value`, of another package, has its string only.

### Workdir and Update

Processes are started together, each for a run, an update or a `pastseed`. `Lists` is
`MakePwdID`, `OpensLog` what comes after it in `main.go`: between the two another process
may do the same. A slot's files are abstracted to its log. A log is a sequence of
lines of one length, and a run writes at its own place in it, since the file is opened
without `O_APPEND`. `pastseed` lists the slots again for each log it goes back to
(`PastseedLists`), and reads it with a scanner that stops, in silence, at a line that is
too long (`ScanSeeds`). `Cleans` removes temporary files as systems do: the oldest
first, never those of a running process nor those of the last run. `Killed` may come at
any moment.

`Update` has the releases (`Publishes`), the installed program `exe`, and per process the
steps of `ReplaceCurrentRelease`: `Peek`, `Fetches` (a temporary file), `Extracts`,
`ChecksSum`, `Replaces`. What arrives may be altered, the archive may not hold the program
(`ArchiveEnds`: line 140 then dereferences a nil header), anything may fail
(`UpdateFails`). A version stands for its program and for its archive's checksum: two
archives never have the same hash, and the published checksum is trusted. The lines an
update logs are left out.

## Runs

| Run | Question | Bounds | Distinct states |
|---|---|---|---|
| `chbidi` | Does the channel keep its promise under every interleaving? | 3 sends, 2 messages of the server, both ends of the context | 15 000 |
| `chbidi_budget` | Does the end of the context stop the program? It does not. | 1 send, 1 message | |
| `userchecks` | Is the outcome of a call that of all its checks, and does it come? | 3 checks | 19 000 |
| `campaign` | Is the conversation kept, and what does the exit code say? | 3 instructions, 2 campaigns, 2 checks of the caller and 2 of the user | 466 000 |
| `shell` | Does a success mean the script ran, whatever is killed or hangs? | 3 resets and a termination | 19 000 |
| `http` | Do the checks judge the last response? | 3 hops, codes 200, 302 and 500, every endpoint over the keys 200, 3XX and default | 9 000 |
| `checks` | Does a verdict tell what the script did? Do the predicates on lists and dicts mean what they say? | 2 assertions a call, 9 lists, 3 states of which one cannot be represented | 46 000 |
| `checks_all` | Does `contains_all_of` accept only lists that have all the elements? It does not. | 1 assertion | |
| `checks_pairs` | Does `contains_exactly` on a dict accept just its own pairs? It does not. | 1 assertion | |
| `spec` | Does the table say what the document says, does the command line select what it asks for, does what is sent arrive? | 2 names, 4 shapes, 5 schemas, 2 endpoints; 0 to 2 filters, lists of up to 2 tags; 37 messages | 96 000 |
| `spec_except` | Are the endpoints of an `--except` left out? Not after an option with an equals sign. | as `spec` | |
| `workdir` | Are logs whole, does `pastseed` find the youngest seed, is what is installed a release? | 3 processes, of which 2 run or update and 1 looks for a seed; 2 lines each, 1 older log, 3 releases | 1 900 000 |

What the passing runs show, property by property:

- `chbidi`. `AnswerIsForThisMessage`: what `Send` takes from `sndErr` answers the
  message it just handed off. `SentIsOnTheWire` and `ReceivedInOrder`: no loss,
  repetition or disorder while no call failed. `CanceledMeansCanceled`: no error
  of the network is reported as ^C. `CallsReturn`: `Send` and `Receive` end, with ten
  seconds for the worst case.
  `StopsOrHangsAtHandoff`: after the end of the context the program closes its
  channel, with one exception, stated exactly, which `chbidi_budget` shows.
  `NothingBeginsAfterClose`: a goroutine that is left over when the channel is closed
  begins nothing on the stream any more, although it may stay blocked (line 80).
- `userchecks`. `NoSendAfterClose`, `OutcomeIsThatOfAllChecks` and the refinement of
  `Verdicts`. `GroupEndsOrHangsAtHandOff`: whatever the checks find and whenever the consumer
  gives up, `g.Wait` returns, with the one exception of `ChBiDi`: the context ends between
  `Send`'s look at it and its hand-off, and the consumer, and with it the group, waits for
  ever. Under a context that stays live the group always ends.
- `campaign`. `ExchangeIsFollowed`: the server never reads a message out of place and
  the program never meets the case it calls unreachable.
  `InstructionIsNotSwallowed`: `recvFuzzingProgress`, which ignores the instruction
  in what it receives, never receives one. `ProgresserMatchesCampaign`: `rt.progress`
  is set when it is dereferenced and forgotten between campaigns.
  `ExitCodeTellsLastStanding`: the exit code is that of the last standing reported, and
  a run that showed a bug exits with OK only if a campaign inside the first overwrote
  it. `SilentAfterError`, `EndOfContextExits`.
- `shell`. `OkMeansWholeScriptRan`, `ScriptFileIsGone`, `ResetLeavesItStarted`,
  `EnvIsWholeUnlessFailed`, `ExecReturns`.
- `http`. `ChecksHaveWhatTheyRead`: no check meets a response that does not exist, nor
  validates a body that was not decoded; `VerdictFitsResponse`: a call passes only on a
  conforming last response.
- `checks`. `NoSubjectDangles`: no script passes with a subject it never tested,
  unless a predicate of an older subject hid it. `VerdictTellsWhatRan`: success
  means the script asserted something or changed its state, skipped that it did
  neither, over any sequence of calls and resets. `StateIsRepresentable`.
  `ExactlyAndEqualTellTheTruth` and `AllAcceptsWhatItShould`: the algorithms against
  counts of elements, subsequences, and equality of dicts. They leave out what
  `checks_all` and `checks_pairs` refute: what `contains_all_of` accepts beside, and
  `contains_exactly` on a dict; and `is_equal_to` on a subject that has an order already,
  which is listed below.
- `spec`. `TableDenotesDocument`: numbers handed out stay right, and equal schemas share
  one. `EveryRefLeadsToItsSchema`: after seeding every pointer leads in one step to its
  name's schema, recursion and references to later names included.
  `ValidatorsAgreeButForSix`: `Validate` and `ValidateAgainstSchema` enforce the same
  keywords but for six. `SelectsWhatFits` and `TagsDecide`: the selection is what the
  document and the command line say, whatever the order of options, of schemas or of a
  map's keys, up to the first option with an equals sign. `EveryMessageSurvives`: a
  message is read as it was written, into the buffer size announced for it, with what
  another version of the protocol added to it.
- `workdir`. `LogsAreWholeUnlessRaced`: a log holds just what its run wrote, unless two
  runs listed the slots before either had a log. `PastseedPassesNoLogOver`: the logs
  younger than the one whose seed is printed were read and had none, although the
  slots move while it looks. `ExeIsAReleasedProgram`;
  `NeverGoesBackUnlessOvertaken`: an older program takes the place of a newer one only
  if another update finished meanwhile.

`TypeOK` of each module is no property of a run: where there are proofs it is proved, as
a part of the invariant.

Why the bounds are enough. A third `Send` comes after one that succeeded on a
channel that was already used, and the second message of the server waits while
the first is offered; no state of a goroutine depends on more than the current
message, and the invariants are proved for every number anyway. Three checks give
a verdict waiting in the buffer, one held by the consumer and one not yet found.
Three instructions and two campaigns allow a reset and a call before a result, an
instruction right behind a progress, and a second campaign that inherits what the
first left (`standing`, the closed progresser). Three resets have a first one, one
that follows it, and one that follows a failure. Three hops have a redirection that
follows a redirection; codes 200, 302 and 500 with the keys 200, 3 and 0 match
by the code, by the class, by the default or not at all. Two assertions have an
older subject and the last one; the nine lists have equal lists, prefixes,
permutations, repetitions on either side, and a common prefix before a difference.
Two names give a name that refers to itself, to the one before it and to the one after
it; five schemas give one for each name, nested ones, and those of two endpoints; the
four shapes nest nothing, one schema or two. Two filters are an order and a joined form
of each. Two runs are what a race takes, with a third process that sees what they
left; an older log in slot 2 leaves a gap below it; two lines have one that was
overwritten and one that was not; three releases let two updates see different
latest ones.

Deadlock is not checked: every one of these systems stops, at `closed`, `over`,
`exited`, when all the goroutines have returned, when the document is `done`,
`refused` or the program `panicked`, when every process has ended. In `checks` it is: a
check can always be called or reset again.

Fairness. Go runs a goroutine that can run, hence weak fairness of the runtime's
goroutine, of the sender and the receiver at their `select` (`ChBiDi`), of each
check and of the consumer (`UserChecks`), of `exec` (`ShellResetter`) and of the
loop (`Campaign`). Timers fire: ten seconds for `Send` and `Receive`, two minutes
for a script. `Send`'s timer only starts after its hand-off, so nothing is assumed of the
hand-off once the context has ended: the consumer's fairness in `UserChecks` is that of
`~AtHandOffTooLate /\ Consumer`. Nothing is assumed of the stream (`SendMsg` and `RecvMsg` may block
for ever), of the server, or of the user's commands. A check's script is bounded
by the interpreter's number of steps (`SetMaxExecutionSteps`). In `Campaign` the
loop's fairness supposes that calls on the channel return; `ChBiDi` shows when they
do, and in `chbidi_budget` when they do not. `SpecIR`, `Workdir` and `Update` have only
safety properties: nothing is assumed to go on.

## What the checks found

1. `chans_bidi.go:150`: `Send` looks at its context once, then hands its message to
   the sender in a transfer nothing else guards. If the context ends in between, the
   sender is waiting on `sndErr` for someone to take the context's error, and the
   program hangs (`chbidi_budget`).
2. `assert_that.go:769`: `contains_all_of` drops the first element of the list in the
   place of the one it found, so that an element may be found twice: `[1, 2]` passes
   `contains_all_of(2, 2)`, and `in_order` after it (`checks_all`).
3. `validator.go:508`: the first filter given as `--option=regex` leaves the loop over the
   command line: the filters after it are not seen, an `--except` among them, against
   `usage.go:46` (`spec_except`).
4. `assert_that.go:116`: `contains_exactly` on a dict reads the first half of the pairs it is
   given: `{1: 1, 2: 1}` fails with its own pairs and `{1: 1}` passes with two, against
   `doc.go:157` (`checks_pairs`). `PairsPassForTheirFirstHalf` says exactly what it accepts.

Weaknesses that properties are worded around, rather than runs of their own (the notes
of the hazards in `PROJECT.json` say what each property leaves out):

- `chans_bidi.go:110`: a stream the server finished is reported as a spent time budget: the
  program says so (`main.go:228`) and exits with OK, with no budget given at all.
- `assert_that.go:199`: `is_equal_to` on a subject that `contains_exactly` was called on
  compares by the order found then: after `contains_exactly(1, 2)`, `[1, 2]` is equal to
  `[2, 1]`, against `equal_test.go:28`.
- `attrs.go:206`: a predicate on an older subject makes the thread forget the last one, which
  is then never tested, against the comment of `Close` (`attrs.go:138`).
- `tags.go:46`: a check none of whose tags is listed by `--tags` is not excluded; only an
  empty list excludes, against `usage.go:68`.
- `main.go:227`: a bug is shown, the budget ends the campaign that follows it, and the
  program exits with OK.
- `resetter.go:70`: `isNotFirstRun` is set before the script runs; after a first reset
  that failed in `Start`, the next ones only run `Rst`.
- `caller_http.go:324`: the decoding error of a redirection's body is never taken back
  and fails the check of a later response that is valid JSON.
- `validator.go:121-467`: responses are validated without six keywords of the document:
  `exclusiveMinimum`, `exclusiveMaximum` and `minProperties` are written under names no
  validator knows, `additionalProperties` is left out, a `multipleOf` of 1 is stored as 0, which
  stands for none, and formats outside a list are lost. And `items`, one
  schema for all elements in OpenAPI, is kept as a list of one schema, which holds
  only the first element to it (`ir_openapi3.go:268`).
- `ir_openapi3.go:104` and `145`: a parameter that has a `content` in the place of a schema, and
  a JSON body without a schema, are dereferenced as nil; a response's are looked at first.
- `resetter.go:192` and `254`: after a call that failed, the next one starts from whatever
  environment is there, half-written or not; `resetter.go:242`: a script that rewrote it within
  a tick of the file system's clock is reported as incomplete.
- `call.go:318`: a check that fails keeps the state its script made, one the protocol cannot
  represent too, until the next reset.
- `fuzz.go:150`: `rt.lastFuzzingProgress` is that of the campaign before until the server
  reports another; that it does before a result is assumed.
- `github.go:140`: at the end of an archive that lacks the program, `break` leaves the
  `switch`, not the loop, and a nil header is read. `github.go:248`: the checksum is that of
  the first line that contains the archive's name, which another archive's name may
  contain.
- `do_pastseed.go`: a line over 64 KiB ends the search in a log, without a word; and the
  seed found is that of the youngest log that has one, whether its campaign found a bug
  or not, although the function's comment speaks of a seed that triggered one.
- `pwd_id.go:60`, `main.go:71`: runs started at once share a slot, its log, script and
  environment.

## Proofs

Each `*_proofs` module extends its component and proves, for every value of the
constants that its named assumptions allow, `Init => IInv`, `IInv /\ [Next]_vars =>
IInv'`, and that `IInv` implies the properties. The assumptions only give the
constants their types: bounds are naturals, a set of goroutines or processes is
finite, status codes are between 100 and 599, a tag is legal or it is not, a process
is started to run, update or find a seed, the initial state of a check is one the
protocol can represent (`builtin_check.go:77` refuses another).

- `ChBiDi_proofs` (`MaxSend`, `MaxEmit` any naturals, `Causes` any set of ends).
  `AnswerIsForThisMessage` is not inductive: that the sender answers the current
  message depends on where it is *between* calls. `SenderInv` says that it is
  then at its `select`, or waits with its farewell, and never ends; `WireInv` ties
  the length of the stream to the call in progress and to the sender's place;
  `ReceiverInv` says an error offered is an error. `CancelInv`, for
  `CanceledMeansCanceled`, follows an error from the goroutine that made it to the
  runtime, and says that until `Close` the goroutines' context is the caller's.
  From the same invariant, `Implementation` proves `Spec => ImplementsChannel`: each
  step is one of `Channel` or leaves its variables alone. A call that times out maps
  to `Fail`, and the message that reaches the stream later to `Put`. `EndInv` is about
  both contexts: `Close` ends the goroutines' one and nothing revives it, so that who
  looks at it after `Close`, as both do before each call on the stream, leaves.
- `Campaign_proofs` (any number of checks, instructions and campaigns). No property
  about the messages is inductive without knowing where both ends are, so `InStep`
  says, for each place of the loop, at which place of the same exchange the server
  is and what is under way in each direction; `UpFits` says that what is under way
  to the server is what it expects. `Feed` describes the server that talks without being
  asked: of the instructions behind each other only the last one opens an
  exchange. `ReportsReach` says the last progress under way, or else `standing`, is
  what the server told last; `EndsByResult` and `CodeTellsBug` bring that to the exit
  code.
- `UserChecks_proofs` (`Checks` any finite set). `PlaceInv` says a check is in one
  place only: running, in the buffer once, held by the consumer, or reported.
  `CountInv` makes the loop variable the cardinality of what was reported,
  so that reaching `N` means all of `Checks`; `PassedInv` makes the shared `passed`
  the conjunction over what was acknowledged. `CloseIsSafe`, `OutcomeCorrect` and
  the refinement (`Implementation`) follow.
- `ShellResetter_proofs` (`MaxResets` any natural). `OkMeansWholeScriptRan` needs
  `RunsInOrder` (what ran is a prefix of the script, all of it once Bash writes the
  environment) and `TouchTells` (during a call, a changed time of modification means
  Bash reached its last line); `ScriptFileIsGone` is inductive with them. From one
  reset to the next, `LeavesInv`: a script of `Rst` alone is only written after a
  start (`StartsOrStarted`), what started and was not interrupted is up
  (`UpOnceStarted`), only a failed reset leaves it otherwise (`StaysUp`), or leaves half
  an environment (`EnvInv`).
- `CallerHTTP_proofs` (any codes, endpoint and number of redirections). Two fields
  are never taken back, the decoding error and the matched code, so
  `ReceivedInv` says exactly what each field tells of the last response, and what
  more it tells when there was only one. `ChecksInv` says the checks left are the
  last ones and those before them passed: this makes up for the two fields.
- `SpecIR_proofs` (any names, shapes, documents, filters and tags). `TableInv`: an entry
  never changes, but a pointer, which keeps its name (`PtrInv`); until it is seeded a
  name's number is its pointer's, then its schema's (`RefsInv`); what is nested in a
  schema was numbered before it (`DocInv`). `TableDenotesDocument` is inductive with
  these: that equal schemas share a number is what `ensureMapped` looks for before it
  takes a new one. `FiltersFit` needs `NodesInv`, that an endpoint's numbers are
  those its document was given, and goes through the filters one by one.
- `CheckState_proofs` (any lists, states and number of assertions). What the verdict
  tells is decided from one local of the thread, so the invariant says what that
  local knows while the script runs: `PendingInv`, that only the last subject may be
  untested, and then the local is pending; `AskedInv`, that it is unset just when no
  predicate was called and no assertion is pending; `FoundInv`, that the snapshot of
  a check that has not failed can be represented.
  `AllAccepts` is about an algorithm: after `n` expected elements, each value is
  left or skipped at least as often as the list has it, less the times it was
  expected (`AllFindsAll`), as long as there were enough; if the expected ones are a
  subsequence, what is left is the list without its first `n` elements
  (`AllKeepsOrder`). `EqualityTells` is about three: until `containsExactlyElementsIn`
  ends, its counters hold, for each value, by how much it is missing or in excess
  (`CountersTell`), and what it compared before them is equal; a dict has one item of
  each key, the last one that was set (`DictTells`), so that counting its items is
  comparing sets. `PairsPassForTheirFirstHalf` follows, for what is refuted in `checks_pairs`.
- `Update_proofs` (any processes, any releases, any commands, any older logs). That the
  installed program is a released one depends on the temporary file: `TempInv` says that
  a hash that is the release's was computed over an archive that held the release's
  program, and that after the comparison this program is what the file holds; `PeekedInv`
  that the release was published. `ThenInv` relates the program that was installed when
  the latest release was asked for to that release, from which the action property
  follows: of all steps only `Replaces` changes the program.
  For the logs, `LogsInv`: there is a last slot at or above every slot that was taken
  (`SlotInv`), a run that saw another one's log took a greater slot (`SawInv`), and
  `pastseed` has read all logs between the place it is at and the greatest one it
  listed, which move down by one at most while it looks (`PastseedInv`).
- What is on the wire, in `SpecIR_proofs` as well (any number of five bytes, any bytes
  behind it). The bytes of a number but the last one continue (`Encoded`), so a number
  ends where it ended when it was written, whatever comes behind it (`NumbersSurvive`), and
  its length says where a string or a nested message ends. `FieldsSurvive` puts a key in
  front: fields written one behind the other are read one after the other, with none of
  their bytes taken for another's. `TruncatedIsRefused`: no proper beginning of a value is
  read as a value.

Of what liveness says, the part that needs no fairness is proved as well, by a number
that each step makes smaller (a variant) and by the absence of states where everybody
waits:

- `GroupEndsOrHangsAtHandOff`: `GroupTakesFewSteps` counts, for each check, its run, its send
  and the five steps of the consumer with its verdict, at most 7N + 3 in all;
  `NeverStuckBeforeHandOff` says that until `userChecks` returns the guard of one of them
  holds, that of the hand-off being a live context, or the consumer is at the hand-off and the
  context has ended. It needs that no verdict is lost
  (`NoneIsLost`) and that the buffer has room for all. That a goroutine which can go on does is
  the only thing left to fairness.
- `CallsReturn` and `StopsOrHangsAtHandoff`: `CallsAreShort`, at most five steps to the return
  of a call, and `SendHangsOnlyAtTheEnd`, for the hand-off that nothing guards: the sender is
  at its `select`, unless the context has ended since `Send` looked at it.
- `ExecReturns`: `ExecIsShort`, at most eleven steps of `exec`, of Bash and of the clock. It
  needs `FreshInv`, that a call finds nothing of the one before it half done.
- `EndOfContextExits`: `ExitsInFiveSteps`. `NeverSpins` says more generally that whatever
  fails, the program is done with a message in a bounded number of steps, and
  `NeverBothWait` that when it receives there is something under way, or it is the server's turn.
  It follows from `InStep`.

What loops over lists compute (`All`, `Counters`, `DictOf`, `FilterEndpoints`) is written
as recursive functions of the position in the list, and proved by the least
counterexample: the set of positions at which the loop's invariant fails has no
least element (`Least`, from the well-foundedness of `<` on the naturals).

Only model-checked:

- liveness, and so the assumptions on fairness, which is beyond the prover:
  `CallsReturn`, `StopsOrHangsAtHandoff`, `GroupEndsOrHangsAtHandOff`, `ExecReturns`,
  `EndOfContextExits`. The
  variants above are theorems; that the steps they count are taken is what TLC checks;
- `EveryMessageSurvives`: `Wire` walks messages within messages by RECURSIVE operators,
  which the prover does not take, and its proof would be one by induction over messages.
  What it does at each step of that walk is proved, for any values (`FieldsSurvive`); that
  the numbers of the 37 messages fit each other is looked at by TLC.

## Not modelled, and plan

Not modelled on purpose: formatting and linting (text in, text out, by a library), output
of the progressers, start-up (sequential, before anything else), value conversions
(structural, of JSON-like values); of the generated protocol code `Equal`, `String`, the
getters, the stubs of the service and the bytes of the descriptor; `monkey logs` and
`monkey env`, which print and change nothing; the predicates of `starlarktruth` that
look at one value.

What comes next:

1. The round trip of messages for any message and any protocol whose numbers do not
   clash, with `Wire`'s walk written as functions of the depth of nesting.
2. That `Campaign` uses its channel as `Channel` allows, as a refinement: a step of the loop
   stands for a call on the channel and its return.
