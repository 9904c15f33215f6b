# ai-calls-router in TLA+

`acr` is a local proxy between coding agents and their model providers. A turn
that only feeds back the results of cheap tools is served by a cheap model
("tier"); every other turn, and every turn the tier does not serve, goes to the
agent's own upstream. This directory holds TLA+ models of the program's core
logic, the TLC configurations that check them, and proofs checked by TLAPS.

Paths below are relative to `ai_calls_router/`.

## The system

| Component | State | Operations | Model |
|---|---|---|---|
| Serving path: `proxy/orchestrator.py`, `proxy/route_dispatch.py`, `routing/engine.py`, `routing/direct.py`, `proxy/passthrough.py` | the turn being handled; the upstream response, the usage read so far | `handle`, `try_route` and its paths, `record_route_outcome`, `_serve_premium_passthrough`, `forward`, `_relay`, `_UsageCapture` | `Serving`, `FailOpen`, `Capture` |
| Codex and Anthropic OAuth calls: `routing/codex_direct.py`, `routing/anthropic_oauth.py` | none | `responses_call`, `messages_call`, `strip_long_context_passthrough` | steps of `Serving` |
| Metrics: `accounting/metrics.py` | counters and newest rows in memory, `request_events` in SQLite | `incr_*`, `add_*`, `record_request`, `update_request_usage`, `bootstrap` | `Accounting`; counters and rows also in `Serving` |
| Ledger: `accounting/savings.py`, `accounting/ledger.py` | `savings.jsonl` | `record_routing_savings`, `load_entries`, `aggregate` | `Accounting` |
| Daemon: `ops/daemon.py`, `cli.py` | pidfile, start lock, the process | `start`, `stop`, `status`, restart | `Daemon` |
| Configuration loading: `proxy/server.py`, `routing/decide.py`, `routing/provider_config.py` | two caches over `config.yaml` and the provider files | `_load_assembled_routes`, `load_routes`, `load_provider_files`, `assemble_routes` | `Routes` |
| Tier selection: `routing/tier_selection.py`, `routing/agent_topology.py` | none | `pending_tool_names`, `lookup_tool`, `tier_for_tools` | `Tiers`, `Conversation` |
| Credentials: `routing/credential_resolution.py` | none | `resolve_tier_credential` | its outcome, in `Serving` |
| Conversion, adapters, synthesis, content repair, forward compression: `_lib/`, `routing/adapters/`, `routing/synthesis*.py`, `routing/content_sanitize.py`, `routing/forward_compression.py` | none; the history is the client's | one wire format to another, there and back | `Requests`, `Replies`, `Conversation`; their failure in `Serving` |
| Desktop and agent launchers: `ops/desktop.py`, `ops/wrap.py` | settings of other programs, sidecar and copy | `on`, `off`, `wrap`, `unwrap` | `Launchers`; an agent session that runs the daemon in `Daemon` |
| Wizard, bootstrap | files they generate | | as writers in `Routes` |
| Dashboard, logging, LiteLLM guard | none | | none |

How they interact: the server is one asyncio loop; a handler runs undisturbed
between two awaits. It awaits the provider, the worker thread that writes the
ledger, the upstream and each chunk of the relay. Other processes write the
configuration files and run daemon commands at any time. The books are rebuilt
at start-up from what an earlier process persisted.

What is hard, and where each is looked at:

- a turn is counted, guarded, booked and answered on one of five paths, each with
  its own early returns and its own copy of the guard (`Serving`);
- a failure after part of the work was done: a reply that cannot be shaped
  once it was booked, a `chmod` that fails after the line was written
  (`Serving`, `Accounting`);
- three books that are written one after the other, and a process that dies in
  between (`Accounting`);
- commands that share a pidfile, only one of which takes the lock (`Daemon`);
- two caches with different keys over files that change while they are read, and
  files at fault that must take nothing from the others (`Routes`);
- three wire formats, six ways to a tier, calls of two kinds, and a history that keeps what
  each of them replied and replays it turns later on another way (`Conversation`);
- a scanner of a stream whose chunks end anywhere (`Capture`);
- files of other programs that are written in place, with a backup beside them, by
  commands that can be cut off (`Launchers`).

`PROJECT.json` lists the hazards line by line, with the properties that would
catch each going wrong or the reason why none does yet.

## Modules

**FailOpen** is the abstract promise to the client: a turn waits, is tried on a
tier or handed to the upstream, and is answered once; the tier answers only while
the turn is being tried there, and the proxy speaks in its own name only to refuse
a turn it has tried nowhere or to say that the upstream cannot be used.

**Serving** is the handler. `pc[r]` names the await a turn is at; the action from
one to the next does everything the code does in between. The exception is the hand-over
to the upstream, split in two (`EnterPremium` at the end of the attempt, then
`Forward`) because the configuration is loaded again there and another process may
write it in between. `Dispatch` picks the path (`PathOf`) from the endpoint, the
kind of tier and the credential; `CallFails` and `CallReplies` are the
provider's outcomes, with the guard of that path; `SkipLedger`, `AppendLedger`,
`AddSavings` and `ChmodFails` are the worker thread; `ServeRouted` and `ShapeFails`
are `record_route_outcome` and the shaping of the reply; `Forward`, `SendOk`,
`SendFails`, `RelayCompletes`, `CaptureFails`, `RelayBreaks`, `CloseUpstream` are the relay.
The routes may fail to load: for a turn that was just counted (`RoutesFail`), within
the attempt, which fails open, or once the premium row is recorded (`ForwardFails`). Reading
the usage at the end of a relay may raise, which `_finish_capture` swallows: the client
has the whole answer and the row stays open (`CaptureFails`). Bodies, prompts and prices
are abstracted away: a reply is `plain` or invokes a
`premium_tool`, a row keeps its route, whether it carries the request id and
whether its usage is known.

**Accounting** has the same turns in less detail and the books in more: the ledger
as lines of (possibly several, possibly damaged) entries, the rows in memory and in
the database, the live totals per turn, crashes, and `Start`, which is
`Metrics.bootstrap`. A text is whole, cut in its JSON, cut inside a character, or
whole with a character at which `str.splitlines` breaks it.

**Daemon** has the commands as sequences of file operations and signals, the
processes they spawn, zombies, and interruption at every step.

**Routes** has the files as (content, mtime, inode), a load as stats and reads
in the code's order, and writers that truncate and fill or rename. The provider
files are visited in any order where the code sorts the groups: more behaviours, and
nothing depends on it. An invalid payload is dropped and the rest assembled again; one
whose upstream `urlsplit` refuses raises a `ValueError` that nothing catches, and so does an
error of `path.exists()`: the load ends, nothing is cached, and the next one starts over.

**Tiers** has the choice of the tier as operators: the tool map with exact names
and trailing patterns, other spellings of premium tools, the fallback to the
built-in map, the precedence, and `Decide`, the exits of `prepare_route` that
depend on them. A tool name is a sequence of parts so that a pattern can be a prefix.

**Requests** has a request body on each of the three wires and what is done to it, as
operators: the client's history as a body (`Body`), the repair of what comes in,
the pending tools as each adapter finds them, `ToAnthropic`, `AnthropicToItems`,
`ConvertForLitellm`, the sanitizing of calls and results, `UnpairedCalls`, and
`Compress`. A result is `long` (a string) or `rich` (a list with texts and an image); what
becomes of it is kept: `crushed` (a shorter string), `texts` (the texts of the list), `repr`
(the list as Python prints it), `digest` (either of these, shorter). Whether strings, or the
texts of lists, get shorter is open. A call is a function call or a custom one, whose
arguments are `free`; the two differ only where the code asks (`Custom`).
**Replies** has the way back: the reply put together from a Codex
event stream, the conversion to Anthropic blocks, to the client's wire, and the
stream the proxy makes up, read back as a client reads it.

**Conversation** composes them: a client with its history, the proxy, and a tier or
the upstream that answers. One action is one turn; how a turn fails is the subject
of `Serving`, here it is a turn that goes upstream. The client may answer some of the
calls made and leave others open, add words, or (on the Responses wire) send only
what is new.

**Selection** has one operator, the list comprehension with a condition.

**Capture** is `_relay` with `_UsageCapture`, byte class by byte class: the decoder
that waits for the rest of a character, the line ends, the events, the last event
without its end, and the relay that ends by itself, over bytes that are no text, over a
usage whose reading raises (`Raising`: 1e999, an integer of more than 4300 digits, JSON
nested too deeply), or because someone left.

**Launchers** has `acr desktop on/off` and the Hermes half of `acr wrap/unwrap` as
file operations, interrupted after any of them, with a user who edits the file
at any time. `wish` is a history variable: what the user is entitled to find there.

`MCServing`, `MCAccounting`, `MCDaemon`, `MCRoutes`, `MCConversation`, `MCCapture` and
`MCLaunchers` instantiate them for TLC.
Operators whose comment begins with "Mutation" are not part of the models: they are
plausible bugs that show that a property can fail.

## Runs

| Run | Constants | Distinct states | What it shows |
|---|---|---|---|
| `Serving.cfg` | 2 turns (an engine path, a Codex path), symmetric | 3.1 million | counters, classification, rows and ledger agree with what happened to the turns |
| `ServingTurn.cfg` | 1 turn, all 24 shapes, fairness | 9.5 thousand | guard, OAuth out of the engine, no leaked response, finality of the hand-over, refinement of `FailOpen`, every turn ends |
| `Accounting.cfg` | 2 turns, 2 rows kept, 2 crashes | 2.8 million | nothing counted twice across restarts; memory, database and ledger agree; lines are never damaged once ended |
| `Daemon.cfg` | 2 clients, 2 pids, fairness | 47 thousand | which daemons can go untracked and how; stop and failed start mean what they say; every command returns, but for a start behind a child that outlives SIGTERM |
| `Routes.cfg` | 2 groups, 2 writes, failing reads | 9.1 million | a load that returns has what each file held during the load, unless it finds the file missing; an invalid file is dropped alone; a load that raises does so for a file it could not look at or drop |
| `Conversation.cfg` | 2 calls (one custom on the Responses wire), histories of up to 6 messages, 4 tool maps, every wire and kind of tier | 326 thousand | a cheap turn is proved cheap by the history; results reach whoever answers, paired; replies reach the client but for custom calls that are dropped; what they leave in the history is repaired |
| `Capture.cfg` | 22 responses, every way to cut them | 1.2 thousand | the usage reported does not depend on the cuts; nothing is invented; the capture ends the relay only over bytes that are no text or a usage whose reading raises |
| `Launchers.cfg` | 2 files, 5 contents a user writes | 1.2 million | what is undone is undone exactly; other settings stay; a file that points at the proxy has its backup, or half a copy that was cut short, and no other case |
| `ServingSavings.cfg` | 1 turn | violation | a booked turn that the upstream answers to the end |
| `ServingGuardSetting.cfg` | 1 turn | violation | the guard cannot be turned off on the Codex paths |
| `AccountingStartup.cfg` | 1 turn, 1 crash | violation | an undecodable ledger line ends every start |
| `ConversationResults.cfg` | as `Conversation.cfg` | violation | of calls made together only the first keeps its result |

Why the bounds are enough. Turns share only the counters and the configuration,
so two of them show every interleaving and one shows every path; the proofs
below lift the safety properties to any number. Two turns write up to four
rows, so a list of two evicts; two crashes let what one life left meet what the next
adds in a third. Two clients meet in every pair of steps; two pids give one command
an old daemon to have read about and a new one to be surprised by (three pids, 772
thousand states, show nothing else). Two writes are one write in place, or one before
and one during a load. Two calls are made together or one after the other, answered together,
one by one or not at all; six messages are three turns, so a tier's reply is
replayed twice, and the four tool maps are the four ways a batch is decided (exact
name and pattern, a pattern for everything with a premium tool under another spelling, a
tier without a precedence, a malformed map). The responses of `Capture` have the usage at the start and
at the end, a character of two bytes inside it, each kind of line end, data on two lines,
a cut before the last empty line and inside a character, and a usage whose reading
raises: behind another one, on two lines, in the last event without its end, in a body. Two settings files are what
it takes for a sidecar to belong to the other one. `Accounting` and `AccountingStartup`
disable the deadlock check because a system whose server cannot start, or whose
turns are all over, stops; so do `Conversation`, whose history is bounded, and
`Capture`, whose response ends.

Fairness. `Serving!FairSpec` is weak fairness of a turn's own steps once it
arrived: provider calls and the relay have timeouts, the loop and the worker thread
run. Nothing is assumed of clients or editors. `Daemon!FairSpec` is weak fairness of
a command's steps and of the exit of a process that was killed, and
strong fairness of taking the lock, which the kernel grants to its waiters in turn.
Nothing is assumed of a daemon that got SIGTERM: it may outlive it for ever, as uvicorn
does while a connection stays open. `start` then waits for its child without a timeout,
holding the lock, and `EveryCommandReturns` says that this is the only wait without an
end: `stop` and `status` always return, and a `start` that does not waits for such a child
or for the lock of a start that does.

## What disagrees with the documentation

1. **Savings for turns that were paid in full** (`SavingsHappened`). The turn is recorded
   before its reply is shaped; if shaping raises, the turn fails open, the client gets the
   whole answer of the upstream, and the savings stay.
2. **The guard setting does not reach the Codex paths** (`DisabledGuardServes`).
   They call the guard with empty settings.
3. **A corrupt line can be fatal** (`CorruptLinesNeverFatal`). A line cut inside a
   multi-byte character makes `read_text` raise `UnicodeDecodeError`; the bootstrap
   catches `OSError`.
4. **Results are dropped that are no orphans** (`OnlyOrphansDropped`). When a
   Responses conversation is converted for a tier, calls made together become one
   message and their results one message each; only the first of those counts as
   the answer, so the other calls are dropped with their results.

Seen in a model, without a run of their own:

- one provider file can fail every request: an upstream that `urlsplit` refuses
  (`https://[`) raises a `ValueError` that is no `ProviderConfigError`
  (`provider_config.py:91`), so `_assemble_routes_fail_open`, "dropping invalid provider
  payloads one at a time", does not drop it; `path.exists()` (`provider_config.py:66`) is
  outside the `try` behind "Malformed files are skipped". The turns that meet either are counted in
  the total and classified nowhere (`Routes`; `EveryTurnClassifiedOnce`, `Unrouted`);
- a row stays open although the client has the whole answer, if reading the usage raises at
  the end (`RowsTellTheOutcome`, `unread`);
- the calls per model do not survive a restart for turns that were not priced (`Accounting`);
- `stop` and `status` unlink the pidfile without the lock and without looking at it
  again, so a daemon can lose it (`Daemon`; the exception in `DaemonsAreTracked`);
- an edit may not take effect: the outer cache tells two writes in one tick of the
  file system clock apart by size and inode, the inner one, keyed by the mtime, does
  not, and its stale answer is then cached under the new signature (`Routes` with
  `Tick = 2` violates `ServesWhatWasThere`);
- all missing files have one signature, so a provider file created while a load runs
  and deleted later is served from the cache once it is gone (the exception in
  `ServesWhatWasThere`);
- a body compressed for the upstream read when the turn arrived can be sent to
  DeepSeek, the one read after the provider was awaited (`Serving`);
- a reply of an Anthropic OAuth tier streamed to an Anthropic client tells of thinking at
  the front as an empty text, which the history then keeps, although blank texts are to be
  dropped from what is emitted (`content_sanitize.py:7`, `route_dispatch.py:166`; the exception
  in `ReplyArrives`; it is repaired when it comes back);
- custom calls of a reply get no item events when it is streamed, "for every final output
  item" (`synthesis_responses.py:168`), and no block when it is converted, though adapters,
  guard and pairing know them (the exception in `ReplyArrives`);
- a reply rebuilt from a Codex stream has calls without their arguments (the other
  exception there);
- on the way to a tier a result that is a list becomes its texts or, compressed or converted
  from a Responses body, its Python text, and its image is lost; on the way to the upstream too
  if its own text or any other result got shorter (`ResultsArrive`);
- a pattern for everything matches `<unknown>`, so a turn whose tools nobody can name is
  routed (`CheapOnlyWhenProved`); a batch of a tier without a precedence and one with it
  goes to the latter;
- a byte that is no text, a usage of 1e999 or of more than 4300 digits and JSON nested too
  deeply end the relay of an event stream (`OnlyUnreadableBreaks`), and CR LF cut between two chunks loses the usage of an event with data on two lines
  (`UsageWhateverTheChunks`);
- a copy of the Hermes configuration that was cut short is taken for the original from then
  on: the next wrap points the file at the proxy, and unwrap leaves half of what the user
  had (the one exception in `NeverStranded`); a wrap that fails after the copy (the file is no YAML mapping) leaves it, and a
  later unwrap puts it over what the user has mended since; settings are written in
  place and lost when cut short (the exceptions in `OffRestores`, `OtherSettingsStay`).

Seen and not modelled: restored input tokens count cached tokens, live ones do not;
`_UsageCapture` knows the keys of Anthropic usage in the places Anthropic puts them,
so premium turns of Chat clients and of streaming Responses clients are recorded without usage.

## Proofs

Every safety invariant and action property that a passing run checks is a theorem, for
every value of the constants that meets the assumptions below. A run checks the instance,
the theorem the rest.

| Module | Theorems about checked properties | Other theorems | Assumptions |
|---|---|---|---|
| `ServingProofs` | `TypeCorrect`, `CountersCorrect`, `ClassifiedOnce`, `GuardIsHonoured`, `BookedAtMostOnce`, `NoLeak`, `OauthNeverInEngine`, `RowsAreTrue`, `PremiumStays`, `Refinement` | | `RequestsAssumption`: finitely many turns (for the cardinalities); `ShapesAssumption` |
| `AccountingProofs` | `TypeCorrect`, `TurnsCountOnce`, `SavingsAreBacked`, `PremiumTotalsAgree`, `RecentAgrees`, `UsageStaysApart`, `LinesAreFinal` | | `BoundsAssumption`: at least one row is kept (the code keeps 100), crashes are counted |
| `DaemonProofs` | `TypeCorrect`, `Tracked`, `Stopped`, `FailedStart` | `OneDaemon` | `NobodyAssumption`: the two null values are no pid and no client |
| `RoutesProofs` | `TypeCorrect`, `Serves` | `FaultsStayApart` | `RoutesAssumption`: finitely many groups, none called config; `Tick = 1` in `Serves` |
| `LaunchersProofs` | `TypeCorrect`, `Restores`, `SettingsStay`, `Stranded` | | `LaunchersAssumption`: Hermes's file is one of the files; `WrittenAssumption`: the user writes neither acr's marker nor its URL |
| `CaptureProofs` | `CaptureTypes`, `UsageIsTheTruth`, `NothingIsInvented`, `RelayIsWhole` | | `CaptureAssumption`: a response is a sequence of events made of lines, with one kind of line end, complete or cut inside its last event, and usage objects have captured keys only, those whose reading raises (`Raising`) among them; `OneTextAssumption` (only `NothingIsInvented` uses it): the data of an event is one text, so that no other usage object is a part of it |
| `SequenceProofs` | | lemmas only: sequences, folds and numbers, and from them the blocks, items and streams of `Requests` and `Replies` | none |
| `ConversationProofs` | `ConversationTyped`, `OnlyProvedIsCheap`, `ParsersAgree`, `ConversationsArePaired`, `EveryResultArrives`, `ForwardIsFaithful`, `RepliesArrive` | `RoutedIsProved`, `MostDemanding`, `MoreIsNoCheaper`, `UnknownIsPremium` | `ConversationAssumption`: call ids do not repeat and each has a tool, the custom calls (`Freeform`) are among them, tool maps are sequences of entries and precedences of names, the bound on the history is a number; the other theorems are about operators and need none of it |

TLC evaluates every assumption on each run of the module. `IInv`, where a module
has one, is its inductive invariant; TLC was run with it as an invariant under the
module's `.cfg` before it was proved.

**Serving.** None of the properties is inductive alone: whether a reply may be
served depends on the guard having been passed three steps earlier. The inductive
invariant is `TypeOK`, the counters' and the path's invariants, and `Phases`, which
says for each await what holds of the reply, the reason, the answer, the ledger and
the response there. `Phases` is kept action by action. A counter moves by one exactly
when one turn joins the set it counts; that step is a lemma on cardinalities
that each action instantiates. The sum in `ClassifiedOnce` follows because every
counted turn is in exactly one of five disjoint sets, the last being the turns whose routes
did not load (`Unrouted`). `RowsSoFar` adds what a turn's
rows are at each await: at most the row of an attempt, then the premium row, open
until the relay ends; closing finds the newest row that carries the id
(`CloseNewest`), which `RowsAreTrue` needs to be the premium one. A step of one turn
touches the rows of no other (`RowsAreLocal`). `PremiumStays` is the action property
over a step from `Phases` and `RowsSoFar`. For `Refinement` (`Spec` implies
`FailOpen!Spec` under the mapping `Stage`, `By`) each action maps to one abstract step
or to a stutter, by `Phases`.

**Accounting.** A total counts a turn once because the stages order what a turn does:
until a stage is reached the total is without the turn (`NotYetCounted`), and the
line that `Start` would restore it from is not written (`WrittenOnce`). A crash ends
every turn under way (`OnlyWhileUp`), so what is restored is of turns that are over. That usage
meets its own row follows from `PremiumRowIsNewest`: while a turn is relayed its
premium row is its newest, in the database and in memory, before the routed one of
the same turn. `RecentAgrees` is the longest: the list in memory is the newest rows of
the database, then rows of the ledger, and recording, evicting, closing and restoring
each keep that for any number of rows; `KthLargest` is the lemma behind `LedgerRows`,
which picks the newest readable lines one by one. `LinesAreFinal` is proved step by
step from the two actions that write the ledger.

**Daemon.** The lock is the argument for start: its steps are taken by the holder only
(`LockHeld`), between its reading and its writing there is no pidfile, and nobody
else knows the child's pid (`NothingWritten`). Stop takes no lock, so the invariant
says for each of its steps what became of the pid it read (`HeldPids`), and a
pid once spawned is not unused again (`PidsSpawned`). The two ways to lose a daemon
are where a step breaks the rest of `DaemonsAreTracked`; `orphans` takes them up there.
`OneDaemon` follows: of the daemons that are not orphans at most one is alive.

**Routes.** `Stamps` says that no mtime is later than the last write, so a file that
still has the mtime a cache noted was not written since (`Since`). Then whatever
either cache or the load under way has of such a file is what the file holds
(`InnerIsFresh`, `OuterIsFresh`, `WorkIsFresh`), and what it has of a file written
during the load is something it held then. With `Tick = 2` two writes share an mtime and
the property fails, as TLC shows; the hypothesis `Tick = 1` is the disagreement listed
above and is not needed for `TypeCorrect`. `FaultsStayApart` is about the loop
(`Tried`): it drops an invalid payload at a time, raises just if one of the payloads cannot be
dropped, and ends with the valid ones otherwise, shown for any finite set of groups, by the
well-foundedness of inclusion on them.

**Launchers.** `ClaudeFile` and `HermesFile` say what a file and its backup can be at
every step of a command: the user's, or the user's with the URL and then a
backup of what the user had, complete or, for Hermes, cut short by an earlier interruption; `ClaudeCommand` relates what the command
read to what it will write. `OwnWish` keeps what the user had apart from what acr
wrote. All of it holds at every step, so a command may be cut off at any of them.

**Capture.** `RelayIsWhole` rests on `DecodeInPieces`: the decoder fed piece by
piece refuses a piece just if it refuses all it was fed at once, and waits for
the same. The invariant is that the decoder is where the bytes read so far put it. And if an
event raises, its usage is one that the response states: what is pending is an end of what
was read (`FromText`), so the usage was heard by a reader of the whole (`HeardFromText`,
`ReadGrows`). The other three compare the capture with a reader that takes the same bytes without a
buffer, a decoder or chunks (`Reader`). First, a chunk fed whole is its bytes fed one by
one (`FedSteps`), although the code replaces the line ends of the whole buffer and
searches all of it each time: what is left between chunks is `Clean`, so doing both again
changes nothing. Then a byte keeps capture and reader agreed (`AgreeByte`). They know the
same, or the capture is `Early`: a CR that ended a chunk counted as a line end, and the LF
that came next ended the event before the reader's did. If the event has its data on one
line nothing more comes of it, and the reader catches up. If it has data on two lines they
may part for good; then what is pending is still an end of what the reader has of the
event (`FromText`), which is what `NothingIsInvented` needs. Last, what the reader has of
a response, line by line and event by event, is what the response states
(`ResponseIsRead`), also when its end is cut off. `CaptureInv` is the agreement after the
bytes taken so far, and that nothing is reported before the end. `OneTextAssumption`
cannot be left out: two JSON objects on the data lines of one event are no usage, but each
of them is when a cut between CR and LF takes the event apart.

**Tiers.** Theorems about operators, for every tool map, precedence and batch: a
routed turn brings results, each of a tool mapped below premium; the tier chosen is
one the batch needs and none it needs comes before it; adding results never moves a
batch to a later tier; a result nobody can name is not routed, unless a pattern matches
the placeholder. They rest on `LeastOfSome` of `SequenceProofs`: the community modules' `Min` chooses the
least of some numbers, by the well-foundedness of < on them.

**Operators over sequences.** What a filter, a concatenation or a fold gives for every
input takes induction over data. The library's induction theorems take an operator,
which the provers cannot instantiate; `NatInd` and `SeqInd` take a set instead (the
lengths, or the sequences, of which a claim holds) and are proved from the
well-foundedness of <. From them `SequenceProofs` derives what each operator
that the models use gives (`FoldOfAppend` for a fold, and the like for filters, places
and flattened sequences), and from those `ConversationProofs` the lemmas about repair,
conversion, stripping, compression and the two event streams (those about blocks and items in
`SequenceProofs`), `CaptureProofs` those about
decoding, line ends, events and usage. A step of a fold is a function, not an operator,
so that a lemma can be stated about any of them.

**Conversation.** The inductive invariant `Inv` is types and `GoodHistory`: user and
model take turns; what the user brings are results of calls just made, then words; a
reply is words and thoughts, then calls; and no call is made twice. It says nothing of
the turn under way, which an action produces in one step: the other properties follow
from `Inv` before the step. The arguments:

- `ForwardIsFaithful`: cleaning drops only what cannot be seen, compression changes only
  the form of results, so what is left of a message under both is the same;
- `RepliesArrive`: what the client reads is computed for a reply of any length, by wire,
  kind of tier and ending of the stream; folding the events puts back the blocks the
  stream was made of;
- `ParsersAgree`: in each wire's body, what is behind the last reply is exactly what the
  user brings (`RunIs`, `BodyOfLatest`), and each call is found under its id once;
- `OnlyProvedIsCheap`: from `ParsersAgree`'s lemmas and the theorems about `Tiers`;
- `ConversationsArePaired`: after the sanitizing every message is `Paired` with its
  neighbour; the conversion keeps that message by message (`Conversed` relates the
  positions), and so the Chat messages are (`ChatIsPaired`), wherever the body starts: a
  reference may leave earlier messages out;
- `EveryResultArrives`: every step on the way (body, cleaning, conversion, compression)
  carries each result over under a map of its form that is the same for all
  (`Carried`); the maps there are compose (`Tame`), and a result is there once because
  ids are unique (`OneOfEach`). On the sanitized path the first result survives because the
  calls made together are put together directly before the first message of the user
  (`CallsJoin`, `FirstStays`).

Only model-checked, and why:

- `EveryTurnEnds` and `EveryCommandReturns`: liveness under fairness;
- what the four violated runs show.

## Abstractions and assumptions

- A failing `stat` looks like a missing file to the signature, and is not modelled there.
- The relay generator is started even if the client is gone, so its `finally` runs.
- Request ids are unique; rows recorded by the engine carry none, as in the code.
- SQLite commits are atomic; time does not run backwards between two rows.
- Pids are not reused.
- A turn counts as one unit in every total; amounts of tokens and money are not
  modelled.
- An interrupted worker thread is a crash of the process.
- A client writes no system messages between its turns, does not edit its history, and
  names its calls uniquely; a reply is thinking, then a text, then calls.
- The wire, the kind of every tier and the configuration stay the same for a conversation.
- Whether strings are worth compressing, and whether the texts of lists are, is chosen once
  per body.
- One launcher command runs at a time; the user does not write acr's marker or URL.
- A sidecar is complete or cut short; a settings file is its URL, the object it is in,
  and the rest.

## Not modelled

- Tool schemas, tool choice, stop reasons, message ids and usage fields in the conversions, and
  the wording of events: they are copied or mapped one by one, and no property of
  the turns depends on them.
- The compressor, LiteLLM and the HTTP client: libraries, modelled by their outcomes.
- Prices and amounts of tokens: numbers that are only added and displayed.
- HTTP headers, URLs, and the long-context marker of the Anthropic OAuth calls.
- Agent, provider and session labels of the rows.
- The wizard's dialogue, the generated shell functions and the
  environment of a launched agent, the dashboard,
  logging, and the LiteLLM guard, which is configuration at import: input and output.

## Plan

1. `Identity`: `resolve_agent_group`, the order of credential sources, and a turn
   that loads the routes three times while they change, composed with `Routes`.
2. Proofs of what `Identity` will promise, from the same lemmas.
