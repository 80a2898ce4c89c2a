# TLA+ models of astra-daw-guard

astra-daw-guard lets an AI agent work in a digital audio workstation (DAW)
under a policy: every proposed step is an *Action*, a Policy Engine answers it
with ALLOW, ASK or DENY, an enforcement boundary runs tools only as the answer
lets it, and adapters carry the tools out in Ableton Live, Ardour and Reaper.
This directory models the parts of it that decide, that wait and that write, in
TLA+; TLC checks them on small instances and TLAPS proves the main results for
every value of the constants.

## The system

| Component | State | Operations | Works with |
|---|---|---|---|
| **Policy Engine** `policy_engine/` | none: a pure function of the Action, and an ordered table of rules | `evaluate`, `evaluate_plan`, `worst_decision`, `plan_is_clear`, the snapshots of `daw_state`, the CLI | called by the boundary and by the agent |
| **Enforcement boundary** `enforcement/boundary.py` | the caller's audit log, the Action the caller passes | `enforce`, `guarded` | asks the Policy Engine, runs a tool of an adapter |
| **Ableton OSC client** `mcp-ableton/.../osc_client.py` | a registry of queues under a lock, one per OSC address | `query`, `send`, the handler of incoming datagrams | UDP to and from Live; a thread per datagram |
| **Ableton tools** `mcp-ableton/.../server.py` | none of their own: Live's track list, clips, tempo, transport | six write tools, some reads | boundary, OSC client |
| **Ardour OSC client and tools** `mcp-ardour/` | one socket: its timeout and the datagrams waiting in it | `query`, `query_list`; `get_transport`, `get_tracks` | UDP to and from Ardour |
| **Reaper tools** `mcp-reaper/` | none of their own: Reaper's project | three write tools, some reads | boundary, reapy |
| **Source recorder** `tools/record_source.py` | `sources/sources.json` | one read-modify-write per run | the allowlist it shares with the Policy Engine |
| **Helpers** `tools/` | none | `deny_check` (a heuristic), messages, a benchmark; installers | the user |

What makes each of them correct, and what makes that hard:

- **Policy Engine.** Its verdicts are what `policy/deny.txt` and
  `policy/allow.txt` say, though its rules are searched in order and the first
  match wins. Hard: rules that shadow each other, facts missing from an Action,
  host names at a label boundary, strings in any case.
- **Boundary.** Nothing runs that was not permitted, and the log tells the truth.
  Hard: calls overlap, the Action is the caller's and may change between the
  verdict, the entry and the run, and a tool may fail after it was logged.
- **OSC clients.** A query gets the answer to itself or an exception, soon. Hard:
  datagrams are late, lost or out of order, a late reply meets the next query,
  and two timeouts govern one socket.
- **Ableton tools.** What is reported as done is done; nobody's track is changed
  but as allowed. Hard: Live answers no write, applies it later or never, tracks
  are found by name and written to by index while the user moves them.
- **Reaper tools.** Generated MIDI lands on GEN- tracks, the rest of the project
  stays as it is, and the open project's file is never written. Hard: each reapy
  call is a request of its own, may fail before or after its effect, and calls of
  several agents and the user's own work come in between.
- **Recorder.** The log of sources only grows. Hard: runs overlap or die.

`PROJECT.json` lists the components, the modelled lines, and each hazard at its
line with the properties that watch it.

## The modules

| Module | Models | Checked by | Proofs in |
|---|---|---|---|
| `PolicyEngine` | the engine, plans, snapshots, the CLI; the agent composing a plan | `MCPolicyEngine` | `PolicyEngineProofs` |
| `Enforcement` | `enforce()` in overlapping calls | `MCEnforcement` | `EnforcementProofs` |
| `OscQuery` | the Ableton client, its handler threads, UDP, Live's replies | `MCOscQuery` | `OscQueryProofs`, `OscServiceProofs` |
| `RequestReply` | *abstract*: what a request/reply client promises | as the PROPERTY `ImplementsRequestReply` | |
| `ArdourOsc` | the Ardour client and tools, the clock, UDP, Ardour | `MCArdourOsc` | `ArdourOscProofs` |
| `AbletonTools` | the write tools, Live, UDP, the user's edits | `MCAbletonTools` | `AbletonToolsProofs` |
| `ReaperTools` | the write tools, reapy, the user's edits, in overlapping calls | `MCReaperTools` | `ReaperToolsProofs` |
| `RecordSource` | concurrent runs of the recorder | `MCRecordSource` | `RecordSourceProofs` |

How they compose. `PolicyEngine!Evaluate` is the engine everywhere:
`MCEnforcement`, `MCAbletonTools`, `MCReaperTools` and `MCRecordSource` instantiate
it and hand its verdicts to the component as a constant (`DecisionOf`,
`VerdictOf`, `FetchAllowed`), so the components are proved for *any* engine - or
any that satisfies a named assumption, `GatePolicy`, which TLC evaluates for this
one - and checked with *this* one. The gate of the tools is the boundary's
rule `Permitted`, whose steps are `Enforcement`'s subject. `AbletonTools` takes
each query as one step that returns an answer or raises, which is `RequestReply`.
`OscQuery` is shown to implement it at the addresses that one thread alone queries
and where replies are prompt, whatever happens at the others meanwhile.

In every module a definition keeps the name of the code it models, and a
definition marked `Mutated:` is a plausible bug in the one below it; the
specification never uses it. It shows that the properties notice.

### PolicyEngine

The variable is the `plan`, a sequence of raw Actions. `Propose`,
`SetAttribute` and `DropAttribute` are the agent's, `AttachState` is
`attach_to_attributes` with a snapshot that one of the three constructors made of
what was read. `RULES` is the table of `rules.py`, in its order, and `Evaluate` is
`evaluate`: the shape of the raw Action, the known operations, the first matching
rule. `Refused` are the shapes that end in DENY before any rule: what `from_dict`
raises on, and what is neither a dict nor an Action. An Action built in-process is not
checked: with an unhashable operation it makes `evaluate` raise, and with
attributes that are no dict it raises only where a rule, or the capability note,
reads one. `DecidedByName` are the operations where neither does.
`cli_main` maps the input to the exit code,
by its four paths. Attribute values are tokens, and a host or a track name is
the sequence of its labels, as the rules look at nothing else; `is True` and
truthiness are kept apart, and `"1"` is a value that tells them apart. An optional
field is a set with at most one element.

### Enforcement

`Enforce` is the evaluation, `Block` the refusals (ToolDenied,
ApprovalRequired) with their entry, `Clear` the entry before a run, then
`RunTool` and `ToolEnds`. `Rewrite` is the owner of an attributes dict changing
it at any moment. An Action given as a dict is copied by `from_dict`, one level
deep; an Action *instance* is used as it is, and so is its dict in the entry
(`Shown`). A dict that `from_dict` refuses is denied with its own attributes in the
Decision, so its entry shares them too (`Shared`, `Unparsable`). The four verdicts
include `RAISE`, an instance that `evaluate` cannot judge.

### OscQuery

`Register`, `Send` / `SendFails`, `Get` / `Timeout` and `Pop` are the steps of
`query()`; `Lookup` and `Put` are the two halves of `_on_message`, in a thread
for each datagram, with the lock released between them. `Answer` and `Lose` are
Live and UDP. Queries carry the number in which they registered, and so do their
queue, request and reply. `Prompt` names the addresses at which no reply of
Live's is later than the timeout: a query there only times out when a datagram
was lost. `Served` are those of them that one thread alone queries.

### ArdourOsc

`GetTransport`, `RecvFrame`, `RecvSpeed` and `QueryTimeout` are `get_transport`
with its two `query()` calls; `GetTracks`, `ListTop`, `ListRecv` and `ListTimeout`
are `get_tracks` with the loop of `query_list()`. `elapsed` counts ticks since
the request, `wake` is when the blocked receive gives up. `Tick` cannot pass
`wake`: a receive that is due returns before the clock goes on, and so does the
loop at its deadline. `Deliver` and `Lose` are the network; it keeps Ardour's
order, as the messages come from one sender on the same machine (127.0.0.1 by
default). Tool calls are made one after the other: two that overlap would read from
the one socket, take each other's replies and set each other's timeout, and are
left out, as nothing in the repository makes them from two threads.

### AbletonTools

A tool is the gate (`Call`, with the boundary's rule `Permitted`), the lookup
(`CountTracks`, or `FindCount` and one `FindName` per track queried), `Send`, and
`Poll`, one read of `_wait_until`. `SendMalformed` is a note that lacks a key: it
raises before the first send, or between the two. Calls are made one after the
other. `Apply`, `Lose` and `Edit` are Live, UDP and
the user, between any two of them. `QueryUnanswered` is a query about a track or
clip that does not exist, which Live leaves unanswered.

### ReaperTools

A call is the gate (`Call`), `_project()` (`OpenProject`) and then the tool's reapy
calls in their order, one step each: `CountTracks`, `AddTrack`, `Report` of
`create_track`; `ListTracks`, one `Look` per track, `AddItem`, one `AddNote` per note
and `NotesDone` (`sort_events`) of `write_generated_midi`; `Save`. `Fails` is a reapy
call that raises without effect, `Returns` one that may raise after it. Tracks and
items are identities, as reapy objects stand for Reaper's own: a track that is
moved is still found, one that is deleted is not. A note may lack its `end`,
which raises before the item is made, or its `start` or `pitch`, which raises when
its turn comes. `Edit` is the user inserting, renaming or deleting a track, and
`history` records what they did, for the properties.

### RecordSource

`Start` is the allowlist test with `--force`, `Read` the parse and the append,
`Open` and `Write` the two halves of `write_text`, `Crash` a run that dies.
Overlapping runs write over each other from the start of the file, so the end of
a longer list may remain behind a shorter one.

## The runs

`tlc -config <cfg> <module>`; deadlock is not checked in any, as every model
really may stop: a plan is complete, all calls are made, Live stays silent.

| cfg | Question | Answer |
|---|---|---|
| `MCPolicyEngine` | is DENY what `deny.txt` bans, at most ASK what it leaves to the user, ALLOW only what `allow.txt` permits, whatever attributes are given, changed or missing? is a plan as bad as its worst step, by every way into the CLI? do snapshots tell no more than a DAW can report and change no verdict? | yes |
| `MCPolicyFailClosed` | does leaving a fact out never turn a refusal into ALLOW? | **no**: `computer_use.invoke` |
| `MCEnforcement` | are the guarantees of `enforce()` kept by overlapping calls on an Action that changes? | yes |
| `MCOscQuery` | with arbitrarily late replies at a shared address, is the client still a correct request/reply service at the others? is no answer from the future, and does every query return? | yes |
| `MCOscLate` | is a reply always the one to the query, at least one thread at a time? | **no**: after a timeout |
| `MCArdourOsc` | are deadline, timeout and order kept with replies arbitrarily late or lost? | yes |
| `MCArdourStaleTransport` | is a reported transport a position and a speed? | **no**: after a timeout |
| `MCAbletonTools` | does a tool settle only on a track it may write to, do its writes stay there, and is reported success real? | the first always; the others for calls that find Live at rest and whose user leaves the track list alone: **an edit between lookup and write defeats the gate** |
| `MCAbletonNotes` | are notes reported as written in the clip? | **no**: only counted |
| `MCReaperTools` | does the gate hold when the project is changed, is what a failing tool leaves a part of what was asked for, and others' material untouched? | yes |
| `MCReaperSave` | is the open project never overwritten? | **no**: by its own file name |
| `MCRecordSource` | does the log only grow? does the tool agree with the engine on hosts? | yes, without overlap or crash; yes |

### The bounds, and why they are enough

- *PolicyEngine*: every known operation and one unknown, each attribute a rule
  reads at all values the rules distinguish, and its absence, in the first
  Action of a plan, and every malformed shape; verdicts on Actions are independent. The second is
  `tempo.change` or `daw.window_change`, which give all three verdicts:
  `worst_decision` keeps one value and compares it with the next. One snapshot,
  made of every combination of what was read and what was not; a project is read
  with and without its number of tracks. The proofs lift the bounds: plans of any
  length, over any vocabulary and values.
- *Enforcement*: two calls, as every property relates a call to one other call
  or to the owner of the Action; one shared object, the worst case; a fetch with
  contents for each of the verdicts, one of them malformed: a dict that is refused,
  an instance that raises. The proofs lift the bounds.
- *OscQuery*: two callers and three queries: a query that timed out, one that
  took its place in the registry and one that overlaps both. Three addresses: one
  that both callers query and where replies may be late, and a prompt one for each.
- *ArdourOsc*: a socket timeout of 2 below a list budget of 3, so a gap may be
  longer than the one and within the other; two strips and an end marker; three
  requests: a call that fails, and two that meet its leftovers. The proofs
  lift the bounds of every safety property.
- *AbletonTools*: two calls (the second meets the first one's late writes), one
  edit by the user, two read-backs in place of five, one track of the user's and one
  GEN- track already in use, an empty set; two values, one tune and a malformed one.
- *ReaperTools*: two calls, alike but for their names (symmetry), as every
  property relates a call to one other call or to the user; one edit, at any point;
  a track of the user's, a GEN- track and one the user may insert; tunes without
  fault, with a note that cannot be placed and with one that has no end. The
  proofs lift the bounds.
- *RecordSource*: three runs: two that overlap and one that reads what they
  left. One URL each that is local, listed, a subdomain, and a look-alike. The
  proofs lift the bounds.

### Fairness

Liveness is claimed for the callers. `WF_vars(Leaves(c))` in `OscQuery`, the weak fairness of `Progress` and `Tick` in `ArdourOsc`, and of `ToolStep` in
`AbletonTools` say that a thread of Python that can run does, and that the clock
advances: `queue.get` and `recvfrom` have timeouts, and a step that is waiting
for one stays enabled until it is taken. `WF_vars(Arrives(n))`, at the prompt
addresses of `OscQuery` only, is what prompt means: within the timeout a datagram
gets on, or is lost. Apart from that nothing is asked of Live, Ardour, UDP, the
handler threads or the user: all may stop forever, and every call returns all the
same (`QueryReturns`, `CallEnds`). The other runs use no fairness.

## What the models found

Five runs show the program to do what its documentation says it does not; each
is listed in `PROJECT.json` with both lines.

1. `RetractionNeverAllows`: a `computer_use.invoke` that is DENY with `daw` and
   `capability` is ALLOW when either is left out, as `COMPUTER_USE_NO_MCP` matches
   whatever the matrix does not cover. `engine.py` promises to fail closed. All
   other operations do (`RetractionNeverAllowsElsewhere`).
2. `MatchingReply`: Ableton replies are matched by address alone, so the reply
   to a query that timed out answers the next one at that address.
3. `TransportIsTransport`: Ardour replies are not matched at all. One
   timeout leaves every later query one datagram behind, and a frame position is
   reported as the speed.
4. `ReportedNotesAreWritten`: `write_generated_midi` compares the number of
   notes. Notes dropped on their way into a clip that holds as many are
   reported as written.
5. `OpenProjectNeverOverwritten`: `save_project_as` is judged as a Save As whatever
   its file name is, and Reaper writes to the name it is given: that of the open
   project overwrites it, with ALLOW when the user asked for a Save As.

Things the models contain and no run of their own reports:

- `Action("transport.control", attributes=None)`, built in-process, is ALLOW: its rule
  reads nothing but the operation. `AllowIsListed` names this one exception.
- `deny.txt`'s last line bans Computer Use "if an MCP/OSC adapter is available for the
  same action", but the engine asks for adapters that *read*: a `computer_use.invoke`
  with `daw` ableton and `capability` `tempo.change`, which `set_tempo` could do, is
  ALLOW. `capabilities.py:10-18` calls this an open question, so `DenyTextForbids` reads the
  line as the engine does. Its third line, and an unrequested Save As, are ASK, not
  DENY: the user may settle them (`DenyTextReserves`).
- An Action instance that `evaluate` cannot judge raises out of `enforce()` before
  anything is recorded, so `OneEntryPerCall` is about calls that were answered.
- An audit entry for an Action instance shares the caller's attributes dict, so does
  the DENY entry for a dict that `from_dict` refuses, and one for any other dict shares
  the containers nested in it: all change when the caller changes them.
  `LogShowsWhatWasJudged` is about the plain values of dicts that parsed; of the
  refused ones it says that whatever the entry shows, it is of a call that did not run.
- Runs of the recorder that overlap lose an entry or leave a file that is no
  JSON; one that dies between truncating and writing leaves an empty log, which
  the next run takes for a new one. `AppendsOnly` excludes exactly these.
- **An edit between lookup and write defeats Ableton's gate.** The track is found by
  name and written to by index. If the user inserts, deletes, moves or renames a
  track after `FindName` and before Live applies the write, an unapproved write
  lands on whatever track has the index by then, the user's own included. The first
  part of `UnapprovedWritesStayOnGenTracks` holds all the same (the index was right when
  it was taken); the second, and `SuccessIsReal`, leave such calls out (`disturbed`).
- A write of a call that ended unconfirmed may still be applied. If that is
  `create_track`, the next call has counted without it and may write to another
  index than it means; so the properties about writes of `AbletonTools` are about calls
  that find Live at rest (`~disturbed` again).
- A note without `pitch` fails `write_generated_midi` in Ableton after the clip was
  created: the empty clip stays.
- A `write_generated_midi` in Reaper that raises after its item was made leaves it,
  with the notes up to the failure; calling the tool again adds a second item.
- A track in Reaper that the user renames between the lookup and the item gets the
  item under its new name; `GeneratedMidiOnGenTracks` excludes renamed tracks.
- Of two overlapping `create_track`, both count the same tracks, and the later one
  is put before the earlier one: the index that one reported is no longer its own.
- A late reply to another query at the same address of Live passes through
  `_track_property`: an echoed index of another track is returned as the value.

## What is proved

Every safety invariant and action property of the passing runs is a theorem. TLAPS
checks every step, for all values of the constants that satisfy the module's
named assumptions. Those only give the constants their types and tell "no such
value" apart from values; the gate's policy (`GatePolicy`) is the one that says
more: the runs evaluate it for the engine, and `ToolsAreGated` proves what it
asks for.

**PolicyEngineProofs**, for any agent: any number of steps, any operations, known
or not, that each may take, any vocabulary of attributes and any values (`AgentType`
only asks that hosts are lists of labels and that the one way to a `daw_state` is
`AttachState`). `DenyTextAlwaysWins`, `OnlyListedAllowed`, `PlanAsBadAsItsWorst`,
`SnapshotsDecideNothing`, `SnapshotsAreReadable`, `RetractionAllowsOnlyComputerUse`,
`ApprovalOnlyLiftsItsOwnDeny`. The first says DENY of what `deny.txt` bans and ASK or
DENY of what it leaves to the user, with its last line read as above; the second makes
the one exception for malformed Actions. The argument about the rules has three stages. The
first match of a concatenation is that of the first part that has one
(`FirstOfConcat`), and no rule matches an operation of another group
(`Elsewhere`); so the groups can be searched alone, in any order (`InGroup`). Each
group then is a small decision table (`MidiFetch` to `TransportAndTempo`), where the
order of its rules is used up, and the properties follow from the tables. What
the invariant (`PlanOK`) adds is that a plan holds well-formed Actions, whose
`daw_state`, if any, is a snapshot. `Ending` says what a suffix of a host is,
which both the rules' `endswith` and the properties' own definition come down to.
`worst_decision` is a fold: that it returns the worst of any number of decisions
(`WorstIsWorst`) is shown by induction, as the absence of a least counterexample.
Two results close what other components assume of the engine: `ToolsAreGated` gives
the verdict on every Action the write tools make, for any track name, and
`AllowlistFetched` allows an approved fetch from all of the license allowlist.

**EnforcementProofs**, for any number of calls and Actions and any engine.
`TypeCorrect`, `CoreGuarantee`, `RunsRecorded`, `RefusalsFinal`, `OneEntry` and
`LogFaithful`, which is about dicts: the values shown are those judged if it parsed,
and the call was refused if not. The properties speak of the log and of the calls, and neither
alone is inductive: the invariant (`IInv`) ties them: `LogMatchesCalls` says of
each entry which places of `enforce()` its call can be at and what of the call's
record it holds, `OneEntryEach` that it is the only one, `AnsweredAreLogged` that
a call past its decision has one. A later
rewriting of the Action touches neither.

**OscQueryProofs**, for any callers, addresses and lateness. `TypeCorrect`, and
`NeverFromTheFuture`: no query is answered with the reply to a later one. The
invariant says that everything that leads from a reply to a queue looks back:
the queue registered under an address belongs to the newest query there whenever
it is anyone's, so what `Lookup` pairs, what a handler carries and what a queue
holds never is a reply newer than the queue.

**OscServiceProofs**, for the same and any `Prompt`. `ServedRight`,
`TimeoutsAreLosses`, `RegistryRight` and `RefinesRequestReply`: at a prompt address
that one thread alone queries, the client is a request/reply service, whatever
happens at the others. A query is told from the next one at its address only by
time, so the invariant (`ServiceInv`) follows its one datagram: a query belongs to
one thread (`OneOwner`), which keeps its queue registered (`Registry`), as nobody
else touches the address; the datagram is on the network or in the hands of one
handler, never twice (`OneCopy`); and while the query waits it is coming, in the
queue or lost, and after the query has its result nothing of it is under way
(`Delivery`). For the refinement, `Maps` states the abstract state in these terms
and `RStep` what each step does to it: registering asks, a result ends, popping
leaves, all else stutters - and so does every step at an address not served.

**ArdourOscProofs**, for any timeouts, session and network. `TypeCorrect`.
`Restored`: the socket's timeout is back on every way out of `query_list`.
`Budgeted` and `Patient`: no list outlasts its budget, and none is given up
before. They need that a blocked receive of a list wakes exactly at the deadline,
never at the socket's own timeout. `InRequestOrder`: what a call has taken, what is
in the socket and what Ardour owes form one chain, strictly ordered by request and
position; sending appends to its end and every other step moves a boundary or
drops an element. That the network keeps the order is assumed; the client's part is
that no request is made twice and no datagram is read twice.
`Own`: until a call gives up, the chain holds nothing but
answers to the query in progress (`OnlyExpected`), every strip of a list is in it
or lost (`ListComplete`), and since the end marker is the last of its request, the
chain is empty when it is read: the next query starts clean.

**AbletonToolsProofs**, for any names, values, tunes, number of calls, edits and
read-backs, writes lost or not, and any engine that answers no write to a track
without GEN- with ALLOW, and generated MIDI there with DENY (`GatePolicy`).
`TypeCorrect`, `GateKept` and `SuccessReal`. `GateKept` has two parts. That a tool
settles on a track it may write to holds whatever the user edits, as `FindName`
compares the name at that moment and the call was let through for that name
(`GateLets`). Its second part and `SuccessReal` are about undisturbed calls:
they compare Live with the
track list that the call found, so the invariant relates them step by step: until
it sends, an undisturbed call sees Live as it found it, and the index it works
with is that of the first track of the name (`FoundAtRest`); what is on its way
aims there (`AllAimed`), and the tracks keep the names that were judged
(`NamesKept`); while it reads back, Live holds what it found plus as much of the
call's writes as has left the network (`OnTheWay`), so that what it reads can be
right only when all of it was applied - or nothing had to change.

**ReaperToolsProofs**, for any number of calls, tracks, tunes and edits, and any
engine that answers no generated MIDI outside GEN- tracks with ALLOW or ASK and no
other track, and no unrequested save, with ALLOW. `TypeCorrect`,
`MidiOnGenTracks`, `Wanted`, `NotesInOrder`, `Succeeded`, `InFront` and
`OthersUntouched`. The
properties speak of the project, and what makes them true is what the calls know
of it, so `IInv` relates the two: the track a call has found bears the name that
was judged unless it was renamed (`FoundTracks`); a call's item is on that track
and holds as many notes, in their order, as the call has counted (`ItemsAreOwn`,
`NotesCounted`); no track of the user's is behind a count not yet used
(`CountsCover`); what a call made is there until the user removes it
(`MadeIsThere`). Lemmas say what `InsertAt` and `RemoveAt` return, and that
the one undoes the other.

**RecordSourceProofs**, for any number of runs. `TypeCorrect`. `OnlyAppends`:
without overlap and crash at most one run is past reading, and it holds the log
with its own entry added. `Preserved`: what was not JSON at first is never
replaced, as reading it ends the run, so no run is ever past reading.
`RecordsFollowEngine`: whatever overlaps or dies, an entry is that of a run which
was let through, by the allowlist or by `--force` (`Traced`), and the Policy
Engine allows an approved fetch from wherever the recorder's own matcher does
(`EngineAgrees`, from `PolicyEngineProofs!AllowlistFetched` by instantiation). It
assumes that the two copies of the allowlist hold the same hosts, as they do
today, and that what the file held before was permitted.

Only model-checked: liveness under fairness, which is outside this prover's
reach (`QueryReturns` of `OscQuery`, `CallEnds` of `ArdourOsc` and `AbletonTools`).

## Idealisations

- Time in `ArdourOsc` is exact and a computation takes none: a receive ends at
  the tick it is due.
- A query of `AbletonTools` sees Live's state at one instant. Late replies,
  which make an answer older than that, are `OscQuery`'s subject.
- Notes of a Reaper item are added in their order and sorted once; where sorting
  puts them is left out.
- One clip slot per track, one property per mixer and device tool: the tools
  treat all of them alike.
- `Write` of the recorder is one system call: its output is far smaller than the
  buffer. A crash may still leave part of it.
- Reasons, messages, OSC encoding, argument checks that raise before
  anything has happened, and `close()` are left out.

## Not modelled

- **Read-only tools** of Ableton and Reaper: queries that return what they read;
  those of Ardour are modelled, as their answers meet leftovers.
- **`deny_check.py`**: a stateless heuristic on free text, which its own
  documentation says to miss and to overreport.
- **`decision_message.py`, `refusal_message.py`**: a table lookup and a sentence.
- **`benchmark.py`, `install.py`**: wall-clock measurement; pip and git.
- **`policy/`, `checklists/`, `adapters/`, `SKILL.md`**: prose for the agent; the policy
  texts are where the properties of `PolicyEngine` come from.

## Plan

Done, in this order: `PolicyEngine` (everything asks it), `Enforcement` (the core
guarantee), `OscQuery` with `RequestReply` (concurrency), `ArdourOsc` (time),
`AbletonTools` (composition of gate, queries and writes), `RecordSource`
(persistence), `ReaperTools` (partial failure), and proofs of every safety
property, `PolicyEngine`'s last.

Next:

1. Ranks that each step of a call lowers, the part of the liveness properties
   that can be proved without fairness.
2. `deny_check`'s word matching over a small vocabulary.
