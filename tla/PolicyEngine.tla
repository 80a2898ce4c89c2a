---------------------------- MODULE PolicyEngine ----------------------------
(***************************************************************************)
(* The Policy Engine: evaluate(action) -> Decision, a pure function from   *)
(* a structured Action to ALLOW, ASK or DENY, and evaluate_plan, which     *)
(* applies it to every Action of a proposed plan.  The state is the plan   *)
(* the calling agent is composing: it proposes Actions, fills in or        *)
(* retracts attributes, and attaches a snapshot of the DAW.  The engine    *)
(* itself keeps no state, so its verdicts are state functions of the plan. *)
(*                                                                         *)
(* Attribute values are tokens: "True"/"False"/"None"/"1" are the Python   *)
(* values of those names.  A host is the sequence of its dot-separated     *)
(* labels, a track name the sequence of its dash-separated parts.          *)
(***************************************************************************)
EXTENDS Naturals, FiniteSets, SequencesExt

CONSTANTS
    Operations,     \* by step of the plan: operations the agent may name, known or not
    Shapes,         \* how the raw Action may be malformed, see Shape below
    Vocabulary,     \* operation -> attribute names the agent supplies for it
    Values,         \* attribute name -> values the agent supplies for it
    Readings,       \* DAW read tool -> what it may have returned, as a dict or list
    MaxSnapshots    \* bound: snapshots attached in a plan

VARIABLE plan       \* the sequence of raw Actions handed to evaluate_plan

ALLOW == "ALLOW"
ASK   == "ASK"
DENY  == "DENY"
RAISE == "RAISE"    \* evaluate() left with an exception instead of a Decision

ReadOperations == {"read.tempo", "read.tracks", "read.clips",
                   "read.project_info", "read.song_info", "read.transport"}

KNOWN_OPERATIONS == ReadOperations \cup
    {"midi.fetch", "midi.write", "project.save", "track.create",
     "track.mix_sources", "daw.window_change", "daw.display_settings_change",
     "daw.plugin_install", "daw.license_dialog_respond", "data.send_external",
     "computer_use.invoke", "track.mixer_change", "device.param_change",
     "transport.control", "tempo.change"}

(***************************************************************************)
(* schema.py.  "ok" parses; the next three make Action.from_dict raise     *)
(* ActionSchemaError; "not_object" is neither a dict nor an Action.  The   *)
(* last two are Actions built in-process, which from_dict never sees: one  *)
(* whose operation is unhashable, one whose attributes are no dict.        *)
(***************************************************************************)
Refused == {"no_operation", "bad_target", "bad_attributes", "not_object"}

Shape == {"ok", "bad_operation", "no_attributes"} \cup Refused

(***************************************************************************)
(* What the agent supplies: Actions malformed in no other way, attributes  *)
(* of the operations it names, hosts given as their labels.  A snapshot is *)
(* never written out by hand, it gets in through attach_to_attributes.     *)
(***************************************************************************)
ASSUME AgentType ==
    /\ Shapes \subseteq Shape
    /\ Operations \in Seq(SUBSET DOMAIN Vocabulary)
    /\ \A op \in DOMAIN Vocabulary : Vocabulary[op] \subseteq DOMAIN Values \ {"daw_state"}
    /\ "host" \in DOMAIN Values => Values["host"] \subseteq Seq(STRING)

Attr(a, name, default) ==
    IF name \in DOMAIN a.attributes THEN a.attributes[name] ELSE default

IsTrue(v) == v = "True"
Truthy(v) == v \notin {"None", "False", ""}

LowerCase == [BitMidi |-> "bitmidi", Ableton |-> "ableton", FILE |-> "file"]
Lower(token) == IF token \in DOMAIN LowerCase THEN LowerCase[token] ELSE token

-----------------------------------------------------------------------------
(* capabilities.py *)

CAPABILITY_MATRIX ==
    [o \in ReadOperations |->
        CASE o = "read.tempo"        -> {"reaper", "ableton"}
          [] o = "read.tracks"       -> {"reaper", "ableton", "ardour"}
          [] o = "read.project_info" -> {"reaper"}
          [] o = "read.song_info"    -> {"ableton"}
          [] o = "read.transport"    -> {"ardour"}
          [] o = "read.clips"        -> {}]

\* An operation the matrix does not know, an unhashable one included, is unsupported.
mcp_supports(daw, operation) ==
    operation \in ReadOperations /\ Lower(daw) \in CAPABILITY_MATRIX[operation]

-----------------------------------------------------------------------------
(* rules.py: RULES, in order.  A rule carries whether it matches Action a. *)

DUMP_SITE_HOSTS == {<<"bitmidi", "com">>, <<"midiworld", "com">>, <<"freemidi", "org">>}
LICENSE_ALLOWLIST_HOSTS == {<<"mutopiaproject", "org">>, <<"freesound", "org">>}

UnderAny(host, sites) ==
    \E site \in sites : IsSuffix(site, [i \in DOMAIN host |-> Lower(host[i])])

\* Mutated: only the site itself, not its subdomains.
HostIsExactlyDumpSite(host) == [i \in DOMAIN host |-> Lower(host[i])] \in DUMP_SITE_HOSTS

HostIsDumpSite(host) == UnderAny(host, DUMP_SITE_HOSTS)

\* Mutated: startswith for endswith.
HostStartsLikeAllowlisted(host) == \E site \in LICENSE_ALLOWLIST_HOSTS : IsPrefix(site, host)

HostOnLicenseAllowlist(host) ==
    \/ Len(host) = 1 /\ Lower(host[1]) = "file"
    \/ UnderAny(host, LICENSE_ALLOWLIST_HOSTS)

GenPrefixed(name) == Len(name) > 1 /\ name[1] = "GEN"

Rule(rule_id, decision, matches) ==
    [rule_id |-> rule_id, decision |-> decision, matches |-> matches]

MidiFetchRules(a) ==
    LET fetch    == a.operation = "midi.fetch"
        host     == Attr(a, "host", <<>>)
        approved == IsTrue(Attr(a, "user_approved_this_turn", "None"))
    IN  << Rule("MIDI_DUMP_SITE", DENY, fetch /\ HostIsDumpSite(host)),
           Rule("MIDI_FETCH_NO_APPROVAL", DENY, fetch /\ ~approved),
           Rule("MIDI_FETCH_NOT_ALLOWLISTED", ASK,
                fetch /\ approved /\ ~HostOnLicenseAllowlist(host)),
           Rule("MIDI_FETCH_ALLOWED", ALLOW,
                fetch /\ approved /\ HostOnLicenseAllowlist(host)) >>

\* Mutated: the user's request is looked at before the mode.
ProjectSaveRulesRequestFirst(a) ==
    LET save      == a.operation = "project.save"
        requested == IsTrue(Attr(a, "user_requested_this_turn", "None"))
    IN  << Rule("SAVE_AS_APPROVED", ALLOW, save /\ requested),
           Rule("PROJECT_OVERWRITE", DENY, save /\ Attr(a, "mode", "None") = "overwrite") >>

ProjectSaveRules(a) ==
    LET save      == a.operation = "project.save"
        mode      == Attr(a, "mode", "None")
        requested == IsTrue(Attr(a, "user_requested_this_turn", "None"))
    IN  << Rule("PROJECT_OVERWRITE", DENY, save /\ mode = "overwrite"),
           Rule("SAVE_AS_APPROVED", ALLOW, save /\ mode = "save_as" /\ requested),
           Rule("SAVE_AS_UNCONFIRMED", ASK, save /\ mode = "save_as") >>

\* Labels and destinations are judged by truthiness, unlike approvals (`is True`).
DawAndDataRules(a) ==
    LET op      == a.operation
        labeled == Truthy(Attr(a, "labeled", "False"))
        inUse   == Truthy(Attr(a, "is_model_api_in_use", "False"))
    IN  << Rule("UNLABELED_MIXED_SOURCES", DENY, op = "track.mix_sources" /\ ~labeled),
           Rule("LABELED_MIXED_SOURCES", ALLOW, op = "track.mix_sources" /\ labeled),
           Rule("WINDOW_MANIPULATION", DENY, op = "daw.window_change"),
           Rule("DISPLAY_SETTINGS_CHANGE", DENY, op = "daw.display_settings_change"),
           Rule("PLUGIN_OR_LICENSE_DIALOG", DENY,
                op \in {"daw.plugin_install", "daw.license_dialog_respond"}),
           Rule("SEND_UNPUBLISHED_EXTERNALLY", DENY, op = "data.send_external" /\ ~inUse),
           Rule("SEND_TO_MODEL_API", ALLOW, op = "data.send_external" /\ inUse) >>

ComputerUseAndReadRules(a) ==
    LET use     == a.operation = "computer_use.invoke"
        covered == mcp_supports(Attr(a, "daw", ""), Attr(a, "capability", ""))
    IN  << Rule("COMPUTER_USE_WHEN_MCP_AVAILABLE", DENY, use /\ covered),
           Rule("COMPUTER_USE_NO_MCP", ALLOW, use /\ ~covered),
           Rule("READ_ONLY", ALLOW, a.operation \in ReadOperations) >>

WriteRules(a) ==
    LET op        == a.operation
        generated == op = "midi.write" /\ Attr(a, "source", "None") = "generated"
        onGen     == GenPrefixed(Attr(a, "track", <<>>))
    IN  << Rule("GENERATED_MIDI_INTO_GEN_TRACK", ALLOW, generated /\ onGen),
           Rule("GENERATED_MIDI_INTO_OTHER_TRACK", DENY, generated),
           Rule("CREATE_GEN_TRACK", ALLOW,
                op = "track.create" /\ GenPrefixed(Attr(a, "name", <<>>))),
           Rule("CREATE_OTHER_TRACK", ASK, op = "track.create"),
           Rule("MIXER_CHANGE_ON_GEN_TRACK", ALLOW, op = "track.mixer_change" /\ onGen),
           Rule("MIXER_CHANGE_ON_OTHER_TRACK", ASK, op = "track.mixer_change"),
           Rule("DEVICE_PARAM_CHANGE_ON_GEN_TRACK", ALLOW, op = "device.param_change" /\ onGen),
           Rule("DEVICE_PARAM_CHANGE_ON_OTHER_TRACK", ASK, op = "device.param_change") >>

TransportAndTempoRules(a) ==
    LET tempo == a.operation = "tempo.change"
    IN  << Rule("TRANSPORT_CONTROL", ALLOW, a.operation = "transport.control"),
           Rule("TEMPO_CHANGE_APPROVED", ALLOW,
                tempo /\ IsTrue(Attr(a, "user_requested_this_turn", "None"))),
           Rule("TEMPO_CHANGE_UNCONFIRMED", ASK, tempo) >>

RULES(a) == MidiFetchRules(a) \o ProjectSaveRules(a) \o DawAndDataRules(a)
            \o ComputerUseAndReadRules(a) \o WriteRules(a) \o TransportAndTempoRules(a)

-----------------------------------------------------------------------------
(* engine.py *)

Decision(d, rule_id, capability) ==
    [decision |-> d, rule_id |-> rule_id, capability_available |-> capability]

\* "None" unless a read.* Action names a DAW; never part of the decision itself.
CapabilityNote(a) ==
    LET daw == Attr(a, "daw", "")
    IN  IF a.operation \in ReadOperations /\ Truthy(daw)
        THEN IF mcp_supports(daw, a.operation) THEN "True" ELSE "False"
        ELSE "None"

\* Mutated: a known operation no rule covers is let through.
FirstMatchOrAllow(rules) ==
    LET hits == {i \in DOMAIN rules : rules[i].matches}
    IN  IF hits = {} THEN Rule("NO_MATCHING_RULE", ALLOW, TRUE) ELSE rules[Min(hits)]

FirstMatch(rules) ==
    LET hits == {i \in DOMAIN rules : rules[i].matches}
    IN  IF hits = {} THEN Rule("NO_MATCHING_RULE", DENY, TRUE) ELSE rules[Min(hits)]

\* The operations whose rules look at no attribute, nor does the capability note:
\* they are decided even if an Action has none.  Any other rule or note calls attr().
DecidedByName ==
    {"daw.window_change", "daw.display_settings_change", "daw.plugin_install",
     "daw.license_dialog_respond", "transport.control"}

Evaluate(a) ==
    CASE a.shape = "bad_operation" -> Decision(RAISE, "exception", "None")
      [] a.shape \in Refused       -> Decision(DENY, "INVALID_ACTION_SCHEMA", "None")
      [] a.shape \in {"ok", "no_attributes"} /\ a.operation \notin KNOWN_OPERATIONS
                                   -> Decision(DENY, "UNKNOWN_OPERATION", "None")
      [] a.shape = "no_attributes" /\ a.operation \in KNOWN_OPERATIONS \ DecidedByName
                                   -> Decision(RAISE, "exception", "None")
      [] OTHER -> LET rule == FirstMatch(RULES(a))
                  IN  Decision(rule.decision, rule.rule_id, CapabilityNote(a))

Severity == [ALLOW |-> 0, ASK |-> 1, DENY |-> 2]

evaluate_plan(p) == [i \in DOMAIN p |-> Evaluate(p[i])]

\* Mutated: the last decision wins.
last_decision(decisions) == FoldLeft(LAMBDA worst, d : d.decision, ALLOW, decisions)

\* The loop of worst_decision: a later decision replaces a strictly milder one.
worst_decision(decisions) ==
    FoldLeft(LAMBDA worst, d : IF Severity[d.decision] > Severity[worst] THEN d.decision ELSE worst,
             ALLOW, decisions)

plan_is_clear(decisions) == worst_decision(decisions) = ALLOW

\* An exception aborts the whole batch.
Raises(p) == \E i \in DOMAIN p : Evaluate(p[i]).decision = RAISE

(***************************************************************************)
(* cli.py.  What its input is as JSON: no JSON at all, an array of         *)
(* Actions, or a single value.                                             *)
(***************************************************************************)
NoJson     == [json |-> "invalid"]
Array(p)   == [json |-> "array", actions |-> p]
Single(a)  == [json |-> "single", action |-> a]
AsAnArray  == [shape |-> "not_object"]      \* what evaluate() sees of a list

\* The exit code; in every case the printed Decision, or the worst one printed.
cli_main(planFlag, input) ==
    Severity[CASE input.json = "invalid"              -> DENY
               [] planFlag /\ input.json = "single"   -> DENY
               [] planFlag /\ input.json = "array"    -> worst_decision(evaluate_plan(input.actions))
               [] ~planFlag /\ input.json = "array"   -> Evaluate(AsAnArray).decision
               [] ~planFlag /\ input.json = "single"  -> Evaluate(input.action).decision]

(***************************************************************************)
(* daw_state.py.  An optional value is a set of at most one: {} is None.   *)
(***************************************************************************)
Get(reading, key) == {d[key] : d \in {r \in reading : key \in DOMAIN r}}

\* The project is asked before the track list, even when it does not tell.
TrackCount(project, tracks) ==
    IF project # {} THEN Get(project, "track_count") ELSE {Len(list) : list \in tracks}

Snapshot(daw, tempo, tracks, transport, project) ==
    [daw |-> daw, tempo_bpm |-> Get(tempo, "bpm"), track_count |-> TrackCount(project, tracks),
     tracks |-> tracks, transport |-> transport, project |-> project]

from_reaper(tempo, tracks, project_info) == Snapshot("reaper", tempo, tracks, {}, project_info)

from_ableton(song_info, tracks) == Snapshot("ableton", song_info, tracks, {}, song_info)

\* Mutated: copied from from_ableton.
from_ardour_as_ableton(tracks, transport) == Snapshot("ardour", {}, tracks, {}, transport)

from_ardour(tracks, transport) == Snapshot("ardour", {}, tracks, transport, {})

\* The agent reads what it likes of a DAW before it takes a snapshot.
Given(tool) == {{}} \cup {{reading} : reading \in Readings[tool]}

Snapshots ==
    {from_reaper(tempo, tracks, info) : tempo \in Given("get_tempo"),
        tracks \in Given("get_tracks"), info \in Given("get_project_info")}
    \cup {from_ableton(info, tracks) : info \in Given("get_song_info"), tracks \in Given("get_tracks")}
    \cup {from_ardour(tracks, transport) :
            tracks \in Given("get_tracks"), transport \in Given("get_transport")}

-----------------------------------------------------------------------------
(* The agent composing the plan: the inputs of the engine. *)

Init == plan = <<>>

Propose(shape, op) ==
    /\ Len(plan) < Len(Operations) /\ op \in Operations[Len(plan) + 1]
    /\ plan' = Append(plan, [shape |-> shape, operation |-> op, attributes |-> <<>>])

WithAttributes(a, new) ==      \* {**attributes, **new}
    [a EXCEPT !.attributes = [n \in DOMAIN @ \cup DOMAIN new |->
                                 IF n \in DOMAIN new THEN new[n] ELSE @[n]]]

SetAttribute(i, name, v) ==
    /\ plan[i].shape = "ok" /\ name \in Vocabulary[plan[i].operation]
    /\ plan' = [plan EXCEPT ![i] = WithAttributes(@, [n \in {name} |-> v])]

DropAttribute(i, name) ==
    /\ name \in DOMAIN plan[i].attributes
    /\ plan' = [plan EXCEPT ![i].attributes =
                   [n \in DOMAIN @ \ {name} |-> @[n]]]

\* Mutated: the snapshot's fields are merged into the attributes themselves.
SnapshotAttributesFlat(snapshot) == snapshot

\* attach_to_attributes: the snapshot goes in whole, under one key.
SnapshotAttributes(snapshot) == [n \in {"daw_state"} |-> snapshot]

Carries(i) == "daw_state" \in DOMAIN plan[i].attributes

AttachState(i, snapshot) ==
    /\ plan[i].shape = "ok"
    /\ Cardinality({j \in DOMAIN plan : Carries(j)}) < MaxSnapshots
    /\ plan' = [plan EXCEPT ![i] = WithAttributes(@, SnapshotAttributes(snapshot))]

Next ==
    \/ \E shape \in Shapes : \E op \in UNION Range(Operations) : Propose(shape, op)
    \/ \E i \in DOMAIN plan :
          \/ \E name \in Vocabulary[plan[i].operation] :
                \/ \E v \in Values[name] : SetAttribute(i, name, v)
                \/ DropAttribute(i, name)
          \/ \E snapshot \in Snapshots : AttachState(i, snapshot)

Spec == Init /\ [][Next]_plan

-----------------------------------------------------------------------------
(* Properties *)

Says(a, name, v) == name \in DOMAIN a.attributes /\ a.attributes[name] = v
Silent(a, name)  == name \notin DOMAIN a.attributes

Denies(a, name) == Silent(a, name) \/ a.attributes[name] \in {"False", "None"}

InDomain(host, site) == \E sub \in 0..Len(host) : SubSeq(host, sub + 1, Len(host)) = site

Host(a) == IF Silent(a, "host") THEN <<>> ELSE [i \in DOMAIN a.attributes["host"] |-> Lower(a.attributes["host"][i])]

\* The DAWs whose adapter answers a read, as mcp-*/*/server.py implement them.
Adapters(op) ==
    {daw \in {"reaper", "ableton", "ardour"} :
        op \in IF daw = "reaper" THEN {"read.tempo", "read.tracks", "read.project_info"}
               ELSE IF daw = "ableton" THEN {"read.tempo", "read.tracks", "read.song_info"}
               ELSE {"read.tracks", "read.transport"}}

\* The bans of policy/deny.txt no approval lifts, or whose approval is missing, line
\* by line, whatever else the Action says.  Line 14 is read as a ban where an adapter
\* can read what is asked: capabilities.py leaves it open whether the write tools
\* count, and the engine answers computer_use.invoke with ALLOW where only they do.
DenyTextForbids(a) ==
    \/ a.operation = "midi.fetch" /\ ~Says(a, "user_approved_this_turn", "True")
    \/ a.operation = "midi.fetch" /\ \E s \in DUMP_SITE_HOSTS : InDomain(Host(a), s)
    \/ a.operation = "project.save" /\ Says(a, "mode", "overwrite")
    \/ a.operation = "track.mix_sources" /\ Denies(a, "labeled")
    \/ a.operation \in {"daw.window_change", "daw.display_settings_change",
                         "daw.plugin_install", "daw.license_dialog_respond"}
    \/ a.operation = "data.send_external" /\ Denies(a, "is_model_api_in_use")
    \/ /\ a.operation = "computer_use.invoke" /\ ~Silent(a, "daw") /\ ~Silent(a, "capability")
       /\ Lower(a.attributes["daw"]) \in Adapters(a.attributes["capability"])

\* The two lines left, which the user may settle: 7, nothing but the allowlist proves
\* a file free, and the second half of 8, "Save As only, and only if the user asked".
DenyTextReserves(a) ==
    \/ /\ a.operation = "midi.fetch"
       /\ \A s \in LICENSE_ALLOWLIST_HOSTS \cup {<<"file">>} : ~InDomain(Host(a), s)
    \/ /\ a.operation = "project.save"
       /\ ~(Says(a, "mode", "save_as") /\ Says(a, "user_requested_this_turn", "True"))

\* deny.txt outranks every other rule, in whatever order RULES is searched: an
\* Action it bans is DENY, never ASK (approvable) nor ALLOW, and one it leaves to
\* the user is ASK or DENY, never ALLOW.
DenyTextWins ==
    \A i \in {j \in DOMAIN plan : plan[j].shape = "ok"} :
        /\ DenyTextForbids(plan[i]) => Evaluate(plan[i]).decision = DENY
        /\ DenyTextReserves(plan[i]) => Evaluate(plan[i]).decision \in {ASK, DENY}

\* What policy/allow.txt (and the exceptions written into deny.txt) permits.
AllowTextPermits(a) ==
    \/ a.operation \in ReadOperations \cup {"transport.control"}
    \/ /\ a.operation = "midi.fetch" /\ Says(a, "user_approved_this_turn", "True")
       /\ \E s \in LICENSE_ALLOWLIST_HOSTS \cup {<<"file">>} : InDomain(Host(a), s)
    \/ /\ a.operation = "project.save" /\ Says(a, "mode", "save_as")
       /\ Says(a, "user_requested_this_turn", "True")
    \/ a.operation = "tempo.change" /\ Says(a, "user_requested_this_turn", "True")
    \/ a.operation = "track.mix_sources" /\ ~Denies(a, "labeled")
    \/ a.operation = "data.send_external" /\ ~Denies(a, "is_model_api_in_use")
    \/ a.operation = "computer_use.invoke"
    \/ a.operation = "midi.write" /\ Says(a, "source", "generated") /\ ~Silent(a, "track")
       /\ Len(a.attributes["track"]) > 1 /\ a.attributes["track"][1] = "GEN"
    \/ a.operation \in {"track.mixer_change", "device.param_change"} /\ ~Silent(a, "track")
       /\ Len(a.attributes["track"]) > 1 /\ a.attributes["track"][1] = "GEN"
    \/ a.operation = "track.create" /\ ~Silent(a, "name")
       /\ Len(a.attributes["name"]) > 1 /\ a.attributes["name"][1] = "GEN"

\* Fail closed: ALLOW is only ever answered to what allow.txt permits, never to an
\* unknown operation, and of the malformed Actions to one alone: a transport.control
\* built in-process whose attributes are no dict, which its rule does not look at.
AllowIsListed ==
    \A i \in DOMAIN plan :
        Evaluate(plan[i]).decision = ALLOW =>
            /\ AllowTextPermits(plan[i])
            /\ \/ plan[i].shape = "ok"
               \/ plan[i].shape = "no_attributes" /\ plan[i].operation = "transport.control"

\* The CLI's docstring: "a single DENY anywhere makes the whole run exit 2, etc." -
\* a batch is exactly as bad as the worst of its steps asked one by one, wherever
\* it stands; and input given in the wrong mode is never answered with ALLOW.
PlanVerdictIsWorst ==
    ~Raises(plan) =>
        LET exits == {cli_main(FALSE, Single(plan[i])) : i \in DOMAIN plan} IN
        /\ cli_main(TRUE, Array(plan)) = Max({0} \cup exits)
        /\ plan_is_clear(evaluate_plan(plan)) <=>
              \A i \in DOMAIN plan : Evaluate(plan[i]).decision = ALLOW
        /\ \A i \in DOMAIN plan : cli_main(TRUE, Single(plan[i])) = 2
        /\ cli_main(FALSE, Array(plan)) = 2
        /\ \A planFlag \in BOOLEAN : cli_main(planFlag, NoJson) = 2

Retracts(i) ==
    /\ i \in DOMAIN plan /\ Len(plan') = Len(plan)
    /\ DOMAIN plan'[i].attributes \subseteq DOMAIN plan[i].attributes
    /\ plan'[i] # plan[i]
    /\ \A n \in DOMAIN plan'[i].attributes : plan'[i].attributes[n] = plan[i].attributes[n]

\* Fail closed, as engine.py states it: leaving a fact out of an Action never
\* turns a verdict that was not ALLOW into ALLOW.
RetractionNeverAllows ==
    [][\A i \in DOMAIN plan : Retracts(i) /\ Evaluate(plan'[i]).decision = ALLOW
            => Evaluate(plan[i]).decision = ALLOW]_plan

\* The same, for every operation but computer_use.invoke, which the code
\* answers with ALLOW when the DAW or the capability is not given.
RetractionNeverAllowsElsewhere ==
    [][\A i \in DOMAIN plan :
          Retracts(i) /\ plan[i].operation # "computer_use.invoke"
            /\ Evaluate(plan'[i]).decision = ALLOW
            => Evaluate(plan[i]).decision = ALLOW]_plan

Approvals == {"user_approved_this_turn", "user_requested_this_turn"}

\* "Never allowed, regardless of approval" (the reasons of MIDI_DUMP_SITE and
\* PROJECT_OVERWRITE): recording the user's approval lifts no DENY, except the
\* one that only says approval is missing.
ApprovalLiftsNoDeny ==
    [][\A i \in DOMAIN plan : \A n \in Approvals, v \in {"True", "1"} :
          /\ i \in DOMAIN plan' /\ plan'[i] = WithAttributes(plan[i], [m \in {n} |-> v])
          /\ Evaluate(plan[i]).decision = DENY
          /\ Evaluate(plan[i]).rule_id # "MIDI_FETCH_NO_APPROVAL"
          => Evaluate(plan'[i]).decision = DENY]_plan

\* daw_state.py: "This module changes NO Decision" - attaching a snapshot, of
\* whatever was read, leaves the whole Decision as it was, the capability note too.
SnapshotChangesNoVerdict ==
    \A i \in DOMAIN plan : \A snapshot \in Snapshots :
        Evaluate(WithAttributes(plan[i], SnapshotAttributes(snapshot))) = Evaluate(plan[i])

\* "Never aspirational (same discipline as CAPABILITY_MATRIX)": what a snapshot
\* reports of a DAW is something the capability matrix says can be read of it.
SnapshotsWithinCapabilities ==
    \A i \in {j \in DOMAIN plan : Carries(j)} :
        LET s == plan[i].attributes["daw_state"]
            Readable(operation) == mcp_supports(s.daw, operation)
        IN  /\ s.tempo_bpm # {} => Readable("read.tempo")
            /\ s.tracks # {} => Readable("read.tracks")
            /\ s.transport # {} => Readable("read.transport")
            /\ s.project # {} => Readable("read.project_info") \/ Readable("read.song_info")
            /\ s.track_count # {} => s.tracks # {} \/ s.project # {}
=============================================================================
