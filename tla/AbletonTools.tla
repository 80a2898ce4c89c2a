----------------------------- MODULE AbletonTools -----------------------------
(***************************************************************************)
(* mcp-ableton's write tools.  Each asks enforcement.enforce(), finds its  *)
(* track by name, sends its writes - Live answers none of them - and then  *)
(* reads the state back, at most Attempts times, to see whether they took  *)
(* effect.  Live applies the writes in their order, some time later; UDP   *)
(* may drop one.  Meanwhile the user edits the track list by hand, and     *)
(* indices are not names.                                                  *)
(*                                                                         *)
(* A query is one step, as RequestReply promises: an answer, which tells   *)
(* Live's state of the moment, or an exception.  Indices start at 1 here.  *)
(***************************************************************************)
EXTENDS Naturals, Sequences

CONSTANTS
    Names,         \* the track names the agent and the user choose
    GenNames,      \* those of them that start with GEN-
    DefaultName,   \* the name Live gives a new track
    Values,        \* mixer, device and tempo values
    Notes,         \* notes
    Tunes,         \* lists of notes to be written
    Malformed,     \* such a list with a note that lacks a key
    NoClip,        \* the content of an empty clip slot
    NoArgument,    \* tool and arguments before the first call
    VerdictOf,     \* policy_engine.evaluate, by tool, track and user_requested_this_turn
    InitialTracks, \* what the track list may be at first
    Attempts,      \* reads _wait_until makes at most
    MaxCalls,      \* bound: tool calls in a run
    MaxEdits,      \* bound: edits by the user
    Lossy          \* TRUE: UDP may drop messages

Tools == {"create_track", "write_generated_midi", "set_mixer_property",
          "set_device_parameter", "control_transport", "set_tempo"}
TrackTools == {"write_generated_midi", "set_mixer_property", "set_device_parameter"}
Parameters == {"set_mixer_property", "set_device_parameter"}   \* one property each

ASSUME NamesType == GenNames \subseteq Names /\ DefaultName \notin Names
ASSUME TunesType == Tunes \subseteq Seq(Notes)
ASSUME BoundsType == /\ Attempts \in Nat \ {0} /\ MaxCalls \in Nat /\ MaxEdits \in Nat
                     /\ Lossy \in BOOLEAN
ASSUME VerdictsType ==
    VerdictOf \in [Tools -> [Names -> [BOOLEAN -> {"ALLOW", "ASK", "DENY"}]]]

\* What the tools rely on, of all that the Policy Engine says.
ASSUME GatePolicy ==
    \A n \in Names \ GenNames, requested \in BOOLEAN :
        /\ \A tool \in TrackTools : VerdictOf[tool][n][requested] # "ALLOW"
        /\ VerdictOf["write_generated_midi"][n][requested] = "DENY"

Clips  == Seq(Notes) \cup {NoClip}
Tracks == [name : Names \cup {DefaultName}, value : [Parameters -> Values], clip : Clips]
Songs  == [tempo : Values, playing : BOOLEAN]

ASSUME InitialType == InitialTracks \subseteq Seq(Tracks) /\ Values # {}

VARIABLES
    tracks,    \* Live's track list
    song,      \* Live's tempo and transport
    pending,   \* writes sent that Live has not applied
    pc,        \* "idle", or where the tool call in progress stands
    call,      \* its tool and arguments
    index,     \* the track index it works with
    count,     \* _find_track_index: num_tracks as it was read
    reads,     \* read-backs made
    last,      \* outcome of the last call, "none" while one is in progress
    before,    \* history: tracks and song as the last call found them
    disturbed, \* history: that call met writes of an earlier one, or user edits
    calls, edits

live == <<tracks, song>>
history == <<before, calls, edits>>
vars == <<live, pending, pc, call, index, count, reads, last, disturbed, history>>

Track(name) == [name |-> name, value |-> [p \in Parameters |-> CHOOSE v \in Values : TRUE],
                clip |-> NoClip]

Arguments(tool) ==
    CASE tool = "create_track"         -> {NoArgument}
      [] tool = "write_generated_midi" -> Tunes \cup {Malformed}
      [] tool = "control_transport"    -> BOOLEAN
      [] OTHER                         -> Values

Init ==
    /\ tracks \in InitialTracks
    /\ song = [tempo |-> CHOOSE v \in Values : TRUE, playing |-> FALSE]
    /\ pending = <<>> /\ pc = "idle" /\ call = NoArgument
    /\ index = 1 /\ count = 0 /\ reads = 0 /\ last = "none"
    /\ before = <<tracks, song>> /\ disturbed = FALSE /\ calls = 0 /\ edits = 0

\* The tool leaves, and its local variables are gone.
Ends(outcome) ==
    /\ pc' = "idle" /\ last' = outcome
    /\ call' = NoArgument /\ index' = 1 /\ count' = 0 /\ reads' = 0

-----------------------------------------------------------------------------
(* The gate *)

Verdict(c) == VerdictOf[c.tool][c.track][c.requested]
Permitted(c) == \/ Verdict(c) = "ALLOW"
                \/ Verdict(c) = "ASK" /\ c.approved

FirstStep(tool) ==
    CASE tool = "create_track" -> "count"
      [] tool \in TrackTools   -> "find_count"
      [] OTHER                 -> "send"

\* control_transport has no parameter `approved`, only set_tempo has `requested`,
\* and neither has a track.
Call(tool, track, arg, approved, requested) ==
    LET c == [tool |-> tool, track |-> track, arg |-> arg,
              approved |-> approved, requested |-> requested]
    IN  /\ pc = "idle" /\ calls < MaxCalls
        /\ requested => tool = "set_tempo"
        /\ approved => tool # "control_transport"
        /\ tool \notin TrackTools \cup {"create_track"} => track = CHOOSE name \in Names : TRUE
        /\ calls' = calls + 1
        /\ before' = <<tracks, song>> /\ disturbed' = (pending # <<>>)
        /\ IF Permitted(c)
           THEN call' = c /\ pc' = FirstStep(tool) /\ last' = "none" /\ UNCHANGED <<index, count, reads>>
           ELSE Ends("blocked")
        /\ UNCHANGED <<live, pending, edits>>

-----------------------------------------------------------------------------
(* create_track counts the tracks, the other tools look for theirs *)

\* Mutated: the index of the last track there is.
CountTracksOffByOne ==
    /\ pc = "count" /\ tracks # <<>>
    /\ index' = Len(tracks) /\ pc' = "send"
    /\ UNCHANGED <<live, pending, call, count, reads, last, disturbed, history>>

CountTracks ==
    /\ pc = "count"
    /\ index' = Len(tracks) + 1 /\ pc' = "send"
    /\ UNCHANGED <<live, pending, call, count, reads, last, disturbed, history>>

FindCount ==
    /\ pc = "find_count"
    /\ count' = Len(tracks) /\ index' = 1 /\ pc' = "find"
    /\ UNCHANGED <<live, pending, call, reads, last, disturbed, history>>

\* Mutated: with no track of that name, the last one looked at is taken.
FindNameOrLast ==
    /\ pc = "find" /\ index \in DOMAIN tracks
    /\ IF tracks[index].name = call.track \/ index >= count
       THEN pc' = "send" /\ UNCHANGED <<index, last>>
       ELSE index' = index + 1 /\ UNCHANGED <<pc, last>>
    /\ UNCHANGED <<live, pending, call, count, reads, disturbed, history>>

\* One track's name, or ValueError behind the last one.
FindName ==
    /\ pc = "find"
    /\ IF index > count THEN Ends("ValueError")
       ELSE /\ index \in DOMAIN tracks
            /\ IF tracks[index].name = call.track
               THEN pc' = "send" /\ UNCHANGED index
               ELSE index' = index + 1 /\ UNCHANGED pc
            /\ UNCHANGED <<call, count, reads, last>>
    /\ UNCHANGED <<live, pending, disturbed, history>>

-----------------------------------------------------------------------------
(* Writing, and reading back *)

Write(op) == [op |-> op, index |-> index, call |-> call]

CreateMidiTrack == <<Write("create_midi_track"), Write("set/name")>>
ClipWithNotes   == <<Write("create_clip"), Write("add/notes")>>
OneValue        == <<Write(call.tool)>>

Writes ==
    CASE call.tool = "create_track"         -> CreateMidiTrack
      [] call.tool = "write_generated_midi" -> ClipWithNotes
      [] OTHER                              -> OneValue

NotesMalformed == call.tool = "write_generated_midi" /\ call.arg = Malformed

\* The sends of one tool follow each other at once.
Send ==
    /\ pc = "send" /\ ~NotesMalformed
    /\ pending' = pending \o Writes /\ pc' = "poll"
    /\ UNCHANGED <<live, call, index, count, reads, last, disturbed, history>>

\* A note without start_time or duration is met before anything is sent, one
\* without pitch once create_clip is out, and KeyError leaves the tool.
SendMalformed ==
    /\ pc = "send" /\ NotesMalformed
    /\ pending' \in {pending, Append(pending, Write("create_clip"))}
    /\ Ends("KeyError")
    /\ UNCHANGED <<live, disturbed, history>>

\* Live answers no query about a track or a clip there is not.
ThereIs(i) == CASE call.tool \in {"control_transport", "set_tempo"} -> TRUE
                [] call.tool = "write_generated_midi" ->
                      i \in DOMAIN tracks /\ tracks[i].clip # NoClip
                [] OTHER -> i \in DOMAIN tracks

\* What each tool compares when it reads back: of notes, only their number.
NameReads(i)   == tracks[i].name = call.track
NotesRead(i)   == Len(tracks[i].clip) = Len(call.arg)
MixerReads(i)  == tracks[i].value["set_mixer_property"] = call.arg
DeviceReads(i) == tracks[i].value["set_device_parameter"] = call.arg
TransportReads == song.playing = call.arg
TempoReads     == song.tempo = call.arg

Confirms(i) ==
    CASE call.tool = "create_track"         -> NameReads(i)
      [] call.tool = "write_generated_midi" -> NotesRead(i)
      [] call.tool = "set_mixer_property"   -> MixerReads(i)
      [] call.tool = "set_device_parameter" -> DeviceReads(i)
      [] call.tool = "control_transport"    -> TransportReads
      [] call.tool = "set_tempo"            -> TempoReads

\* Mutated: whatever the last read says is reported as the result.
PollTrusting ==
    /\ pc = "poll" /\ ThereIs(index)
    /\ IF Confirms(index) \/ reads + 1 = Attempts THEN Ends("ok")
       ELSE reads' = reads + 1 /\ UNCHANGED <<pc, call, index, count, last>>
    /\ UNCHANGED <<live, pending, disturbed, history>>

\* Mutated: no end to the reading.
PollForever ==
    /\ pc = "poll" /\ ThereIs(index)
    /\ IF Confirms(index) THEN Ends("ok") ELSE UNCHANGED <<pc, call, index, count, reads, last>>
    /\ UNCHANGED <<live, pending, disturbed, history>>

\* _wait_until, and the tool's last look at what it returned.
Poll ==
    /\ pc = "poll" /\ ThereIs(index)
    /\ IF Confirms(index) THEN Ends("ok")
       ELSE IF reads + 1 = Attempts THEN Ends("AbletonWriteUnconfirmed")
       ELSE reads' = reads + 1 /\ UNCHANGED <<pc, call, index, count, last>>
    /\ UNCHANGED <<live, pending, disturbed, history>>

\* OSCQueryTimeout leaves the tool, whichever of its queries raised it.
TimesOut ==
    /\ Ends("OSCQueryTimeout")
    /\ UNCHANGED <<live, pending, disturbed, history>>

QueryLost == Lossy /\ pc \in {"count", "find_count", "find", "poll"} /\ TimesOut

QueryUnanswered ==
    /\ \/ pc = "find" /\ index <= count /\ index \notin DOMAIN tracks
       \/ pc = "poll" /\ ~ThereIs(index)
    /\ TimesOut

-----------------------------------------------------------------------------
(* Live, UDP and the user *)

Changed(track, w) ==
    CASE w.op = "set/name"    -> [track EXCEPT !.name = w.call.track]
      [] w.op = "create_clip" -> [track EXCEPT !.clip = IF @ = NoClip THEN <<>> ELSE @]
      [] w.op = "add/notes"   -> [track EXCEPT !.clip = IF @ = NoClip THEN @ ELSE @ \o w.call.arg]
      [] w.op \in Parameters  -> [track EXCEPT !.value[w.op] = w.call.arg]

Applied(w) ==
    CASE w.op = "create_midi_track" -> Append(tracks, Track(DefaultName))
      [] w.op # "create_midi_track" /\ w.index \notin DOMAIN tracks -> tracks
      [] OTHER -> [tracks EXCEPT ![w.index] = Changed(@, w)]

Apply ==
    /\ pending # <<>>
    /\ LET w == Head(pending) IN
       /\ tracks' = IF w.op \in {"set_tempo", "control_transport"} THEN tracks ELSE Applied(w)
       /\ song' = CASE w.op = "set_tempo"         -> [song EXCEPT !.tempo = w.call.arg]
                    [] w.op = "control_transport" -> [song EXCEPT !.playing = w.call.arg]
                    [] OTHER                      -> song
    /\ pending' = Tail(pending)
    /\ UNCHANGED <<pc, call, index, count, reads, last, disturbed, history>>

Lose ==
    /\ Lossy /\ pending # <<>>
    /\ pending' = Tail(pending)
    /\ UNCHANGED <<live, pc, call, index, count, reads, last, disturbed, history>>

\* The user inserts, deletes or renames a track.
Edit ==
    /\ edits < MaxEdits /\ edits' = edits + 1
    /\ \/ \E i \in 1..Len(tracks) + 1, name \in Names :
            tracks' = SubSeq(tracks, 1, i - 1) \o <<Track(name)>> \o SubSeq(tracks, i, Len(tracks))
       \/ \E i \in DOMAIN tracks :
            \/ tracks' = SubSeq(tracks, 1, i - 1) \o SubSeq(tracks, i + 1, Len(tracks))
            \/ \E name \in Names : tracks' = [tracks EXCEPT ![i].name = name]
    /\ disturbed' = (disturbed \/ pc # "idle" \/ pending # <<>>)
    /\ UNCHANGED <<song, pending, pc, call, index, count, reads, last, before, calls>>

ToolStep ==
    CountTracks \/ FindCount \/ FindName \/ Send \/ SendMalformed \/ Poll \/ QueryUnanswered

Next ==
    \/ \E tool \in Tools, track \in Names, approved, requested \in BOOLEAN :
          \E arg \in Arguments(tool) : Call(tool, track, arg, approved, requested)
    \/ ToolStep \/ QueryLost \/ Apply \/ Lose \/ Edit

Spec == Init /\ [][Next]_vars

\* A tool that has begun runs on, whether or not a query is ever lost; nothing
\* is asked of Live, which may never apply a write, or of the user.
FairSpec == Spec /\ WF_vars(ToolStep)

-----------------------------------------------------------------------------
(* Properties *)

\* What the gate let a call write to: GEN- tracks, or approved, but never with
\* generated MIDI, any other.
MayWriteTo(c, track) ==
    track.name \in GenNames \/ (c.approved /\ c.tool # "write_generated_midi")

\* allow.txt and the tools' docstrings.  Whatever the user edits and however late
\* Live is, the index a tool settles on is, when it does, that of a track it may
\* write to.  The write follows later, and if the list has changed by then it can
\* meet another track: only of a call that found Live at rest and whose user leaves
\* the list alone does a write change no track it may not, of those there were.
UnapprovedWritesStayOnGenTracks ==
    [][/\ (pc = "find" /\ pc' = "send") => MayWriteTo(call, tracks[index])
       /\ \A i \in DOMAIN tracks \cap DOMAIN tracks' :
             (tracks'[i] # tracks[i] /\ i <= Len(before[1]) /\ edits' = edits /\ ~disturbed) =>
                MayWriteTo(Head(pending).call, tracks[i])]_vars

\* The track of that name, as a set: the first one, or none.
Sought(list, name) ==
    {i \in DOMAIN list : list[i].name = name /\ \A j \in 1..(i - 1) : list[j].name # name}

\* What Live must hold once a call that found `list` has reported success.
Done(list) ==
    CASE call.tool = "create_track" -> tracks = Append(list, Track(call.track))
      [] call.tool = "write_generated_midi" ->
            \E i \in Sought(list, call.track) : tracks = [list EXCEPT ![i].clip = call.arg]
      [] call.tool \in Parameters ->
            \E i \in Sought(list, call.track) : tracks = [list EXCEPT ![i].value[call.tool] = call.arg]
      [] call.tool = "control_transport" -> song = [before[2] EXCEPT !.playing = call.arg]
      [] call.tool = "set_tempo" -> song = [before[2] EXCEPT !.tempo = call.arg]

Succeeds == pc = "poll" /\ last' = "ok" /\ pc' = "idle"

\* AbletonWriteUnconfirmed's docstring, for calls that find Live at rest and
\* are not disturbed by the user: success means that Live holds exactly what was
\* asked for and nothing else has changed - notes only if the slot had none.
SuccessIsReal ==
    [][(Succeeds /\ ~disturbed) =>
          \/ Done(before[1])
          \/ /\ call.tool = "write_generated_midi"
             /\ \E i \in Sought(before[1], call.track) : before[1][i].clip \notin {NoClip, <<>>}]_vars

\* AbletonWriteUnconfirmed's docstring without the exception for a clip with notes.
ReportedNotesAreWritten ==
    [][(Succeeds /\ ~disturbed /\ call.tool = "write_generated_midi") =>
          tracks[index].clip # NoClip /\
          \E k \in 0..Len(tracks[index].clip) :
             SubSeq(tracks[index].clip, k + 1, Len(tracks[index].clip)) = call.arg]_vars

\* Whatever is lost, late or edited meanwhile, a tool call comes back.
CallEnds == pc # "idle" ~> pc = "idle"
=============================================================================
