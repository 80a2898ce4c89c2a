-------------------------- MODULE AbletonToolsProofs --------------------------
(***************************************************************************)
(* For any names, values, tunes, number of calls, edits and read-backs,    *)
(* any engine of which GatePolicy holds, and writes applied whenever and   *)
(* lost or not: a tool settles on a track it may write to; and for calls   *)
(* that are not disturbed, that is where its writes land, and a success    *)
(* that is reported is real.                                               *)
(*                                                                         *)
(* Both properties compare Live with the track list that the call found.   *)
(* What ties them together is IInv:                                        *)
(*   Types         types, and that what is sent has passed the gate;       *)
(*   FoundAtRest   until it sends, an undisturbed call sees Live as it     *)
(*                 found it, so the index it works with is its track's;    *)
(*   AllAimed      what is still to be applied aims at that track;         *)
(*   NamesKept     and until it is, the tracks keep their names;           *)
(*   OnTheWay      once a call has sent, Live holds what it found plus as  *)
(*                 much of the call's writes as has left the network.      *)
(***************************************************************************)
EXTENDS AbletonTools, SequenceTheorems, TLAPS

-----------------------------------------------------------------------------
(* Types *)

Ops == {"create_midi_track", "set/name", "create_clip", "add/notes",
        "set_mixer_property", "set_device_parameter", "control_transport", "set_tempo"}

OpsOf(tool) == CASE tool = "create_track"         -> {"create_midi_track", "set/name"}
                 [] tool = "write_generated_midi" -> {"create_clip", "add/notes"}
                 [] OTHER                         -> {tool}

CallRecords ==
    {c \in [tool : Tools, track : Names, arg : {NoArgument, Malformed} \cup Tunes \cup BOOLEAN \cup Values,
            approved : BOOLEAN, requested : BOOLEAN] : c.arg \in Arguments(c.tool)}

\* Calls that the gate lets through, and what they send.
Sendable == {c \in CallRecords : Permitted(c)}
WriteRecords ==
    {w \in [op : Ops, index : Nat \ {0}, call : Sendable] :
        /\ w.op \in OpsOf(w.call.tool)
        /\ w.op = "add/notes" => w.call.arg \in Tunes}

PCsOf(tool) == {"send", "poll"} \cup
    CASE tool = "create_track" -> {"count"}
      [] tool \in TrackTools   -> {"find_count", "find"}
      [] OTHER                 -> {}

\* What every variable may be.  What the calls send has passed the gate.
Types ==
    /\ tracks \in Seq(Tracks) /\ song \in Songs
    /\ before[1] \in Seq(Tracks) /\ before[2] \in Songs
    /\ pending \in Seq(WriteRecords)
    /\ pc \in {"idle", "count", "find_count", "find", "send", "poll"}
    /\ pc # "idle" => call \in Sendable /\ pc \in PCsOf(call.tool)
    /\ pc = "poll" /\ call.tool = "write_generated_midi" => call.arg \in Tunes
    /\ index \in Nat \ {0} /\ count \in Nat /\ reads \in Nat /\ edits \in Nat

\* A new track is a track of the name it is given.
LEMMA NewTrack ==
    ASSUME NEW n \in Names \cup {DefaultName}
    PROVE  Track(n) \in Tracks /\ Track(n).name = n
  <1>1. (CHOOSE v \in Values : TRUE) \in Values
    BY InitialType
  <1> QED BY <1>1 DEF Track, Tracks, Clips

\* A track that is renamed is a track.
LEMMA Renamed ==
    ASSUME NEW t \in Tracks, NEW n \in Names
    PROVE  [t EXCEPT !.name = n] \in Tracks /\ [t EXCEPT !.name = n].name = n
  BY DEF Tracks

\* A write changes a track into a track, and its name only when it sets the name.
LEMMA ChangedTyped ==
    ASSUME NEW w \in WriteRecords, NEW t \in Tracks,
           w.op \notin {"create_midi_track", "control_transport", "set_tempo"}
    PROVE  /\ Changed(t, w) \in Tracks
           /\ Changed(t, w).name = IF w.op = "set/name" THEN w.call.track ELSE t.name
  <1>1. w.call \in CallRecords /\ w.op \in OpsOf(w.call.tool) /\ w.call.tool \in Tools /\ w.call.track \in Names
        /\ w.call.arg \in Arguments(w.call.tool)
    BY DEF WriteRecords, Sendable, CallRecords
  <1>2. CASE w.op = "set/name"
    BY <1>1, <1>2, Renamed DEF Changed, Parameters
  <1>3. CASE w.op = "create_clip"
    <2>1. <<>> \in Clips
      BY DEF Clips
    <2>2. Changed(t, w) = [t EXCEPT !.clip = IF t.clip = NoClip THEN <<>> ELSE t.clip]
      BY <1>3 DEF Changed, Parameters
    <2> QED BY <1>3, <2>1, <2>2 DEF Tracks
  <1>4. CASE w.op = "add/notes"
    <2>1. w.call.arg \in Seq(Notes)
      BY <1>4, TunesType DEF WriteRecords
    <2>2. t.clip # NoClip => t.clip \in Seq(Notes) /\ (t.clip \o w.call.arg) \in Seq(Notes)
      BY <2>1 DEF Tracks, Clips
    <2>3. Changed(t, w) = [t EXCEPT !.clip = IF t.clip = NoClip THEN t.clip ELSE t.clip \o w.call.arg]
      BY <1>4 DEF Changed, Parameters
    <2> QED BY <1>4, <2>2, <2>3 DEF Tracks, Clips
  <1>5. CASE w.op \in Parameters
    <2>1. w.call.arg \in Values
      BY <1>1, <1>5 DEF OpsOf, Arguments, Tools, Parameters
    <2> QED BY <1>5, <2>1 DEF Changed, Tracks, Parameters
  <1>6. w.op \in {"set/name", "create_clip", "add/notes"} \cup Parameters
    BY DEF WriteRecords, Ops, Parameters
  <1> QED BY <1>2, <1>3, <1>4, <1>5, <1>6

\* What a write does to the track list: a track at the end, nothing, or one track
\* changed, which keeps its name unless the write sets it.
LEMMA AppliedTyped ==
    ASSUME tracks \in Seq(Tracks), NEW w \in WriteRecords, w.op \notin {"control_transport", "set_tempo"}
    PROVE  /\ Applied(w) \in Seq(Tracks)
           /\ \A i \in DOMAIN tracks :
                 /\ i \in DOMAIN Applied(w)
                 /\ Applied(w)[i] # tracks[i] => i = w.index /\ w.op # "create_midi_track"
                 /\ w.op # "set/name" => Applied(w)[i].name = tracks[i].name
  <1>1. CASE w.op = "create_midi_track"
    <2>1. Track(DefaultName) \in Tracks
      BY NewTrack
    <2> QED BY <1>1, <2>1 DEF Applied
  <1>2. CASE w.op # "create_midi_track" /\ w.index \notin DOMAIN tracks
    BY <1>2 DEF Applied
  <1>3. CASE w.op # "create_midi_track" /\ w.index \in DOMAIN tracks
    <2> DEFINE new == Changed(tracks[w.index], w)
    <2>1. /\ new \in Tracks
          /\ w.op # "set/name" => new.name = tracks[w.index].name
      BY <1>3, ChangedTyped
    <2>2. Applied(w) = [tracks EXCEPT ![w.index] = new]
      BY <1>3 DEF Applied
    <2> HIDE DEF new
    <2> QED BY <1>3, <2>1, <2>2
  <1> QED BY <1>1, <1>2, <1>3

\* The writes of a call are writes it may make.
LEMMA WritesTyped ==
    ASSUME Types, pc = "send", ~NotesMalformed
    PROVE  /\ Writes \in Seq(WriteRecords)
           /\ \A k \in DOMAIN Writes : Writes[k].call = call /\ Writes[k].index = index
  <1>1. call \in Sendable /\ call.tool \in Tools /\ index \in Nat \ {0}
    BY DEF Types, Sendable, CallRecords
  <1>0. call.tool = "write_generated_midi" => call.arg \in Tunes
    BY DEF Types, Sendable, CallRecords, Arguments, NotesMalformed
  <1>2. ASSUME NEW op \in OpsOf(call.tool)
        PROVE  Write(op) \in WriteRecords /\ Write(op).call = call /\ Write(op).index = index
    <2>1. op \in Ops /\ (op = "add/notes" => call.tool = "write_generated_midi")
      BY <1>1, <1>2 DEF OpsOf, Ops, Tools
    <2> QED BY <1>0, <1>1, <1>2, <2>1 DEF Write, WriteRecords
  <1>3. CASE call.tool = "create_track"
    <2>1. Writes = <<Write("create_midi_track"), Write("set/name")>>
      BY <1>3 DEF Writes, CreateMidiTrack
    <2> QED BY <1>2, <1>3, <2>1 DEF OpsOf
  <1>4. CASE call.tool = "write_generated_midi"
    <2>1. Writes = <<Write("create_clip"), Write("add/notes")>>
      BY <1>4 DEF Writes, ClipWithNotes
    <2> QED BY <1>0, <1>2, <1>4, <2>1 DEF OpsOf
  <1>5. CASE call.tool \notin {"create_track", "write_generated_midi"}
    <2>1. Writes = <<Write(call.tool)>>
      BY <1>5 DEF Writes, OneValue
    <2> QED BY <1>2, <1>5, <2>1 DEF OpsOf
  <1> QED BY <1>3, <1>4, <1>5

\* Of a malformed list of notes only the clip is sent.
LEMMA ClipOfMalformed ==
    ASSUME Types, SendMalformed
    PROVE  Write("create_clip") \in WriteRecords /\ Write("create_clip").call = call
           /\ Write("create_clip").index = index /\ call.tool = "write_generated_midi"
  <1>1. call \in Sendable /\ index \in Nat \ {0} /\ call.tool = "write_generated_midi"
    BY DEF SendMalformed, NotesMalformed, Types
  <1> QED BY <1>1 DEF Write, WriteRecords, OpsOf, Ops

\* The types hold at first.
LEMMA InitTyped == Init => Types
  <1> SUFFICES ASSUME Init PROVE Types
    OBVIOUS
  <1>1. (CHOOSE v \in Values : TRUE) \in Values
    BY InitialType
  <1> QED BY <1>1, InitialType DEF Init, Types, Songs

\* Every step keeps the types.
LEMMA NextTyped ==
    ASSUME Types, [Next]_vars
    PROVE  Types'
  <1> USE DEF Types
  <1>1. ASSUME NEW tool \in Tools, NEW track \in Names, NEW approved \in BOOLEAN, NEW requested \in BOOLEAN,
               NEW arg \in Arguments(tool), Call(tool, track, arg, approved, requested)
        PROVE  Types'
    <2> DEFINE c == [tool |-> tool, track |-> track, arg |-> arg, approved |-> approved, requested |-> requested]
    <2>1. arg \in {NoArgument, Malformed} \cup Tunes \cup BOOLEAN \cup Values
      BY DEF Arguments
    <2>2. c \in CallRecords
      BY <2>1 DEF CallRecords
    <2>3. FirstStep(tool) \in PCsOf(tool) /\ FirstStep(tool) \in {"count", "find_count", "send"}
      BY DEF FirstStep, PCsOf, Tools, TrackTools
    <2>4. UNCHANGED <<tracks, song, pending, edits>> /\ before' = <<tracks, song>>
      BY <1>1 DEF Call, live
    <2>5. CASE Permitted(c)
      <3>1. c \in Sendable /\ c.tool = tool
        BY <2>2, <2>5 DEF Sendable
      <3>2. call' = c /\ pc' = FirstStep(tool) /\ UNCHANGED <<index, count, reads>>
        BY <1>1, <2>5 DEF Call
      <3> HIDE DEF c
      <3> QED BY <2>3, <2>4, <3>1, <3>2
    <2>6. CASE ~Permitted(c)
      <3>1. pc' = "idle" /\ index' = 1 /\ count' = 0 /\ reads' = 0
        BY <1>1, <2>6 DEF Call, Ends
      <3> QED BY <2>4, <3>1
    <2> QED BY <2>5, <2>6
  <1>2. CASE CountTracks \/ FindCount \/ FindName
    BY <1>2 DEF CountTracks, FindCount, FindName, Ends, PCsOf, live, history
  <1>3. CASE Send
    <2>1. Writes \in Seq(WriteRecords)
      BY <1>3, WritesTyped DEF Send
    <2>2. call.tool = "write_generated_midi" => call.arg \in Tunes
      BY <1>3 DEF Send, Sendable, CallRecords, Arguments, NotesMalformed
    <2> QED BY <1>3, <2>1, <2>2 DEF Send, PCsOf, live, history
  <1>9. CASE SendMalformed
    <2>1. Write("create_clip") \in WriteRecords
      BY <1>9, ClipOfMalformed
    <2> QED BY <1>9, <2>1 DEF SendMalformed, Ends, live, history
  <1>4. CASE Poll \/ QueryUnanswered \/ QueryLost
    BY <1>4 DEF Poll, QueryUnanswered, QueryLost, TimesOut, Ends, live, history
  <1>5. CASE Apply
    <2>1. Head(pending) \in WriteRecords /\ pending' \in Seq(WriteRecords)
      BY <1>5 DEF Apply
    <2>2. tracks' \in Seq(Tracks)
      BY <1>5, <2>1, AppliedTyped DEF Apply
    <2>3. song' \in Songs
      <3>1. LET w == Head(pending) IN w.call.arg \in Arguments(w.call.tool) /\ w.call.tool \in Tools
                                      /\ w.op \in OpsOf(w.call.tool)
        BY <2>1 DEF WriteRecords, Sendable, CallRecords
      <3>2. LET w == Head(pending) IN /\ w.op = "set_tempo" => w.call.arg \in Values
                                      /\ w.op = "control_transport" => w.call.arg \in BOOLEAN
        BY <3>1 DEF OpsOf, Arguments, Tools
      <3> QED BY <1>5, <3>2 DEF Apply, Songs
    <2> QED BY <1>5, <2>1, <2>2, <2>3 DEF Apply, history
  <1>6. CASE Lose
    BY <1>6 DEF Lose, live, history
  <1>7. CASE Edit
    <2>1. \A n \in Names : Track(n) \in Tracks
      BY NewTrack
    <2>2. tracks' \in Seq(Tracks)
      <3>1. ASSUME NEW i \in 1..(Len(tracks) + 1), NEW n \in Names,
                   tracks' = SubSeq(tracks, 1, i - 1) \o <<Track(n)>> \o SubSeq(tracks, i, Len(tracks))
            PROVE  tracks' \in Seq(Tracks)
        <4>1. /\ SubSeq(tracks, 1, i - 1) \in Seq(Tracks) /\ <<Track(n)>> \in Seq(Tracks)
              /\ SubSeq(tracks, i, Len(tracks)) \in Seq(Tracks)
          BY <2>1
        <4> QED BY <3>1, <4>1
      <3>2. ASSUME NEW i \in DOMAIN tracks,
                   tracks' = SubSeq(tracks, 1, i - 1) \o SubSeq(tracks, i + 1, Len(tracks))
            PROVE  tracks' \in Seq(Tracks)
        <4>1. SubSeq(tracks, 1, i - 1) \in Seq(Tracks) /\ SubSeq(tracks, i + 1, Len(tracks)) \in Seq(Tracks)
          OBVIOUS
        <4> QED BY <3>2, <4>1
      <3>3. ASSUME NEW i \in DOMAIN tracks, NEW n \in Names, tracks' = [tracks EXCEPT ![i].name = n]
            PROVE  tracks' \in Seq(Tracks)
        <4>1. tracks[i] \in Tracks /\ [tracks[i] EXCEPT !.name = n] \in Tracks
          BY Renamed
        <4> QED BY <3>3, <4>1
      <3> QED BY <1>7, <3>1, <3>2, <3>3 DEF Edit
    <2> QED BY <1>7, <2>2 DEF Edit
  <1>8. CASE UNCHANGED vars
    BY <1>8 DEF vars, live, history
  <1> QED BY <1>1, <1>2, <1>3, <1>4, <1>5, <1>6, <1>7, <1>8, <1>9 DEF Next, ToolStep

-----------------------------------------------------------------------------
(* An undisturbed call and its writes aim at its own track *)

\* Until it has sent its writes, a call sees Live as it found it.
AtRest == pending = <<>> /\ tracks = before[1] /\ song = before[2]

\* Index i is the one that call c should write to.
Aimed(c, i) == /\ c.tool = "create_track" => i = Len(before[1]) + 1
               /\ c.tool \in TrackTools => i \in Sought(before[1], c.track)

FoundAtRest ==
    ~disturbed =>
        /\ pc \in {"count", "find_count", "find", "send"} => AtRest
        /\ pc = "find" => /\ count = Len(tracks)
                          /\ \A j \in 1..(index - 1) : j \in DOMAIN tracks => tracks[j].name # call.track
        /\ pc \in {"send", "poll"} => Aimed(call, index)

AllAimed == ~disturbed => \A k \in DOMAIN pending : Aimed(pending[k].call, pending[k].index)

NamesKept ==
    ~disturbed /\ pending # <<>> =>
        \A i \in DOMAIN before[1] : i \in DOMAIN tracks /\ tracks[i].name = before[1][i].name

\* A step that a call takes before it sends leaves Live and the network alone.
LEMMA NextFoundAtRest ==
    ASSUME Types, FoundAtRest, [Next]_vars
    PROVE  FoundAtRest'
  <1> USE DEF Types, FoundAtRest, AtRest
  <1>0. pc # "idle" => call.tool \in Tools
    BY DEF Sendable, CallRecords
  <1>1. ASSUME NEW tool \in Tools, NEW track \in Names, NEW approved \in BOOLEAN, NEW requested \in BOOLEAN,
               NEW arg \in Arguments(tool), Call(tool, track, arg, approved, requested)
        PROVE  FoundAtRest'
    <2> DEFINE c == [tool |-> tool, track |-> track, arg |-> arg, approved |-> approved, requested |-> requested]
    <2>1. /\ UNCHANGED <<tracks, song, pending>> /\ before' = <<tracks, song>>
          /\ disturbed' = (pending # <<>>)
      BY <1>1 DEF Call, live
    <2>2. CASE Permitted(c)
      <3>1. call' = c /\ pc' = FirstStep(tool) /\ c.tool = tool
        BY <1>1, <2>2 DEF Call
      <3>2. tool \in TrackTools \cup {"create_track"} => FirstStep(tool) \in {"count", "find_count"}
        BY DEF FirstStep, TrackTools
      <3>3. FirstStep(tool) \in {"count", "find_count", "send"}
        BY DEF FirstStep
      <3> HIDE DEF c
      <3>4. pc' = "send" => Aimed(call, index)'
        BY <3>1, <3>2 DEF Aimed
      <3> QED BY <2>1, <3>1, <3>3, <3>4
    <2>3. CASE ~Permitted(c)
      BY <1>1, <2>3 DEF Call, Ends
    <2> QED BY <2>2, <2>3
  <1>2. CASE CountTracks
    <2>1. call.tool = "create_track"
      BY <1>0, <1>2 DEF CountTracks, PCsOf, Tools, TrackTools
    <2> QED BY <1>2, <2>1 DEF CountTracks, Aimed, TrackTools, live, history
  <1>3. CASE FindCount
    BY <1>3 DEF FindCount, live, history
  <1>4. CASE FindName
    <2>1. call.tool \in TrackTools
      BY <1>0, <1>4 DEF FindName, PCsOf, Tools, TrackTools
    <2>2. UNCHANGED <<tracks, song, pending, disturbed, before>>
      BY <1>4 DEF FindName, live, history
    <2>3. CASE index > count
      BY <1>4, <2>3 DEF FindName, Ends
    <2>4. CASE ~(index > count) /\ tracks[index].name = call.track
      <3>1. pc' = "send" /\ UNCHANGED <<index, call>> /\ pc = "find" /\ index \in DOMAIN tracks
        BY <1>4, <2>4 DEF FindName
      <3>2. ~disturbed => Aimed(call, index)
        BY <2>1, <2>4, <3>1 DEF Aimed, Sought, TrackTools
      <3> QED BY <2>2, <3>1, <3>2 DEF Aimed, Sought
    <2>5. CASE ~(index > count) /\ tracks[index].name # call.track
      BY <1>4, <2>2, <2>5 DEF FindName
    <2> QED BY <2>3, <2>4, <2>5
  <1>5. CASE Send \/ SendMalformed
    BY <1>5 DEF Send, SendMalformed, Ends, Aimed, Sought, live, history
  <1>6. CASE Poll \/ QueryUnanswered \/ QueryLost
    BY <1>6 DEF Poll, QueryUnanswered, QueryLost, TimesOut, Ends, Aimed, Sought, live, history
  <1>7. CASE Apply \/ Lose
    BY <1>7 DEF Apply, Lose, Aimed, Sought, live, history
  <1>8. CASE Edit
    BY <1>8 DEF Edit
  <1>9. CASE UNCHANGED vars
    BY <1>9 DEF vars, live, history, Aimed, Sought
  <1> QED BY <1>1, <1>2, <1>3, <1>4, <1>5, <1>6, <1>7, <1>8, <1>9 DEF Next, ToolStep

\* With nothing on its way there is nothing to aim, now or next.
LEMMA NothingToAim == (~disturbed' => pending' = <<>>) => AllAimed' /\ NamesKept'
  BY DEF AllAimed, NamesKept

\* What an undisturbed call sends aims at its track, and so does what is left of it.
LEMMA NextAimed ==
    ASSUME Types, FoundAtRest, AllAimed, NamesKept, [Next]_vars
    PROVE  AllAimed' /\ NamesKept'
  <1> USE DEF Types, AllAimed, NamesKept
  <1>1. ASSUME NEW tool \in Tools, NEW track \in Names, NEW approved \in BOOLEAN, NEW requested \in BOOLEAN,
               NEW arg \in Arguments(tool), Call(tool, track, arg, approved, requested)
        PROVE  AllAimed' /\ NamesKept'
    <2>1. UNCHANGED pending /\ disturbed' = (pending # <<>>)
      BY <1>1 DEF Call, live
    <2>2. ~disturbed' => pending' = <<>>
      BY <2>1, Zenon
    <2> QED BY <2>2, NothingToAim
  <1>2. CASE Send
    <2>1. /\ pc = "send" /\ ~NotesMalformed
          /\ UNCHANGED <<tracks, disturbed, before>> /\ pending' = pending \o Writes
      BY <1>2 DEF Send, live, history
    <2>2. /\ Writes \in Seq(WriteRecords)
          /\ \A k \in DOMAIN Writes : Writes[k].call = call /\ Writes[k].index = index
      BY <2>1, WritesTyped
    <2>3. ~disturbed => pending' = Writes /\ Aimed(call, index) /\ tracks = before[1]
      BY <2>1, <2>2 DEF FoundAtRest, AtRest
    <2>4. ~disturbed => \A k \in DOMAIN Writes : Aimed(Writes[k].call, Writes[k].index)
      BY <2>2, <2>3
    <2>5. AllAimed'
      <3> SUFFICES ASSUME ~disturbed', NEW k \in DOMAIN pending'
                   PROVE  Aimed(pending[k].call, pending[k].index)'
        OBVIOUS
      <3>1. k \in DOMAIN Writes /\ pending'[k] = Writes[k] /\ Aimed(Writes[k].call, Writes[k].index)
        BY <2>1, <2>3, <2>4
      <3> QED BY <2>1, <3>1 DEF Aimed, Sought
    <2>6. NamesKept'
      BY <2>1, <2>3
    <2> QED BY <2>5, <2>6
  <1>3. CASE Apply
    <2> DEFINE w == Head(pending)
    <2>1. /\ w \in WriteRecords /\ pending # <<>> /\ w = pending[1]
          /\ pending' = Tail(pending) /\ UNCHANGED <<disturbed, before>>
          /\ \A k \in DOMAIN pending' : k + 1 \in DOMAIN pending /\ pending'[k] = pending[k + 1]
      BY <1>3 DEF Apply, history
    <2>2. AllAimed'
      BY <2>1 DEF Aimed, Sought
    <2>3. ASSUME ~disturbed, NEW i \in DOMAIN before[1]
          PROVE  i \in DOMAIN tracks' /\ tracks'[i].name = before[1][i].name
      <3>1. i \in DOMAIN tracks /\ tracks[i].name = before[1][i].name
        BY <2>1, <2>3
      <3>2. CASE w.op \in {"set_tempo", "control_transport"}
        BY <1>3, <3>1, <3>2 DEF Apply
      <3>3. CASE w.op \notin {"set_tempo", "control_transport"}
        <4>1. tracks' = Applied(w)
          BY <1>3, <3>3 DEF Apply
        <4>2. CASE w.op # "set/name"
          BY <2>1, <3>1, <3>3, <4>1, <4>2, AppliedTyped
        <4>3. CASE w.op = "set/name"
          <5>1. w.call.tool = "create_track"
            BY <2>1, <4>3 DEF WriteRecords, Sendable, CallRecords, OpsOf, Tools
          <5>2. w.index = Len(before[1]) + 1
            BY <2>1, <2>3, <5>1 DEF Aimed
          <5>3. i # w.index
            BY <5>2
          <5> QED BY <2>1, <3>1, <3>3, <4>1, <5>3, AppliedTyped
        <4> QED BY <4>2, <4>3
      <3> QED BY <3>2, <3>3
    <2> QED BY <2>1, <2>2, <2>3
  <1>4. CASE Lose
    <2>1. /\ pending # <<>> /\ pending' = Tail(pending) /\ UNCHANGED <<tracks, disturbed, before>>
          /\ \A k \in DOMAIN pending' : k + 1 \in DOMAIN pending /\ pending'[k] = pending[k + 1]
      BY <1>4 DEF Lose, live, history
    <2>2. AllAimed'
      BY <2>1 DEF Aimed, Sought
    <2>3. NamesKept'
      BY <2>1
    <2> QED BY <2>2, <2>3
  <1>5. CASE Edit
    <2>1. UNCHANGED pending /\ disturbed' = (disturbed \/ pc # "idle" \/ pending # <<>>)
      BY <1>5 DEF Edit
    <2>2. ~disturbed' => pending' = <<>>
      BY <2>1, Zenon
    <2> QED BY <2>2, NothingToAim
  <1>6. CASE UNCHANGED <<tracks, pending, disturbed, before>>
    BY <1>6 DEF Aimed, Sought
  <1>7. CASE SendMalformed
    <2> DEFINE w == Write("create_clip")
    <2>1. /\ UNCHANGED <<tracks, disturbed, before>> /\ pc = "send"
          /\ pending' \in {pending, Append(pending, w)}
      BY <1>7 DEF SendMalformed, live, history
    <2>2. w \in WriteRecords /\ w.call = call /\ w.index = index
      BY <1>7, ClipOfMalformed
    <2> HIDE DEF w
    <2>3. ~disturbed => pending = <<>> /\ Aimed(w.call, w.index) /\ tracks = before[1]
      BY <2>1, <2>2 DEF FoundAtRest, AtRest
    <2>4. AllAimed'
      <3> SUFFICES ASSUME ~disturbed', NEW k \in DOMAIN pending'
                   PROVE  Aimed(pending[k].call, pending[k].index)'
        OBVIOUS
      <3>1. pending'[k] = w
        BY <2>1, <2>3
      <3> QED BY <2>1, <2>3, <3>1 DEF Aimed, Sought
    <2>5. NamesKept'
      BY <2>1, <2>3
    <2> QED BY <2>4, <2>5
  <1> QED BY <1>1, <1>2, <1>3, <1>4, <1>5, <1>6, <1>7 DEF Next, ToolStep, CountTracks, FindCount, FindName, Poll,
        QueryUnanswered, QueryLost, TimesOut, vars, live, history

-----------------------------------------------------------------------------
(* What Live holds while an undisturbed call reads back *)

Have(track) == tracks = [before[1] EXCEPT ![index] = track]
Found       == before[1][index]

\* A track was created, and perhaps named.
Creating ==
    call.tool = "create_track" =>
        \/ pending = CreateMidiTrack /\ tracks = before[1]
        \/ pending = <<Write("set/name")>> /\ tracks \in {before[1], Append(before[1], Track(DefaultName))}
        \/ /\ pending = <<>>
           /\ tracks \in {before[1], Append(before[1], Track(DefaultName)), Append(before[1], Track(call.track))}

\* A clip was created where there was none, and perhaps filled.
Noting ==
    call.tool = "write_generated_midi" /\ Found.clip \in {NoClip, <<>>} =>
        LET Clip(notes) == [Found EXCEPT !.clip = notes] IN
        \/ pending = ClipWithNotes /\ Have(Found)
        \/ pending = <<Write("add/notes")>> /\ (Have(Found) \/ Have(Clip(<<>>)))
        \/ pending = <<>> /\ (Have(Found) \/ Have(Clip(<<>>)) \/ Have(Clip(call.arg)))

\* A value of the track was set, or not.
Setting ==
    call.tool \in Parameters =>
        \/ pending = OneValue /\ Have(Found)
        \/ pending = <<>> /\ (Have(Found) \/ Have([Found EXCEPT !.value[call.tool] = call.arg]))

\* So was the tempo or the transport.
Playing ==
    call.tool \in {"control_transport", "set_tempo"} =>
        \/ pending = OneValue /\ song = before[2]
        \/ /\ pending = <<>>
           /\ \/ song = before[2]
              \/ call.tool = "control_transport" /\ song = [before[2] EXCEPT !.playing = call.arg]
              \/ call.tool = "set_tempo" /\ song = [before[2] EXCEPT !.tempo = call.arg]

OnTheWay == ~disturbed /\ pc = "poll" => Creating /\ Noting /\ Setting /\ Playing

\* The steps that leave an undisturbed call reading back.
LEMMA ReadingBack ==
    ASSUME Types, [Next]_vars, pc' = "poll", ~disturbed'
    PROVE  /\ ~disturbed /\ UNCHANGED <<call, index, before>>
           /\ \/ Send
              \/ pc = "poll" /\ pending # <<>> /\ pending' = Tail(pending) /\ (Apply \/ UNCHANGED <<tracks, song>>)
              \/ pc = "poll" /\ UNCHANGED <<pending, tracks, song>>
  <1>1. ASSUME NEW tool \in Tools, NEW track \in Names, NEW approved \in BOOLEAN, NEW requested \in BOOLEAN,
               NEW arg \in Arguments(tool), Call(tool, track, arg, approved, requested)
        PROVE  FALSE
    BY <1>1 DEF Call, Ends, FirstStep
  <1>2. CASE Edit
    <2>1. disturbed' = (disturbed \/ pc # "idle" \/ pending # <<>>) /\ UNCHANGED pc
      BY <1>2 DEF Edit
    <2> QED BY <2>1, Zenon
  <1>3. CASE ToolStep \/ QueryLost \/ Apply \/ Lose \/ UNCHANGED vars
    BY <1>3 DEF ToolStep, CountTracks, FindCount, FindName, Send, SendMalformed, Poll, QueryUnanswered,
                QueryLost, TimesOut, Ends, Apply, Lose, vars, live, history
  <1> QED BY <1>1, <1>2, <1>3 DEF Next

\* While an undisturbed call works on a track, that track is there.
LEMMA TrackIsThere ==
    ASSUME Types, FoundAtRest, ~disturbed, pc \in {"send", "poll"}, call.tool \in TrackTools
    PROVE  index \in DOMAIN before[1] /\ Found \in Tracks
  BY DEF Types, FoundAtRest, Aimed, Sought, Found

\* Applying a write to the track a call has found changes that track alone.
LEMMA AppliedThere ==
    ASSUME Types, index \in DOMAIN before[1], NEW t \in Tracks, Have(t),
           NEW w \in WriteRecords, w.index = index,
           w.op \notin {"create_midi_track", "set_tempo", "control_transport"}
    PROVE  Applied(w) = [before[1] EXCEPT ![index] = Changed(t, w)]
  <1> DEFINE new == Changed(t, w)
  <1>1. index \in DOMAIN tracks /\ tracks[index] = t
    BY DEF Types, Have
  <1>2. Applied(w) = [tracks EXCEPT ![index] = new]
    BY <1>1 DEF Applied
  <1> HIDE DEF new
  <1>3. [[before[1] EXCEPT ![index] = t] EXCEPT ![index] = new] = [before[1] EXCEPT ![index] = new]
    BY DEF Types
  <1> QED BY <1>2, <1>3 DEF Have, new

\* Putting the track back that was found changes nothing.
LEMMA HaveFound ==
    ASSUME Types, index \in DOMAIN before[1]
    PROVE  Have(Found) <=> tracks = before[1]
  BY DEF Types, Have, Found

\* Writes that are applied change the track list, the tempo or the transport.
LEMMA ApplyHead ==
    ASSUME Types, Apply
    PROVE  LET w == Head(pending) IN
           /\ pending # <<>> /\ pending' = Tail(pending) /\ w \in WriteRecords
           /\ w.op \notin {"set_tempo", "control_transport"} => tracks' = Applied(w) /\ song' = song
           /\ w.op = "set_tempo" => song' = [song EXCEPT !.tempo = w.call.arg]
           /\ w.op = "control_transport" => song' = [song EXCEPT !.playing = w.call.arg]
  BY DEF Apply, Types

\* Changing the last element of a list is to have appended something else.
LEMMA AppendChanged ==
    ASSUME NEW S, NEW s \in Seq(S), NEW a \in S, NEW b \in S
    PROVE  [Append(s, a) EXCEPT ![Len(s) + 1] = b] = Append(s, b)
  <1> DEFINE r == [Append(s, a) EXCEPT ![Len(s) + 1] = b]
  <1>1. r \in Seq(S) /\ Len(r) = Len(s) + 1
    OBVIOUS
  <1>2. \A i \in 1..Len(r) : r[i] = Append(s, b)[i]
    <2> TAKE i \in 1..Len(r)
    <2>1. Append(s, a) \in Seq(S) /\ i \in DOMAIN Append(s, a)
      BY <1>1
    <2>2. r[i] = IF i = Len(s) + 1 THEN b ELSE Append(s, a)[i]
      BY <2>1
    <2>3. i \in 1..Len(s) \/ i = Len(s) + 1
      BY <1>1
    <2> HIDE DEF r
    <2> QED BY <2>2, <2>3
  <1>3. Append(s, b) \in Seq(S) /\ Len(Append(s, b)) = Len(r)
    BY <1>1
  <1> HIDE DEF r
  <1>4. r = Append(s, b)
    BY <1>1, <1>2, <1>3, SeqEqual
  <1> QED BY <1>4 DEF r

\* create_track, while it reads back.
LEMMA NextCreating ==
    ASSUME Types, FoundAtRest, OnTheWay, [Next]_vars, pc' = "poll", ~disturbed'
    PROVE  Creating'
  <1> SUFFICES ASSUME call'.tool = "create_track" PROVE Creating'
    BY DEF Creating
  <1>0. ~disturbed /\ UNCHANGED <<call, index, before>> /\ call.tool = "create_track"
    BY ReadingBack
  <1>1. CASE Send
    BY <1>0, <1>1 DEF Send, live, Types, FoundAtRest, AtRest, Creating, Writes, CreateMidiTrack, Write
  <1>2. ASSUME pc = "poll", pending # <<>>, pending' = Tail(pending), Apply \/ UNCHANGED <<tracks, song>>
        PROVE  Creating'
    <2> DEFINE cr == Write("create_midi_track")
               nm == Write("set/name")
               blank == Append(before[1], Track(DefaultName))
               named == Append(before[1], Track(call.track))
    <2>0. Creating /\ CreateMidiTrack = <<cr, nm>> /\ index = Len(before[1]) + 1 /\ call.track \in Names
          /\ nm' = nm /\ blank' = blank /\ named' = named
      BY <1>0, <1>2 DEF OnTheWay, CreateMidiTrack, FoundAtRest, Aimed, Types, Sendable, CallRecords, Write, Track
    <2>1. CASE pending = <<cr, nm>> /\ tracks = before[1]
      <3>1. Head(pending) = cr /\ Tail(pending) = <<nm>>
        BY <2>1
      <3>2. Apply => tracks' = blank
        BY <2>1, <3>1, ApplyHead DEF Applied, Write
      <3> QED BY <1>0, <1>2, <2>0, <2>1, <3>1, <3>2 DEF Creating
    <2>2. CASE pending = <<nm>> /\ tracks \in {before[1], blank}
      <3>1. Head(pending) = nm /\ Tail(pending) = <<>>
        BY <2>2
      <3>2. Apply => tracks' = Applied(nm) /\ nm.op = "set/name" /\ nm.index = index /\ nm.call = call
        BY <3>1, ApplyHead DEF Write
      <3>3. tracks = before[1] => index \notin DOMAIN tracks
        BY <2>0 DEF Types
      <3>4. tracks = before[1] /\ Apply => tracks' = before[1]
        BY <3>2, <3>3 DEF Applied
      <3>5. tracks = blank /\ Apply => tracks' = named
        <4> SUFFICES ASSUME tracks = blank, Apply PROVE tracks' = named
          OBVIOUS
        <4>1. index \in DOMAIN tracks /\ tracks[index] = Track(DefaultName)
          BY <2>0 DEF Types
        <4>2. Changed(Track(DefaultName), nm) = Track(call.track)
          <5>1. Changed(Track(DefaultName), nm) = [Track(DefaultName) EXCEPT !.name = call.track]
            BY <3>2 DEF Changed, Parameters
          <5> QED BY <5>1 DEF Track
        <4>3. tracks' = [tracks EXCEPT ![index] = Track(call.track)]
          BY <3>2, <4>1, <4>2 DEF Applied
        <4>4. Track(call.track) \in Tracks /\ Track(DefaultName) \in Tracks
          BY <2>0, NewTrack
        <4> HIDE DEF nm
        <4>5. [blank EXCEPT ![Len(before[1]) + 1] = Track(call.track)] = named
          <5>1. before[1] \in Seq(Tracks)
            BY DEF Types
          <5> DEFINE a == Track(DefaultName)
                     b == Track(call.track)
                     s == before[1]
          <5>2. a \in Tracks /\ b \in Tracks /\ s \in Seq(Tracks)
            BY <4>4, <5>1
          <5> HIDE DEF a, b, s
          <5>3. [Append(s, a) EXCEPT ![Len(s) + 1] = b] = Append(s, b)
            BY <5>2, AppendChanged
          <5> QED BY <5>3 DEF a, b, s
        <4> QED BY <2>0, <4>3, <4>5
      <3> QED BY <1>0, <1>2, <2>0, <2>2, <3>1, <3>4, <3>5 DEF Creating
    <2> QED BY <1>0, <1>2, <2>0, <2>1, <2>2 DEF Creating
  <1>3. ASSUME pc = "poll", UNCHANGED <<pending, tracks, song>>
        PROVE  Creating'
    BY <1>0, <1>3 DEF OnTheWay, Creating, CreateMidiTrack, Write, Track
  <1> QED BY <1>1, <1>2, <1>3, ReadingBack

\* write_generated_midi, while it reads back.
LEMMA NextNoting ==
    ASSUME Types, FoundAtRest, OnTheWay, [Next]_vars, pc' = "poll", ~disturbed'
    PROVE  Noting'
  <1> SUFFICES ASSUME call'.tool = "write_generated_midi", Found'.clip \in {NoClip, <<>>} PROVE Noting'
    BY DEF Noting
  <1>0. /\ ~disturbed /\ UNCHANGED <<call, index, before>> /\ call.tool = "write_generated_midi"
        /\ Found' = Found /\ Found.clip \in {NoClip, <<>>}
    BY ReadingBack DEF Found
  <1>1. index \in DOMAIN before[1] /\ Found \in Tracks /\ call \in Sendable
    <2>1. pc \in {"send", "poll"}
      BY ReadingBack DEF Send
    <2> QED BY <1>0, <2>1, TrackIsThere DEF TrackTools, Types
  <1>2. CASE Send
    <2>1. UNCHANGED tracks /\ pending' = pending \o Writes /\ pending = <<>> /\ tracks = before[1]
      BY <1>0, <1>2 DEF Send, live, FoundAtRest, AtRest
    <2>2. pending' = ClipWithNotes /\ ClipWithNotes' = ClipWithNotes
      BY <1>0, <2>1 DEF Writes, ClipWithNotes, Write
    <2>3. Have(Found)'
      BY <1>0, <1>1, <2>1, HaveFound DEF Have
    <2> QED BY <2>2, <2>3 DEF Noting
  <1> DEFINE Clip(notes) == [Found EXCEPT !.clip = notes]
             cl == Write("create_clip")
             nt == Write("add/notes")
             Hold(t) == tracks' = [before[1] EXCEPT ![index] = t]
  <1>3. \A t : Have(t)' <=> Hold(t)
    BY <1>0 DEF Have
  <1>4. /\ ClipWithNotes = <<cl, nt>> /\ ClipWithNotes' = ClipWithNotes /\ nt' = nt
        /\ cl.op = "create_clip" /\ nt.op = "add/notes"
        /\ cl.index = index /\ nt.index = index /\ cl.call = call /\ nt.call = call
    BY <1>0 DEF ClipWithNotes, Write
  <1>5. call.arg \in Seq(Notes) /\ <<>> \in Clips /\ Clip(<<>>) \in Tracks
    <2>1. call.arg \in Seq(Notes)
      <3>1. pc = "send" => ~NotesMalformed
        BY ReadingBack DEF Send
      <3> QED BY <1>0, <1>1, <3>1, ReadingBack, TunesType
             DEF Types, Sendable, CallRecords, Arguments, NotesMalformed, Send
    <2>2. <<>> \in Clips
      BY DEF Clips
    <2> QED BY <1>1, <2>1, <2>2 DEF Tracks
  <1> HIDE DEF cl, nt, Hold
  <1>6. ASSUME pc = "poll", pending # <<>>, pending' = Tail(pending), Apply \/ UNCHANGED <<tracks, song>>
        PROVE  Noting'
    <2>0. Noting
      BY <1>0, <1>6 DEF OnTheWay
    <2>1. CASE pending = <<cl, nt>> /\ Have(Found)
      <3>1. Head(pending) = cl /\ pending' = <<nt>>
        BY <1>6, <2>1
      <3>2. Apply => Hold(Changed(Found, cl))
        BY <1>1, <1>4, <2>1, <3>1, ApplyHead, AppliedThere DEF Hold
      <3>3. Changed(Found, cl) = Clip(<<>>)
        <4>1. Changed(Found, cl) = [Found EXCEPT !.clip = IF Found.clip = NoClip THEN <<>> ELSE Found.clip]
          BY <1>4 DEF Changed, Parameters
        <4> QED BY <1>0, <4>1
      <3>4. ~Apply => Hold(Found)
        BY <1>6, <2>1 DEF Hold, Have
      <3> QED BY <1>0, <1>3, <1>4, <3>1, <3>2, <3>3, <3>4 DEF Noting, nt
    <2>2. ASSUME pending = <<nt>>, NEW t \in {Found, Clip(<<>>)}, Have(t)
          PROVE  Noting'
      <3>1. Head(pending) = nt /\ pending' = <<>>
        BY <1>6, <2>2
      <3>2. t \in Tracks /\ t.clip \in {NoClip, <<>>}
        BY <1>0, <1>1, <1>5, <2>2 DEF Tracks
      <3>3. Apply => Hold(Changed(t, nt))
        BY <1>1, <1>4, <2>2, <3>1, <3>2, ApplyHead, AppliedThere DEF Hold
      <3>4. Changed(t, nt) \in {t, Clip(call.arg)}
        <4>1. Changed(t, nt) = [t EXCEPT !.clip = IF t.clip = NoClip THEN t.clip ELSE t.clip \o call.arg]
          BY <1>4 DEF Changed, Parameters
        <4>2. CASE t.clip = NoClip
          BY <3>2, <4>1, <4>2 DEF Tracks
        <4>3. CASE t.clip # NoClip
          <5>1. \A s \in Seq(Notes) : <<>> \o s = s
            OBVIOUS
          <5>2. t.clip \o call.arg = call.arg
            BY <1>5, <3>2, <4>3, <5>1
          <5> QED BY <1>1, <2>2, <4>1, <4>3, <5>2 DEF Tracks
        <4> QED BY <4>2, <4>3
      <3>5. ~Apply => Hold(t)
        BY <1>6, <2>2 DEF Hold, Have
      <3> QED BY <1>0, <1>3, <2>2, <3>1, <3>3, <3>4, <3>5 DEF Noting
    <2> QED BY <1>0, <1>4, <1>6, <2>0, <2>1, <2>2 DEF Noting, nt
  <1>7. ASSUME pc = "poll", UNCHANGED <<pending, tracks, song>>
        PROVE  Noting'
    BY <1>0, <1>7 DEF OnTheWay, Noting, ClipWithNotes, Write, Have, Found
  <1> QED BY <1>2, <1>6, <1>7, ReadingBack

\* set_mixer_property and set_device_parameter, while they read back.
LEMMA NextSetting ==
    ASSUME Types, FoundAtRest, OnTheWay, [Next]_vars, pc' = "poll", ~disturbed'
    PROVE  Setting'
  <1> SUFFICES ASSUME call'.tool \in Parameters PROVE Setting'
    BY DEF Setting
  <1>0. ~disturbed /\ UNCHANGED <<call, index, before>> /\ call.tool \in Parameters /\ Found' = Found
    BY ReadingBack DEF Found
  <1>1. index \in DOMAIN before[1] /\ Found \in Tracks
    <2>1. pc \in {"send", "poll"}
      BY ReadingBack DEF Send
    <2> QED BY <1>0, <2>1, TrackIsThere DEF TrackTools, Parameters
  <1>2. CASE Send
    <2>1. UNCHANGED tracks /\ pending' = pending \o Writes /\ pending = <<>> /\ tracks = before[1]
      BY <1>0, <1>2 DEF Send, live, FoundAtRest, AtRest
    <2>2. pending' = OneValue /\ OneValue' = OneValue
      BY <1>0, <2>1 DEF Writes, OneValue, Write, Parameters
    <2>3. Have(Found)'
      BY <1>0, <1>1, <2>1, HaveFound DEF Have
    <2> QED BY <2>2, <2>3 DEF Setting
  <1>3. ASSUME pc = "poll", pending # <<>>, pending' = Tail(pending), Apply \/ UNCHANGED <<tracks, song>>
        PROVE  Setting'
    <2> DEFINE w == Write(call.tool)
               set == [Found EXCEPT !.value[call.tool] = call.arg]
    <2>1. /\ pending = <<w>> /\ Have(Found) /\ w.op = call.tool /\ w.index = index /\ w.call = call
          /\ w.op \in Parameters /\ w.op \notin {"set/name", "create_clip", "add/notes"}
      BY <1>0, <1>3 DEF OnTheWay, Setting, OneValue, Write, Parameters
    <2> HIDE DEF w
    <2>2. Head(pending) = w /\ pending' = <<>>
      BY <1>3, <2>1
    <2>3. Apply => tracks' = [before[1] EXCEPT ![index] = Changed(Found, w)]
      BY <1>1, <2>1, <2>2, ApplyHead, AppliedThere DEF Parameters
    <2>4. Changed(Found, w) = set
      BY <2>1 DEF Changed
    <2>5. ~Apply => tracks' = [before[1] EXCEPT ![index] = Found]
      BY <1>3, <2>1 DEF Have
    <2> QED BY <1>0, <2>2, <2>3, <2>4, <2>5 DEF Setting, Have
  <1>4. ASSUME pc = "poll", UNCHANGED <<pending, tracks, song>>
        PROVE  Setting'
    BY <1>0, <1>4 DEF OnTheWay, Setting, OneValue, Write, Have, Found
  <1> QED BY <1>2, <1>3, <1>4, ReadingBack

\* control_transport and set_tempo, while they read back.
LEMMA NextPlaying ==
    ASSUME Types, FoundAtRest, OnTheWay, [Next]_vars, pc' = "poll", ~disturbed'
    PROVE  Playing'
  <1> SUFFICES ASSUME call'.tool \in {"control_transport", "set_tempo"} PROVE Playing'
    BY DEF Playing
  <1>0. ~disturbed /\ UNCHANGED <<call, index, before>> /\ call.tool \in {"control_transport", "set_tempo"}
    BY ReadingBack
  <1>1. CASE Send
    BY <1>0, <1>1 DEF Send, live, FoundAtRest, AtRest, Playing, Writes, OneValue, Write
  <1>2. ASSUME pc = "poll", pending # <<>>, pending' = Tail(pending), Apply \/ UNCHANGED <<tracks, song>>
        PROVE  Playing'
    <2> DEFINE w == Write(call.tool)
    <2>1. pending = <<w>> /\ song = before[2] /\ w.op = call.tool /\ w.call = call
      BY <1>0, <1>2 DEF OnTheWay, Playing, OneValue, Write
    <2> HIDE DEF w
    <2>2. Head(pending) = w /\ pending' = <<>>
      BY <1>2, <2>1
    <2>3. CASE Apply
      BY <1>0, <2>1, <2>2, <2>3, ApplyHead DEF Playing
    <2> QED BY <1>0, <1>2, <2>1, <2>2, <2>3 DEF Playing
  <1>3. ASSUME pc = "poll", UNCHANGED <<pending, tracks, song>>
        PROVE  Playing'
    BY <1>0, <1>3 DEF OnTheWay, Playing, OneValue, Write
  <1> QED BY <1>1, <1>2, <1>3, ReadingBack

-----------------------------------------------------------------------------
(* The theorems *)

IInv == Types /\ FoundAtRest /\ AllAimed /\ NamesKept /\ OnTheWay

\* The invariant holds at first and is kept by every step.
LEMMA Inductive == Spec => []IInv
  <1>1. Init => IInv
    <2> SUFFICES ASSUME Init PROVE IInv
      OBVIOUS
    <2>1. FoundAtRest /\ AllAimed /\ NamesKept /\ OnTheWay
      BY DEF Init, FoundAtRest, AllAimed, NamesKept, OnTheWay
    <2> QED BY <2>1, InitTyped DEF IInv
  <1>2. IInv /\ [Next]_vars => IInv'
    <2> SUFFICES ASSUME IInv, [Next]_vars PROVE IInv'
      OBVIOUS
    <2>1. Types' /\ FoundAtRest' /\ AllAimed' /\ NamesKept'
      BY NextTyped, NextFoundAtRest, NextAimed DEF IInv
    <2>2. OnTheWay'
      <3> SUFFICES ASSUME pc' = "poll", ~disturbed' PROVE Creating' /\ Noting' /\ Setting' /\ Playing'
        BY DEF OnTheWay
      <3> QED BY NextCreating, NextNoting, NextSetting, NextPlaying DEF IInv
    <2> QED BY <2>1, <2>2 DEF IInv
  <1> QED BY <1>1, <1>2, PTL DEF Spec

\* Live's tracks and song, the writes on their way and the variables of the tools are
\* what they should be, and nothing is on its way that the gate has not let through.
THEOREM TypeCorrect == Spec => []Types
  <1>1. IInv => Types
    BY DEF IInv
  <1> QED BY Inductive, <1>1, PTL

\* What passed the gate may write to a track of the name it was asked for.
LEMMA GateLets ==
    ASSUME NEW c \in Sendable, c.tool \in TrackTools, NEW track, track.name = c.track
    PROVE  MayWriteTo(c, track)
  <1>1. c.track \in Names /\ c.requested \in BOOLEAN /\ Permitted(c)
    BY DEF Sendable, CallRecords
  <1>2. CASE c.track \in GenNames
    BY <1>2 DEF MayWriteTo
  <1>3. CASE c.track \notin GenNames
    <2>1. Verdict(c) # "ALLOW" /\ (c.tool = "write_generated_midi" => Verdict(c) = "DENY")
      BY <1>1, <1>3, GatePolicy DEF Verdict
    <2> QED BY <1>1, <2>1 DEF Permitted, MayWriteTo
  <1> QED BY <1>2, <1>3

\* Whatever the user edits, a tool settles on a track it may write to.  What a call
\* writes changes no other of the tracks it found, if it found Live at rest and the
\* user leaves the track list alone until the writes are through.
THEOREM GateKept == Spec => UnapprovedWritesStayOnGenTracks
  <1>1. ASSUME IInv, [Next]_vars, pc = "find", pc' = "send"
        PROVE  MayWriteTo(call, tracks[index])
    <2>1. FindName
      BY <1>1 DEF Next, Call, Ends, FirstStep, ToolStep, CountTracks, FindCount, FindName, Send, SendMalformed,
                  Poll, QueryUnanswered, QueryLost, TimesOut, Apply, Lose, Edit, vars
    <2>2. tracks[index].name = call.track
      BY <1>1, <2>1 DEF FindName, Ends
    <2>3. call \in Sendable /\ call.tool \in Tools /\ "find" \in PCsOf(call.tool)
      BY <1>1 DEF IInv, Types, Sendable, CallRecords
    <2>4. call.tool \in TrackTools
      BY <2>3 DEF PCsOf, Tools, TrackTools
    <2> QED BY <2>2, <2>3, <2>4, GateLets
  <1>2. ASSUME IInv, [Next]_vars, NEW i \in DOMAIN tracks, tracks'[i] # tracks[i],
               i <= Len(before[1]), edits' = edits, ~disturbed
        PROVE  MayWriteTo(Head(pending).call, tracks[i])
    <2> USE <1>2 DEF IInv
    <2> DEFINE w == Head(pending)
    <2>1. Apply
      <3>1. ~Edit
        BY DEF Edit, Types
      <3> QED BY <3>1 DEF Next, Call, ToolStep, CountTracks, FindCount, FindName, Send, SendMalformed, Poll,
            QueryUnanswered, QueryLost, TimesOut, Lose, vars, live
    <2>2. w \in WriteRecords /\ pending # <<>> /\ w = pending[1] /\ 1 \in DOMAIN pending
      BY <2>1 DEF Apply, Types
    <2>3. w.op \notin {"set_tempo", "control_transport"} /\ tracks' = Applied(w)
      BY <2>1 DEF Apply
    <2>4. i = w.index /\ w.op # "create_midi_track"
      BY <2>2, <2>3, AppliedTyped DEF Types
    <2>5. w.call \in Sendable /\ w.call.tool \in Tools /\ w.op \in OpsOf(w.call.tool)
      BY <2>2 DEF WriteRecords, Sendable, CallRecords
    <2>6. Aimed(w.call, w.index)
      BY <2>2 DEF AllAimed
    <2>7. w.call.tool \in TrackTools
      <3>1. w.call.tool # "create_track"
        BY <2>4, <2>6 DEF Aimed, Types
      <3>2. w.call.tool \notin {"set_tempo", "control_transport"}
        BY <2>3, <2>5 DEF OpsOf
      <3> QED BY <2>5, <3>1, <3>2 DEF Tools, TrackTools
    <2>8. tracks[i].name = w.call.track
      <3>1. i \in DOMAIN before[1] /\ before[1][i].name = w.call.track
        BY <2>4, <2>6, <2>7 DEF Aimed, Sought
      <3> QED BY <2>2, <3>1 DEF NamesKept
    <2> QED BY <2>5, <2>7, <2>8, GateLets
  <1>3. IInv /\ [Next]_vars =>
           [/\ (pc = "find" /\ pc' = "send") => MayWriteTo(call, tracks[index])
            /\ \A i \in DOMAIN tracks \cap DOMAIN tracks' :
                  (tracks'[i] # tracks[i] /\ i <= Len(before[1]) /\ edits' = edits /\ ~disturbed) =>
                     MayWriteTo(Head(pending).call, tracks[i])]_vars
    BY <1>1, <1>2
  <1> QED BY Inductive, <1>3, PTL DEF Spec, UnapprovedWritesStayOnGenTracks

\* What a successful tool reports is what Live holds, and nothing else has changed,
\* for a call that found Live at rest and was left alone; notes if the slot had none.
THEOREM SuccessReal == Spec => SuccessIsReal
  <1>1. IInv /\ [Next]_vars =>
           [(Succeeds /\ ~disturbed) =>
               \/ Done(before[1])
               \/ /\ call.tool = "write_generated_midi"
                  /\ \E i \in Sought(before[1], call.track) : before[1][i].clip \notin {NoClip, <<>>}]_vars
    <2> SUFFICES ASSUME IInv, [Next]_vars, Succeeds, ~disturbed, ~UNCHANGED vars
                 PROVE  \/ Done(before[1])
                        \/ /\ call.tool = "write_generated_midi"
                           /\ \E i \in Sought(before[1], call.track) : before[1][i].clip \notin {NoClip, <<>>}
      OBVIOUS
    <2> USE DEF IInv
    <2>1. Poll /\ Confirms(index) /\ ThereIs(index)
      BY DEF Succeeds, Next, Call, ToolStep, CountTracks, FindCount, FindName, Send, SendMalformed, Poll, Ends,
             Apply, Lose, Edit, QueryUnanswered, QueryLost, TimesOut, vars, live, history
    <2>2. /\ call \in Sendable /\ call.tool \in Tools /\ call.track \in Names /\ Aimed(call, index)
          /\ Creating /\ Noting /\ Setting /\ Playing
      BY DEF Types, Sendable, CallRecords, FoundAtRest, OnTheWay, Succeeds
    <2>3. CASE call.tool = "create_track"
      <3>1. tracks[index].name = call.track /\ index \in DOMAIN tracks /\ index = Len(before[1]) + 1
        BY <2>1, <2>2, <2>3 DEF Confirms, NameReads, ThereIs, Aimed
      <3>2. tracks # before[1]
        BY <3>1 DEF Types
      <3>3. tracks # Append(before[1], Track(DefaultName))
        <4> DEFINE t == Track(DefaultName)
        <4>1. t \in Tracks /\ t.name = DefaultName /\ before[1] \in Seq(Tracks)
          BY NewTrack DEF Types
        <4> HIDE DEF t
        <4>2. Append(before[1], t)[index] = t
          BY <3>1, <4>1
        <4> QED BY <2>2, <3>1, <4>1, <4>2, NamesType DEF t
      <3> QED BY <2>2, <2>3, <3>2, <3>3 DEF Creating, Done, Parameters
    <2>4. CASE call.tool = "write_generated_midi"
      <3> SUFFICES ASSUME Found.clip \in {NoClip, <<>>} PROVE Done(before[1])
        BY <2>2, <2>4 DEF Aimed, TrackTools, Found
      <3>1. index \in Sought(before[1], call.track) /\ index \in DOMAIN before[1] /\ Found \in Tracks
        BY <2>2, <2>4 DEF Aimed, TrackTools, Sought, Found, Types
      <3>2. /\ tracks[index].clip # NoClip /\ Len(tracks[index].clip) = Len(call.arg)
            /\ call.arg \in Seq(Notes)
        BY <2>1, <2>2, <2>4, TunesType DEF Confirms, NotesRead, ThereIs, Types, Poll
      <3>3. PICK t \in {Found, [Found EXCEPT !.clip = <<>>], [Found EXCEPT !.clip = call.arg]} : Have(t)
        BY <2>2, <2>4 DEF Noting
      <3>4. tracks[index] = t
        BY <3>1, <3>3 DEF Have, Types
      <3>5. t = [Found EXCEPT !.clip = call.arg]
        <4>1. CASE t.clip = <<>>
          <5>1. call.arg = <<>>
            BY <3>2, <3>4, <4>1
          <5> QED BY <3>1, <3>3, <4>1, <5>1 DEF Tracks
        <4>2. CASE t.clip # <<>>
          <5>1. t # Found /\ t # [Found EXCEPT !.clip = <<>>]
            BY <3>1, <3>2, <3>4, <4>2 DEF Tracks
          <5> QED BY <3>3, <5>1
        <4> QED BY <4>1, <4>2
      <3>6. tracks = [before[1] EXCEPT ![index].clip = call.arg]
        BY <3>3, <3>5 DEF Have, Found
      <3> QED BY <2>4, <3>1, <3>6 DEF Done, Parameters
    <2>5. CASE call.tool \in Parameters
      <3>1. index \in Sought(before[1], call.track) /\ index \in DOMAIN before[1] /\ Found \in Tracks
        BY <2>2, <2>5 DEF Aimed, TrackTools, Parameters, Sought, Found, Types
      <3>2. tracks[index].value[call.tool] = call.arg
        BY <2>1, <2>5 DEF Confirms, MixerReads, DeviceReads, Parameters
      <3>3. PICK t \in {Found, [Found EXCEPT !.value[call.tool] = call.arg]} : Have(t)
        BY <2>2, <2>5 DEF Setting
      <3>4. tracks[index] = t
        BY <3>1, <3>3 DEF Have, Types
      <3>5. t = [Found EXCEPT !.value[call.tool] = call.arg]
        BY <2>5, <3>1, <3>2, <3>3, <3>4 DEF Tracks
      <3>6. tracks = [before[1] EXCEPT ![index].value[call.tool] = call.arg]
        BY <3>3, <3>5 DEF Have, Found
      <3> QED BY <2>5, <3>1, <3>6 DEF Done, Parameters
    <2>6. CASE call.tool = "control_transport"
      <3>1. song.playing = call.arg /\ before[2] \in Songs
        BY <2>1, <2>6 DEF Confirms, TransportReads, Types
      <3>2. song = [before[2] EXCEPT !.playing = call.arg]
        BY <2>2, <2>6, <3>1 DEF Playing, Songs
      <3> QED BY <2>6, <3>2 DEF Done, Parameters
    <2>7. CASE call.tool = "set_tempo"
      <3>1. song.tempo = call.arg /\ before[2] \in Songs
        BY <2>1, <2>7 DEF Confirms, TempoReads, Types
      <3>2. song = [before[2] EXCEPT !.tempo = call.arg]
        BY <2>2, <2>7, <3>1 DEF Playing, Songs
      <3> QED BY <2>7, <3>2 DEF Done, Parameters
    <2> QED BY <2>2, <2>3, <2>4, <2>5, <2>6, <2>7 DEF Tools, Parameters
  <1> QED BY Inductive, <1>1, PTL DEF Spec, SuccessIsReal
===============================================================================
