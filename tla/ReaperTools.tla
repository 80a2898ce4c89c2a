----------------------------- MODULE ReaperTools -----------------------------
(***************************************************************************)
(* mcp-reaper's write tools.  Each asks enforcement.enforce() and then     *)
(* makes one reapy call after the other.  Every reapy call is a request of *)
(* its own to a running Reaper, whose user goes on working: between any    *)
(* two of them the track list may change, and any of them may raise,       *)
(* before Reaper has done its part or after.  Calls overlap when several   *)
(* agents have a server each.                                              *)
(*                                                                         *)
(* reapy objects stand for Reaper's own, so tracks and items are           *)
(* identities here: a track or item that call c makes is called c.         *)
(***************************************************************************)
EXTENDS Naturals, Sequences, SequencesExt

CONSTANTS
    Calls,        \* tool calls, each made at most once
    UserTracks,   \* the tracks the user has or may insert
    User,         \* the owner of the item that is there at first
    Names,        \* track names
    GenNames,     \* those of them that start with GEN-
    Tunes,        \* the lists of notes handed to write_generated_midi
    NoEnd,        \* a note without its "end"
    NoPitch,      \* a note without its "start" or "pitch"
    Files,        \* file names
    OpenFile,     \* the file of the open project
    VerdictOf,    \* policy_engine.evaluate, by tool, track and user_requested_this_turn
    InitialOrder, \* the track list at first
    InitialName,  \* and the names
    None,         \* no name, track, item or call
    MaxEdits      \* bound: edits by the user

Tools  == {"create_track", "write_generated_midi", "save_project_as"}
Ids    == UserTracks \cup Calls
Owners == Calls \cup {User}

Notes  == UNION {Range(tune) : tune \in Tunes}
Items  == [track : Ids, notes : Seq(Notes), sorted : BOOLEAN]

ASSUME CallsType == User \notin Calls /\ UserTracks \cap Calls = {} /\ None \notin Ids \cup Owners \cup Items
ASSUME ArgumentsType ==
    /\ GenNames \subseteq Names /\ OpenFile \in Files
    /\ Tunes \subseteq Seq(Notes)
ASSUME InitialType ==
    /\ InitialOrder \in Seq(UserTracks) /\ InitialOrder # <<>> /\ IsInjective(InitialOrder)
    /\ InitialName \in [UserTracks -> Names]

\* What the tools rely on, of all that the Policy Engine says.
ASSUME GatePolicy ==
    /\ \A n \in Names \ GenNames, requested \in BOOLEAN :
          /\ VerdictOf["create_track"][n][requested] # "ALLOW"
          /\ VerdictOf["write_generated_midi"][n][requested] \notin {"ALLOW", "ASK"}
    /\ \A n \in Names : VerdictOf["save_project_as"][n][FALSE] # "ALLOW"

VARIABLES
    order,      \* the project's tracks, from first to last
    name,       \* their names
    item,       \* the item of each owner: [track, notes, sorted]
    savedBy,    \* who wrote each file: a call, User before, None if there is none
    pc,         \* where each call stands
    call,       \* its tool and arguments
    local,      \* its local variables: [count, list, track, done]
    edits,      \* number of the user's edits
    history     \* what the user did meanwhile: [inserted, renamed, removed]

project == <<order, name, item>>
vars == <<project, savedBy, pc, call, local, edits, history>>

Ended == {"ok", "blocked", "ValueError", "KeyError", "raised"}
ReapyPCs == {"project", "count", "add", "report", "list", "look", "item", "note", "sort", "save"}

Init ==
    /\ order = InitialOrder
    /\ name = [t \in Ids |-> IF t \in UserTracks THEN InitialName[t] ELSE None]
    /\ item = [o \in Owners |->
                  IF o = User THEN [track |-> Last(InitialOrder), notes |-> <<>>, sorted |-> TRUE] ELSE None]
    /\ savedBy = [f \in Files |-> IF f = OpenFile THEN User ELSE None]
    /\ pc = [c \in Calls |-> "new"]
    /\ call = [c \in Calls |-> None]
    /\ local = [c \in Calls |-> [count |-> 0, list |-> <<>>, track |-> None, done |-> 0]]
    /\ edits = 0
    /\ history = [inserted |-> FALSE, renamed |-> {}, removed |-> {}]

-----------------------------------------------------------------------------
(* enforce() *)

\* Mutated: the request is taken for granted.
VerdictIfRequested(tool, args) == VerdictOf[tool][args.track][TRUE]

Verdict(tool, args) == VerdictOf[tool][args.track][args.requested]

Permitted(tool, args) == \/ Verdict(tool, args) = "ALLOW"
                         \/ Verdict(tool, args) = "ASK" /\ args.approved

Call(c, tool, args) ==
    /\ pc[c] = "new"
    /\ call' = [call EXCEPT ![c] = [tool |-> tool, args |-> args]]
    /\ pc' = [pc EXCEPT ![c] = IF Permitted(tool, args) THEN "project" ELSE "blocked"]
    /\ UNCHANGED <<project, savedBy, local, edits, history>>

At(c, p)   == pc[c] = p
Ends(c, p) == pc' = [pc EXCEPT ![c] = p]

\* A reapy call that has done its part returns, or raises nevertheless.
Returns(c, p) == Ends(c, p) \/ Ends(c, "raised")

\* The others raise without having done anything.
Fails(c) ==
    /\ pc[c] \in ReapyPCs /\ Ends(c, "raised")
    /\ UNCHANGED <<project, savedBy, call, local, edits, history>>

FirstStep == [create_track |-> "count", write_generated_midi |-> "list", save_project_as |-> "save"]

\* _project()
OpenProject(c) ==
    /\ At(c, "project")
    /\ Ends(c, FirstStep[call[c].tool])
    /\ UNCHANGED <<project, savedBy, call, local, edits, history>>

-----------------------------------------------------------------------------
(* create_track *)

CountTracks(c) ==
    /\ At(c, "count") /\ Ends(c, "add")
    /\ local' = [local EXCEPT ![c].count = Len(order)]
    /\ UNCHANGED <<project, savedBy, call, edits, history>>

\* Mutated: the index is left to reapy's default, 0.
AddTrackInFront(c) ==
    /\ At(c, "add") /\ Returns(c, "report")
    /\ order' = <<c>> \o order
    /\ name' = [name EXCEPT ![c] = call[c].args.track]
    /\ UNCHANGED <<item, savedBy, call, local, edits, history>>

\* Reaper takes an index beyond the end for the end.
AddTrack(c) ==
    /\ At(c, "add") /\ Returns(c, "report")
    /\ LET n == IF local[c].count < Len(order) THEN local[c].count ELSE Len(order)
       IN  order' = InsertAt(order, n + 1, c)
    /\ name' = [name EXCEPT ![c] = call[c].args.track]
    /\ UNCHANGED <<item, savedBy, call, local, edits, history>>

\* track.index and track.name, for the result.
Report(c) ==
    /\ At(c, "report") /\ Ends(c, "ok")
    /\ UNCHANGED <<project, savedBy, call, local, edits, history>>

-----------------------------------------------------------------------------
(* write_generated_midi *)

ListTracks(c) ==
    /\ At(c, "list") /\ Ends(c, "look")
    /\ local' = [local EXCEPT ![c].list = order]
    /\ UNCHANGED <<project, savedBy, call, edits, history>>

\* Mutated: track is None goes unnoticed.
LookUnchecked(c) ==
    /\ At(c, "look")
    /\ LET list == local[c].list IN
       IF list # <<>> /\ name[Head(list)] # call[c].args.track
       THEN local' = [local EXCEPT ![c].list = Tail(list)] /\ UNCHANGED pc
       ELSE /\ local' = [local EXCEPT ![c].track = IF list = <<>> THEN None ELSE Head(list)]
            /\ Ends(c, "item")
    /\ UNCHANGED <<project, savedBy, call, edits, history>>

\* Mutated: the last track is taken when none has the name.
LookOrLast(c) ==
    /\ At(c, "look")
    /\ LET list == local[c].list IN
       IF Len(list) > 1 /\ name[Head(list)] # call[c].args.track
       THEN local' = [local EXCEPT ![c].list = Tail(list)] /\ UNCHANGED pc
       ELSE list # <<>> /\ local' = [local EXCEPT ![c].track = Head(list)] /\ Ends(c, "item")
    /\ UNCHANGED <<project, savedBy, call, edits, history>>

\* The name of the next track, if it is still there; the first one that fits is taken.
Look(c) ==
    /\ At(c, "look")
    /\ LET list == local[c].list
           Fits(t) == t \in Range(order) /\ name[t] = call[c].args.track IN
       \/ list = <<>> /\ Ends(c, "ValueError") /\ UNCHANGED local
       \/ /\ list # <<>> /\ ~Fits(Head(list))
          /\ local' = [local EXCEPT ![c].list = Tail(list)] /\ UNCHANGED pc
       \/ /\ list # <<>> /\ Fits(Head(list))
          /\ local' = [local EXCEPT ![c].track = Head(list)] /\ Ends(c, "item")
    /\ UNCHANGED <<project, savedBy, call, edits, history>>

\* max(note["end"] ...) comes first; then the item, which a deleted track cannot get.
AddItem(c) ==
    /\ At(c, "item")
    /\ \/ /\ NoEnd \in Range(call[c].args.notes) /\ Ends(c, "KeyError") /\ UNCHANGED item
       \/ /\ NoEnd \notin Range(call[c].args.notes) /\ local[c].track \in Range(order)
          /\ Returns(c, "note")
          /\ item' = [item EXCEPT ![c] = [track |-> local[c].track, notes |-> <<>>, sorted |-> TRUE]]
    /\ UNCHANGED <<order, name, savedBy, call, local, edits, history>>

WithNote(i, note) == IF i = None THEN i ELSE [i EXCEPT !.notes = Append(@, note), !.sorted = FALSE]

NextNote(c) == call[c].args.notes[local[c].done + 1]

MoreNotes(c) == local[c].done < Len(call[c].args.notes)

\* Mutated: the notes go to whichever item the track shows first.
AddNoteToTrack(c) ==
    /\ At(c, "note") /\ MoreNotes(c) /\ NextNote(c) # NoPitch
    /\ \E o \in Owners : /\ item[o] # None /\ item[o].track = local[c].track
                         /\ item' = [item EXCEPT ![o] = WithNote(@, NextNote(c))]
    /\ local' = [local EXCEPT ![c].done = @ + 1]
    /\ Returns(c, "note")
    /\ UNCHANGED <<order, name, savedBy, call, edits, history>>

\* Mutated: a note that cannot be read is skipped.
AddNoteOrSkip(c) ==
    /\ At(c, "note") /\ MoreNotes(c)
    /\ item' = [item EXCEPT ![c] = IF NextNote(c) = NoPitch THEN @ ELSE WithNote(@, NextNote(c))]
    /\ local' = [local EXCEPT ![c].done = @ + 1]
    /\ Returns(c, "note")
    /\ UNCHANGED <<order, name, savedBy, call, edits, history>>

\* A note that lacks a key raises here, when the item is already there.
AddNote(c) ==
    /\ At(c, "note") /\ MoreNotes(c)
    /\ \/ NextNote(c) = NoPitch /\ Ends(c, "KeyError") /\ UNCHANGED <<item, local>>
       \/ /\ NextNote(c) # NoPitch /\ Returns(c, "note")
          /\ item' = [item EXCEPT ![c] = WithNote(@, NextNote(c))]
          /\ local' = [local EXCEPT ![c].done = @ + 1]
    /\ UNCHANGED <<order, name, savedBy, call, edits, history>>

\* Mutated: nothing is sorted after the loop.
NotesDoneUnsorted(c) ==
    /\ At(c, "note") /\ ~MoreNotes(c) /\ Ends(c, "ok")
    /\ UNCHANGED <<project, savedBy, call, local, edits, history>>

\* sort_events() after the loop, which added every note with sort=False.
NotesDone(c) ==
    /\ At(c, "note") /\ ~MoreNotes(c) /\ Returns(c, "ok")
    /\ item' = [item EXCEPT ![c] = IF @ = None THEN @ ELSE [@ EXCEPT !.sorted = TRUE]]
    /\ UNCHANGED <<order, name, savedBy, call, local, edits, history>>

-----------------------------------------------------------------------------
(* save_project_as: options 0 leave the project's own file name as it is. *)

Save(c) ==
    /\ At(c, "save") /\ Returns(c, "ok")
    /\ savedBy' = [savedBy EXCEPT ![call[c].args.file] = c]
    /\ UNCHANGED <<project, call, local, edits, history>>

-----------------------------------------------------------------------------
(* The user of Reaper *)

Adding == {c \in Calls : pc[c] = "add"}

Insert(t, i) ==
    /\ t \notin Range(order)
    /\ order' = InsertAt(order, i, t)
    /\ history' = [history EXCEPT !.inserted = @ \/ Adding # {}]
    /\ UNCHANGED <<name, item>>

Rename(i, new) ==
    /\ name' = [name EXCEPT ![order[i]] = new]
    /\ history' = [history EXCEPT !.renamed = @ \cup {order[i]}]
    /\ UNCHANGED <<order, item>>

OnTrack(t) == {o \in Owners : item[o] # None /\ item[o].track = t}

\* A track goes with the items on it.
Delete(i) ==
    /\ order' = RemoveAt(order, i)
    /\ item' = [o \in Owners |-> IF o \in OnTrack(order[i]) THEN None ELSE item[o]]
    /\ history' = [history EXCEPT !.removed = @ \cup {order[i]} \cup OnTrack(order[i])]
    /\ UNCHANGED name

Edit ==
    /\ edits < MaxEdits /\ edits' = edits + 1
    /\ \/ \E t \in UserTracks, i \in 1..(Len(order) + 1) : Insert(t, i)
       \/ \E i \in DOMAIN order : Delete(i) \/ \E new \in Names : Rename(i, new)
    /\ UNCHANGED <<savedBy, pc, call, local>>

Arguments ==
    [create_track |->
        [track : Names, notes : {<<>>}, file : {OpenFile}, requested : {FALSE}, approved : BOOLEAN],
     write_generated_midi |->
        [track : Names, notes : Tunes, file : {OpenFile}, requested : {FALSE}, approved : BOOLEAN],
     save_project_as |->
        [track : {CHOOSE n \in Names : TRUE}, notes : {<<>>}, file : Files,
         requested : BOOLEAN, approved : BOOLEAN]]

ToolStep(c) == \/ OpenProject(c) \/ CountTracks(c) \/ AddTrack(c) \/ Report(c)
               \/ ListTracks(c) \/ Look(c) \/ AddItem(c) \/ AddNote(c) \/ NotesDone(c)
               \/ Save(c) \/ Fails(c)

Next ==
    \/ \E c \in Calls : \/ \E tool \in Tools : \E args \in Arguments[tool] : Call(c, tool, args)
                        \/ ToolStep(c)
    \/ Edit

Spec == Init /\ [][Next]_vars

-----------------------------------------------------------------------------
(* Properties *)

TypeOK ==
    /\ order \in Seq(Ids) /\ IsInjective(order)
    /\ name \in [Ids -> Names \cup {None}] /\ \A t \in UserTracks \cup Range(order) : name[t] \in Names
    /\ item \in [Owners -> Items \cup {None}]
    /\ \A o \in Owners : item[o] # None => item[o].track \in Range(order)
    /\ savedBy \in [Files -> Owners \cup {None}]
    /\ pc \in [Calls -> {"new"} \cup ReapyPCs \cup Ended]
    /\ local \in [Calls -> [count : Nat, list : Seq(Ids), track : Ids \cup {None}, done : Nat]]
    /\ \A c \in Calls : pc[c] \in {"item", "note"} => local[c].track \in Ids
    /\ history \in [inserted : BOOLEAN, renamed : SUBSET Ids, removed : SUBSET (Ids \cup Owners)]

Tool(c) == IF pc[c] = "new" THEN "none" ELSE call[c].tool

\* create_track's docstring, "at the end of the track list": the count is old
\* when it is used, yet unless the user inserts a track while some call stands
\* between count and insertion, no new track is put before one of the user's.
UsersTracksStayInFront ==
    [][\A c \in Calls \cap Range(order') :
          c \notin Range(order) /\ ~history.inserted =>
             \A i, j \in DOMAIN order' : order'[i] = c /\ order'[j] \in UserTracks => j < i]_vars

\* Whatever is raised, overtaken or renamed, the tools leave all that is not of
\* their own making as it is: a call adds its own track to the list or nothing,
\* all others keep their order and names, and items that another call or the
\* user made keep their notes.
OthersMaterialUntouched ==
    [][\A c \in Calls : ToolStep(c) =>
          /\ order' = order \/ \E i \in DOMAIN order' : order'[i] = c /\ RemoveAt(order', i) = order
          /\ \A t \in Ids \ {c} : name'[t] = name[t]
          /\ \A o \in Owners \ {c} : item'[o] = item[o]]_vars

\* policy/allow.txt: generated MIDI is written to GEN- tracks alone, approved or
\* not - also when tracks are moved, deleted or inserted after the lookup; only
\* a renamed track may have lost the name that was judged.
GeneratedMidiOnGenTracks ==
    \A c \in Calls : item[c] # None /\ item[c].track \notin history.renamed =>
        name[item[c].track] \in GenNames

\* What is not a GEN- track is only created, and a file only written, by a call
\* that the user asked for or approved, and that file is the one it named.
ChangesAreWanted ==
    /\ \A c \in Calls \cap Range(order) :
          call[c].args.approved \/ call[c].args.track \in GenNames
    /\ \A f \in Files : savedBy[f] \in Calls =>
          LET args == call[savedBy[f]].args
          IN  args.file = f /\ (args.requested \/ args.approved)

\* A tool that raises half-way leaves what it made.  Such an item holds the notes
\* asked for up to the one that failed, none left out and none twice, whichever
\* reapy call failed and however many of other calls came in between.
ItemsHoldPrefixes ==
    \A c \in Calls : item[c] # None => IsPrefix(item[c].notes, call[c].args.notes)

\* The results the tools report ("notes_written": len(notes), the new track, the
\* file): a call that returns has done all of it, unless the user has removed it.
SuccessIsReal ==
    \A c \in Calls : pc[c] = "ok" =>
        CASE Tool(c) = "create_track" -> c \in Range(order) \cup history.removed
          [] Tool(c) = "write_generated_midi" ->
                \/ c \in history.removed
                \/ item[c] # None /\ item[c].notes = call[c].args.notes /\ item[c].sorted
          [] Tool(c) = "save_project_as" -> savedBy[call[c].args.file] \in Calls

\* save_project_as's docstring: it "never overwrites the currently open project".
OpenProjectNeverOverwritten == savedBy[OpenFile] = User
=============================================================================
