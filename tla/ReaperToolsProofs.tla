--------------------------- MODULE ReaperToolsProofs ---------------------------
(***************************************************************************)
(* For any calls, tracks, tunes and edits, and any engine of which         *)
(* GatePolicy holds: the reapy tools put generated MIDI on GEN- tracks     *)
(* alone, create and save only what is wanted, leave items that hold the   *)
(* notes asked for up to some point, report only what they did, and put    *)
(* new tracks behind the user's.                                           *)
(*                                                                         *)
(* The properties speak of the project; what makes them hold is what the   *)
(* calls know of it.  So the invariant IInv relates the two:               *)
(*   Types        types, the tool each call runs and that it was let       *)
(*                through, and that a track is made once;                  *)
(*   FoundTracks  the track a call has found bears the name that was       *)
(*                judged, unless the user has renamed it;                  *)
(*   ItemsAreOwn  a call's item is on that track and holds the notes done; *)
(*   NotesCounted the notes done are counted, and never more than asked;   *)
(*   CountsCover  no track of the user's is behind a count not yet used;   *)
(*   MadeIsThere, FilesAreNamed  what a call has made is there, and is     *)
(*                what it was called for.                                  *)
(***************************************************************************)
EXTENDS ReaperTools, SequenceTheorems, TLAPS

-----------------------------------------------------------------------------
(* Inserting into a sequence and removing from it *)

\* What InsertAt returns: the elements from the i-th on move up by one.
LEMMA Inserted ==
    ASSUME NEW S, NEW s \in Seq(S), NEW i \in 1..(Len(s) + 1), NEW e \in S
    PROVE  /\ InsertAt(s, i, e) \in Seq(S) /\ Len(InsertAt(s, i, e)) = Len(s) + 1
           /\ \A j \in 1..(Len(s) + 1) :
                 InsertAt(s, i, e)[j] = IF j < i THEN s[j] ELSE IF j = i THEN e ELSE s[j - 1]
  <1> DEFINE front == SubSeq(s, 1, i - 1)
             back  == SubSeq(s, i, Len(s))
             upTo  == front \o <<e>>
  <1>1. front \in Seq(S) /\ Len(front) = i - 1 /\ \A j \in 1..(i - 1) : front[j] = s[j]
    OBVIOUS
  <1>2. back \in Seq(S) /\ Len(back) = Len(s) - i + 1
        /\ \A j \in 1..(Len(s) - i + 1) : back[j] = s[i + j - 1]
    OBVIOUS
  <1>3. InsertAt(s, i, e) = upTo \o back
    BY DEF InsertAt
  <1> HIDE DEF front, back
  <1>4. upTo \in Seq(S) /\ Len(upTo) = i /\ \A j \in 1..i : upTo[j] = IF j < i THEN s[j] ELSE e
    BY <1>1
  <1> HIDE DEF upTo
  <1>5. /\ upTo \o back \in Seq(S) /\ Len(upTo \o back) = Len(upTo) + Len(back)
        /\ \A j \in 1..(Len(upTo) + Len(back)) :
              (upTo \o back)[j] = IF j <= Len(upTo) THEN upTo[j] ELSE back[j - Len(upTo)]
    BY <1>2, <1>4, ConcatProperties
  <1>6. Len(s) \in Nat /\ i \in 1..(Len(s) + 1) /\ Len(upTo) + Len(back) = Len(s) + 1
    BY <1>2, <1>4
  <1>7. ASSUME NEW j \in 1..(Len(s) + 1)
        PROVE  (upTo \o back)[j] = IF j < i THEN s[j] ELSE IF j = i THEN e ELSE s[j - 1]
    <2>1. CASE j <= i
      BY <2>1, <1>4, <1>5, <1>6
    <2>2. CASE ~(j <= i)
      <3>1. j - i \in 1..(Len(s) - i + 1) /\ i + (j - i) - 1 = j - 1
        BY <2>2, <1>6
      <3>2. back[j - i] = s[j - 1]
        BY <3>1, <1>2
      <3>3. (upTo \o back)[j] = back[j - i]
        BY <2>2, <1>4, <1>5, <1>6
      <3> QED BY <2>2, <3>2, <3>3, <1>6
    <2> QED BY <2>1, <2>2
  <1> QED BY <1>3, <1>5, <1>6, <1>7

\* What RemoveAt returns: the elements behind the i-th move down by one.
LEMMA Removed ==
    ASSUME NEW S, NEW s \in Seq(S), NEW i \in DOMAIN s
    PROVE  /\ RemoveAt(s, i) \in Seq(S) /\ Len(RemoveAt(s, i)) = Len(s) - 1
           /\ \A j \in 1..(Len(s) - 1) : RemoveAt(s, i)[j] = IF j < i THEN s[j] ELSE s[j + 1]
  <1> DEFINE front == SubSeq(s, 1, i - 1)
             back  == SubSeq(s, i + 1, Len(s))
  <1>1. front \in Seq(S) /\ Len(front) = i - 1 /\ \A j \in 1..(i - 1) : front[j] = s[j]
    OBVIOUS
  <1>2. back \in Seq(S) /\ Len(back) = Len(s) - i
        /\ \A j \in 1..(Len(s) - i) : back[j] = s[i + j]
    OBVIOUS
  <1> HIDE DEF front, back
  <1>3. RemoveAt(s, i) = front \o back
    BY DEF RemoveAt, front, back
  <1> QED BY <1>1, <1>2, <1>3

\* What was inserted can be taken away again, and nothing else has changed.
LEMMA InsertedRemoved ==
    ASSUME NEW S, NEW s \in Seq(S), NEW i \in 1..(Len(s) + 1), NEW e \in S
    PROVE  RemoveAt(InsertAt(s, i, e), i) = s
  <1> DEFINE r == InsertAt(s, i, e)
             b == RemoveAt(r, i)
  <1>1. /\ r \in Seq(S) /\ Len(r) = Len(s) + 1 /\ Len(s) \in Nat
        /\ \A j \in 1..(Len(s) + 1) : r[j] = IF j < i THEN s[j] ELSE IF j = i THEN e ELSE s[j - 1]
    BY Inserted
  <1> HIDE DEF r
  <1>2. /\ b \in Seq(S) /\ Len(b) = Len(r) - 1
        /\ \A j \in 1..(Len(r) - 1) : b[j] = IF j < i THEN r[j] ELSE r[j + 1]
    <2>1. i \in DOMAIN r
      BY <1>1
    <2> QED BY <1>1, <2>1, Removed
  <1> HIDE DEF b
  <1>3. ASSUME NEW j \in 1..Len(s) PROVE b[j] = s[j]
    <2>1. CASE j < i
      BY <1>1, <1>2, <2>1
    <2>2. CASE ~(j < i)
      <3>1. j + 1 \in 1..(Len(s) + 1) /\ ~(j + 1 < i) /\ j + 1 # i /\ (j + 1) - 1 = j
        BY <1>1, <2>2
      <3>2. r[j + 1] = s[(j + 1) - 1]
        BY <1>1, <3>1
      <3>3. b[j] = r[j + 1]
        BY <1>1, <1>2, <2>2
      <3> QED BY <3>1, <3>2, <3>3
    <2> QED BY <2>1, <2>2
  <1>4. b = s
    BY <1>1, <1>2, <1>3, SeqEqual
  <1> QED BY <1>4 DEF b, r

\* Inserting something new into a list without repetitions adds just that.
LEMMA RangeInserted ==
    ASSUME NEW S, NEW s \in Seq(S), IsInjective(s), NEW i \in 1..(Len(s) + 1),
           NEW e \in S, e \notin Range(s)
    PROVE  Range(InsertAt(s, i, e)) = Range(s) \cup {e} /\ IsInjective(InsertAt(s, i, e))
  <1> DEFINE r == InsertAt(s, i, e)
  <1>1. /\ r \in Seq(S) /\ Len(r) = Len(s) + 1
        /\ \A j \in 1..(Len(s) + 1) : r[j] = IF j < i THEN s[j] ELSE IF j = i THEN e ELSE s[j - 1]
    BY Inserted
  <1> HIDE DEF r
  <1>2. \A j \in 1..(Len(s) + 1) : r[j] \in Range(s) \cup {e}
    BY <1>1 DEF Range
  <1>3. \A k \in 1..Len(s) : s[k] \in Range(r)
    <2> TAKE k \in 1..Len(s)
    <2>1. CASE k < i
      BY <2>1, <1>1 DEF Range
    <2>2. CASE ~(k < i)
      <3>1. k + 1 \in DOMAIN r /\ r[k + 1] = s[k]
        BY <2>2, <1>1
      <3> QED BY <3>1 DEF Range
    <2> QED BY <2>1, <2>2
  <1>4. e \in Range(r)
    BY <1>1 DEF Range
  <1>5. Range(r) = Range(s) \cup {e}
    BY <1>1, <1>2, <1>3, <1>4 DEF Range
  <1>6. IsInjective(r)
    <2> SUFFICES ASSUME NEW a \in 1..(Len(s) + 1), NEW b \in 1..(Len(s) + 1), r[a] = r[b], a < b PROVE FALSE
      BY <1>1 DEF IsInjective
    <2>1. \A k \in 1..Len(s) : s[k] # e
      BY DEF Range
    <2>2. \A k, m \in 1..Len(s) : s[k] = s[m] => k = m
      BY DEF IsInjective
    <2>3. CASE b < i
      <3>1. r[a] = s[a] /\ r[b] = s[b] /\ a \in 1..Len(s) /\ b \in 1..Len(s) /\ a # b
        BY <1>1, <2>3
      <3> QED BY <2>2, <3>1
    <2>4. CASE a = i
      <3>1. r[a] = e /\ r[b] = s[b - 1] /\ b - 1 \in 1..Len(s)
        BY <1>1, <2>4
      <3> QED BY <2>1, <3>1
    <2>5. CASE a > i
      <3>1. /\ r[a] = s[a - 1] /\ r[b] = s[b - 1]
            /\ a - 1 \in 1..Len(s) /\ b - 1 \in 1..Len(s) /\ a - 1 # b - 1
        BY <1>1, <2>5
      <3> QED BY <2>2, <3>1
    <2>6. CASE a < i /\ b = i
      BY <1>1, <2>1, <2>2, <2>6
    <2>7. CASE a < i /\ b > i
      <3>1. r[a] = s[a] /\ r[b] = s[b - 1] /\ b - 1 \in 1..Len(s) /\ a \in 1..Len(s) /\ a # b - 1
        BY <1>1, <2>7
      <3> QED BY <2>2, <3>1
    <2> QED BY <2>3, <2>4, <2>5, <2>6, <2>7
  <1> QED BY <1>5, <1>6 DEF r

\* Removing an element of a list without repetitions takes just that away.
LEMMA RangeRemoved ==
    ASSUME NEW S, NEW s \in Seq(S), IsInjective(s), NEW i \in DOMAIN s
    PROVE  Range(RemoveAt(s, i)) = Range(s) \ {s[i]} /\ IsInjective(RemoveAt(s, i))
  <1> DEFINE r == RemoveAt(s, i)
  <1>1. /\ r \in Seq(S) /\ Len(r) = Len(s) - 1
        /\ \A j \in 1..(Len(s) - 1) : r[j] = IF j < i THEN s[j] ELSE s[j + 1]
    BY Removed
  <1> HIDE DEF r
  <1>0. DOMAIN r = 1..(Len(s) - 1) /\ DOMAIN s = 1..Len(s) /\ Len(s) \in Nat /\ i \in 1..Len(s)
        /\ \A k, m \in 1..Len(s) : s[k] = s[m] => k = m
    BY <1>1 DEF IsInjective
  <1>2. ASSUME NEW j \in 1..(Len(s) - 1) PROVE r[j] \in Range(s) \ {s[i]}
    <2>1. CASE j < i
      BY <1>0, <1>1, <2>1 DEF Range
    <2>2. CASE ~(j < i)
      <3>1. j + 1 \in 1..Len(s) /\ r[j] = s[j + 1] /\ j + 1 # i
        BY <1>0, <1>1, <2>2
      <3> QED BY <1>0, <3>1 DEF Range
    <2> QED BY <2>1, <2>2
  <1>3. \A k \in 1..Len(s) : k # i => s[k] \in Range(r)
    <2> TAKE k \in 1..Len(s)
    <2>1. CASE k < i
      BY <2>1, <1>1 DEF Range
    <2>2. CASE k > i
      <3>1. k - 1 \in DOMAIN r /\ r[k - 1] = s[k]
        BY <2>2, <1>1
      <3> QED BY <3>1 DEF Range
    <2> QED BY <2>1, <2>2
  <1>4. Range(r) = Range(s) \ {s[i]}
    <2>1. Range(r) \subseteq Range(s) \ {s[i]}
      BY <1>0, <1>2 DEF Range
    <2>2. Range(s) \ {s[i]} \subseteq Range(r)
      <3> SUFFICES ASSUME NEW k \in 1..Len(s), s[k] # s[i] PROVE s[k] \in Range(r)
        BY <1>0 DEF Range
      <3> QED BY <1>3
    <2> QED BY <2>1, <2>2
  <1>5. IsInjective(r)
    <2> SUFFICES ASSUME NEW a \in 1..(Len(s) - 1), NEW b \in 1..(Len(s) - 1), r[a] = r[b], a < b PROVE FALSE
      BY <1>0 DEF IsInjective
    <2>1. CASE b < i
      BY <1>0, <1>1, <2>1
    <2>2. CASE a < i /\ b >= i
      BY <1>0, <1>1, <2>2
    <2>3. CASE a >= i
      BY <1>0, <1>1, <2>3
    <2> QED BY <1>0, <2>1, <2>2, <2>3
  <1> QED BY <1>4, <1>5 DEF r

-----------------------------------------------------------------------------
(* Types *)

Args == [track : Names, notes : Tunes \cup {<<>>}, file : Files, requested : BOOLEAN, approved : BOOLEAN]
CallRecords == [tool : Tools, args : Args]

\* What each tool may be doing.
PCsOf(tool) == {"project", "blocked", "raised", "ok"} \cup
    CASE tool = "create_track" -> {"count", "add", "report"}
      [] tool = "write_generated_midi" -> {"list", "look", "item", "note", "ValueError", "KeyError"}
      [] tool = "save_project_as" -> {"save"}

\* The parts of the type invariant.
TracksTyped == /\ order \in Seq(Ids) /\ IsInjective(order)
               /\ name \in [Ids -> Names \cup {None}] /\ \A t \in UserTracks \cup Range(order) : name[t] \in Names
ItemsTyped == /\ item \in [Owners -> Items \cup {None}]
              /\ \A o \in Owners : item[o] # None => item[o].track \in Range(order)
FilesTyped == savedBy \in [Files -> Owners \cup {None}]
PCsTyped == pc \in [Calls -> {"new"} \cup ReapyPCs \cup Ended]
LocalRecords == [count : Nat, list : Seq(Ids), track : Ids \cup {None}, done : Nat]
LocalTyped == /\ local \in [Calls -> LocalRecords]
              /\ \A c \in Calls : pc[c] \in {"item", "note"} => local[c].track \in Ids

HistoryTyped == history \in [inserted : BOOLEAN, renamed : SUBSET Ids, removed : SUBSET (Ids \cup Owners)]

\* The type invariant, part by part.
LEMMA TypeParts == TypeOK <=> TracksTyped /\ ItemsTyped /\ FilesTyped /\ PCsTyped /\ LocalTyped /\ HistoryTyped
  BY DEF TypeOK, TracksTyped, ItemsTyped, FilesTyped, PCsTyped, LocalTyped, LocalRecords, HistoryTyped

\* A call has the tool and arguments it was made with, and goes its tool's way.
Called ==
    /\ call \in [Calls -> CallRecords \cup {None}]
    /\ \A c \in Calls : pc[c] # "new" =>
          /\ call[c] \in CallRecords /\ pc[c] \in PCsOf(call[c].tool)
          /\ pc[c] # "blocked" => Permitted(call[c].tool, call[c].args)

\* None is no track, owner or item.
LEMMA NoneApart == None \notin Ids /\ None \notin Owners /\ None \notin Items /\ User \notin Calls
  BY CallsType

\* The arguments that each tool is called with have the type of arguments.
LEMMA ArgumentsTyped ==
    ASSUME NEW tool \in Tools, NEW args \in Arguments[tool]
    PROVE  args \in Args
  <1>1. OpenFile \in Files /\ (CHOOSE n \in Names : TRUE) \in Names
    <2>1. InitialOrder[1] \in UserTracks
      BY InitialType
    <2>2. InitialName[InitialOrder[1]] \in Names
      BY <2>1, InitialType
    <2> QED BY <2>2, ArgumentsType
  <1>2. CASE tool = "create_track"
    <2>1. args \in [track : Names, notes : {<<>>}, file : {OpenFile}, requested : {FALSE}, approved : BOOLEAN]
      <3>1. Arguments["create_track"] =
               [track : Names, notes : {<<>>}, file : {OpenFile}, requested : {FALSE}, approved : BOOLEAN]
        BY Zenon DEF Arguments
      <3> QED BY <1>2, <3>1
    <2>2. args.requested \in BOOLEAN
      BY <2>1
    <2> QED BY <1>1, <2>1, <2>2 DEF Args
  <1>3. CASE tool = "write_generated_midi"
    <2>1. args \in [track : Names, notes : Tunes, file : {OpenFile}, requested : {FALSE}, approved : BOOLEAN]
      <3>1. Arguments["write_generated_midi"] =
               [track : Names, notes : Tunes, file : {OpenFile}, requested : {FALSE}, approved : BOOLEAN]
        BY Zenon DEF Arguments
      <3> QED BY <1>3, <3>1
    <2>2. args.requested \in BOOLEAN
      BY <2>1
    <2> QED BY <1>1, <2>1, <2>2 DEF Args
  <1>4. CASE tool = "save_project_as"
    BY <1>1, <1>4 DEF Arguments, Args
  <1> QED BY <1>2, <1>3, <1>4 DEF Tools

\* The notes asked for are sequences of notes.
LEMMA NotesTyped == \A args \in Args : args.notes \in Seq(Notes)
  <1>1. <<>> \in Seq(Notes)
    OBVIOUS
  <1> QED BY <1>1, ArgumentsType DEF Args

\* The types hold at first.
LEMMA InitTyped == Init => TypeOK /\ Called
  <1> SUFFICES ASSUME Init PROVE TypeOK /\ Called
    OBVIOUS
  <1>1. order \in Seq(Ids) /\ IsInjective(order) /\ Range(order) \subseteq UserTracks
    BY InitialType DEF Init, Ids, Range
  <1>2. Last(InitialOrder) \in Range(order) /\ Last(InitialOrder) \in Ids
    BY <1>1, InitialType DEF Init, Last, Range, Ids
  <1>3. name \in [Ids -> Names \cup {None}] /\ \A t \in UserTracks \cup Range(order) : name[t] \in Names
    BY <1>1, InitialType DEF Init, Ids
  <1>4. item \in [Owners -> Items \cup {None}] /\ \A o \in Owners : item[o] # None => item[o].track \in Range(order)
    BY <1>2 DEF Init, Items
  <1>5. savedBy \in [Files -> Owners \cup {None}]
    BY DEF Init, Owners
  <1>6. /\ pc \in [Calls -> {"new"} \cup ReapyPCs \cup Ended]
        /\ local \in [Calls -> [count : Nat, list : Seq(Ids), track : Ids \cup {None}, done : Nat]]
        /\ \A c \in Calls : pc[c] \in {"item", "note"} => local[c].track \in Ids
    BY DEF Init
  <1>7. history \in [inserted : BOOLEAN, renamed : SUBSET Ids, removed : SUBSET (Ids \cup Owners)]
    BY DEF Init
  <1>8. Called
    BY DEF Init, Called
  <1> QED BY <1>1, <1>3, <1>4, <1>5, <1>6, <1>7, <1>8 DEF TypeOK

\* Where the calls may be next.
LEMMA CalledNext ==
    ASSUME TypeOK, Called, [Next]_vars
    PROVE  Called' /\ pc' \in [Calls -> {"new"} \cup ReapyPCs \cup Ended]
  <1> USE DEF TypeOK, Called, Ended, ReapyPCs, At, Ends, Returns
  <1>1. ASSUME NEW c \in Calls, NEW tool \in Tools, NEW args \in Arguments[tool], Call(c, tool, args)
        PROVE  Called' /\ pc' \in [Calls -> {"new"} \cup ReapyPCs \cup Ended]
    <2>1. [tool |-> tool, args |-> args] \in CallRecords
      BY ArgumentsTyped DEF CallRecords
    <2> QED BY <1>1, <2>1 DEF Call, PCsOf, Tools
  <1>2. ASSUME NEW c \in Calls, ToolStep(c)
        PROVE  Called' /\ pc' \in [Calls -> {"new"} \cup ReapyPCs \cup Ended]
    <2>1. call' = call /\ pc[c] \in ReapyPCs /\ call[c] \in CallRecords /\ pc[c] \in PCsOf(call[c].tool)
      BY <1>2 DEF ToolStep, Fails, OpenProject, CountTracks, AddTrack, Report, ListTracks, Look, AddItem, AddNote, NotesDone, Save
    <2>2. \E p \in PCsOf(call[c].tool) \ {"blocked"} : pc' = [pc EXCEPT ![c] = p]
      <3> USE DEF PCsOf, CallRecords, Tools
      <3>1. CASE Fails(c)
        BY <3>1, <2>1 DEF Fails
      <3>2. CASE OpenProject(c)
        <4>1. FirstStep[call[c].tool] \in PCsOf(call[c].tool) \ {"blocked"}
          BY <2>1 DEF FirstStep
        <4> QED BY <3>2, <4>1 DEF OpenProject
      <3>3. CASE CountTracks(c) \/ AddTrack(c) \/ Report(c)
        BY <3>3, <2>1 DEF CountTracks, AddTrack, Report
      <3>4. CASE ListTracks(c) \/ Look(c) \/ AddItem(c)
        BY <3>4, <2>1 DEF ListTracks, Look, AddItem
      <3>5. CASE AddNote(c) \/ NotesDone(c)
        BY <3>5, <2>1 DEF AddNote, NotesDone
      <3>6. CASE Save(c)
        BY <3>6, <2>1 DEF Save
      <3> QED BY <1>2, <3>1, <3>2, <3>3, <3>4, <3>5, <3>6 DEF ToolStep
    <2> QED BY <2>1, <2>2 DEF PCsOf, CallRecords, Tools
  <1>3. CASE Edit \/ UNCHANGED vars
    BY <1>3 DEF Edit, vars
  <1> QED BY <1>1, <1>2, <1>3 DEF Next

\* Counting one note more keeps the type of the local variables.
LEMMA OneMoreDone == ASSUME NEW l \in LocalRecords PROVE [l EXCEPT !.done = l.done + 1] \in LocalRecords
  BY DEF LocalRecords

\* The local variables of the calls keep their type.
LEMMA NextLocalTyped ==
    ASSUME TypeOK, Called, [Next]_vars
    PROVE  LocalTyped'
  <1>0. LocalTyped /\ PCsTyped /\ order \in Seq(Ids)
    BY TypeParts DEF TracksTyped
  <1> USE <1>0 DEF LocalTyped, PCsTyped, At, Ends, Returns, Ended, ReapyPCs
  <1>1. ASSUME NEW c \in Calls, NEW tool \in Tools, NEW args \in Arguments[tool], Call(c, tool, args)
        PROVE  LocalTyped'
    BY <1>1 DEF Call
  <1>2. ASSUME NEW c \in Calls,
               OpenProject(c) \/ AddTrack(c) \/ Report(c) \/ AddItem(c) \/ NotesDone(c) \/ Save(c) \/ Fails(c)
        PROVE  LocalTyped'
    <2>1. local' = local
      BY <1>2 DEF OpenProject, AddTrack, Report, AddItem, NotesDone, Save, Fails
    <2>2. \A d \in Calls : pc'[d] \in {"item", "note"} => pc[d] \in {"item", "note"}
      <3>1. CASE OpenProject(c)
        BY <3>1 DEF OpenProject, FirstStep, Called, CallRecords, Tools
      <3>2. CASE AddTrack(c) \/ Report(c) \/ Save(c) \/ Fails(c)
        BY <3>2 DEF AddTrack, Report, Save, Fails
      <3>3. CASE AddItem(c) \/ NotesDone(c)
        BY <3>3 DEF AddItem, NotesDone
      <3> QED BY <1>2, <3>1, <3>2, <3>3
    <2> QED BY <2>1, <2>2
  <1>3. ASSUME NEW c \in Calls, CountTracks(c) PROVE LocalTyped'
    <2>1. [local[c] EXCEPT !.count = Len(order)] \in LocalRecords
      BY Len(order) \in Nat DEF LocalRecords
    <2> QED BY <1>3, <2>1 DEF CountTracks
  <1>4. ASSUME NEW c \in Calls, ListTracks(c) PROVE LocalTyped'
    <2>1. [local[c] EXCEPT !.list = order] \in LocalRecords
      BY DEF LocalRecords
    <2> QED BY <1>4, <2>1 DEF ListTracks
  <1>5. ASSUME NEW c \in Calls, Look(c) PROVE LocalTyped'
    <2> DEFINE list == local[c].list
    <2>1. CASE list = <<>>
      BY <1>5, <2>1 DEF Look
    <2>2. CASE list # <<>>
      <3>1. Head(list) \in Ids /\ Tail(list) \in Seq(Ids) /\ local[c] \in LocalRecords
        BY <2>2 DEF LocalRecords
      <3>2. CASE local' = [local EXCEPT ![c].list = Tail(list)] /\ pc' = pc
        <4>1. [local[c] EXCEPT !.list = Tail(list)] \in LocalRecords
          BY <3>1 DEF LocalRecords
        <4> QED BY <1>5, <3>2, <4>1 DEF Look
      <3>3. CASE local' = [local EXCEPT ![c].track = Head(list)] /\ pc' = [pc EXCEPT ![c] = "item"]
        <4>1. [local[c] EXCEPT !.track = Head(list)] \in LocalRecords
          BY <3>1 DEF LocalRecords
        <4> QED BY <3>1, <3>3, <4>1
      <3> QED BY <1>5, <2>2, <3>2, <3>3 DEF Look
    <2> QED BY <2>1, <2>2
  <1>6. ASSUME NEW c \in Calls, AddNote(c) PROVE LocalTyped'
    <2>1. local[c] \in LocalRecords /\ local[c].track \in Ids
      BY <1>6 DEF AddNote
    <2>2. [local[c] EXCEPT !.done = local[c].done + 1] \in LocalRecords
      BY <2>1, OneMoreDone
    <2>3. [local[c] EXCEPT !.done = local[c].done + 1].track = local[c].track
      BY <2>1 DEF LocalRecords
    <2>4. \/ local' = local
          \/ local' = [local EXCEPT ![c] = [local[c] EXCEPT !.done = local[c].done + 1]]
      BY <1>6 DEF AddNote
    <2>5. \A d \in Calls : pc'[d] \in {"item", "note"} => pc[d] \in {"item", "note"}
      BY <1>6 DEF AddNote
    <2>6. CASE local' = local
      BY <2>5, <2>6
    <2>7. CASE local' = [local EXCEPT ![c] = [local[c] EXCEPT !.done = local[c].done + 1]]
      <3> DEFINE l == [local[c] EXCEPT !.done = local[c].done + 1]
      <3>1. l \in LocalRecords /\ l.track \in Ids /\ local' = [local EXCEPT ![c] = l]
        BY <2>1, <2>2, <2>3, <2>7
      <3> HIDE DEF l
      <3> QED BY <2>5, <3>1
    <2> QED BY <2>4, <2>6, <2>7
  <1>7. CASE Edit \/ UNCHANGED vars
    BY <1>7 DEF Edit, vars
  <1> QED BY <1>1, <1>2, <1>3, <1>4, <1>5, <1>6, <1>7 DEF Next, ToolStep

\* What a step does to the track list.
LEMMA TracksNext ==
    ASSUME TypeOK, Called, [Next]_vars
    PROVE  \/ UNCHANGED <<order, name>>
           \/ \E c \in Calls : /\ pc[c] = "add" /\ AddTrack(c)
                               /\ \E n \in 0..Len(order) :
                                     /\ order' = InsertAt(order, n + 1, c)
                                     /\ n = Len(order) \/ n = local[c].count
                               /\ name' = [name EXCEPT ![c] = call[c].args.track]
           \/ \E t \in UserTracks, i \in 1..(Len(order) + 1) : Insert(t, i)
           \/ \E i \in DOMAIN order, new \in Names : Rename(i, new)
           \/ \E i \in DOMAIN order : Delete(i)
  <1>1. ASSUME NEW c \in Calls, AddTrack(c)
        PROVE  \E n \in 0..Len(order) : /\ order' = InsertAt(order, n + 1, c)
                                        /\ n = Len(order) \/ n = local[c].count
    <2>1. local[c].count \in Nat /\ Len(order) \in Nat
      BY DEF TypeOK
    <2> DEFINE n == IF local[c].count < Len(order) THEN local[c].count ELSE Len(order)
    <2>2. n \in 0..Len(order) /\ (n = Len(order) \/ n = local[c].count)
      BY <2>1
    <2>3. order' = InsertAt(order, n + 1, c)
      BY <1>1 DEF AddTrack
    <2> QED BY <2>2, <2>3
  <1>2. ASSUME NEW c \in Calls, ToolStep(c), ~AddTrack(c)
        PROVE  UNCHANGED <<order, name>>
    BY <1>2 DEF ToolStep, OpenProject, CountTracks, Report, ListTracks, Look, AddItem, AddNote,
                NotesDone, Save, Fails, project
  <1>3. ASSUME NEW c \in Calls, NEW tool \in Tools, NEW args \in Arguments[tool], Call(c, tool, args)
        PROVE  UNCHANGED <<order, name>>
    BY <1>3 DEF Call, project
  <1>4. ASSUME NEW c \in Calls, AddTrack(c)
        PROVE  pc[c] = "add" /\ name' = [name EXCEPT ![c] = call[c].args.track]
    BY <1>4 DEF AddTrack, At
  <1>5. CASE UNCHANGED vars
    BY <1>5 DEF vars, project
  <1> QED BY <1>1, <1>2, <1>3, <1>4, <1>5 DEF Next, Edit

\* A call makes its track once, with create_track: before that it is not in the list.
Early == {"new", "project", "count", "add", "blocked"}
TracksAreCreated == \A c \in Calls \cap Range(order) : pc[c] \notin Early /\ call[c].tool = "create_track"

\* The track list keeps its type, and no track gets into it twice.
LEMMA NextTracksTyped ==
    ASSUME TypeOK, Called, TracksAreCreated, [Next]_vars
    PROVE  TracksTyped'
  <1>0. TracksTyped /\ UserTracks \subseteq Ids /\ Calls \subseteq Ids
    BY TypeParts DEF Ids
  <1>1. ASSUME NEW e \in Ids, e \notin Range(order), NEW i \in 1..(Len(order) + 1),
               order' = InsertAt(order, i, e),
               name' \in [Ids -> Names \cup {None}], name'[e] \in Names,
               \A t \in Ids \ {e} : name'[t] = name[t]
        PROVE  TracksTyped'
    <2>1. /\ InsertAt(order, i, e) \in Seq(Ids)
          /\ Range(InsertAt(order, i, e)) = Range(order) \cup {e} /\ IsInjective(InsertAt(order, i, e))
      BY <1>0, <1>1, Inserted, RangeInserted DEF TracksTyped
    <2>2. Range(order) \subseteq Ids
      BY <1>0 DEF TracksTyped, Range
    <2> QED BY <1>0, <1>1, <2>1, <2>2 DEF TracksTyped
  <1>2. CASE UNCHANGED <<order, name>>
    BY <1>0, <1>2 DEF TracksTyped
  <1>3. ASSUME NEW c \in Calls, pc[c] = "add", NEW n \in 0..Len(order), order' = InsertAt(order, n + 1, c),
               name' = [name EXCEPT ![c] = call[c].args.track]
        PROVE  TracksTyped'
    <2>1. c \in Ids /\ c \notin Range(order) /\ n + 1 \in 1..(Len(order) + 1)
      BY <1>0, <1>3 DEF TracksAreCreated, Early, TracksTyped
    <2>2. call[c].args.track \in Names
      BY <1>3 DEF Called, CallRecords, Args
    <2> QED BY <1>0, <1>1, <1>3, <2>1, <2>2 DEF TracksTyped
  <1>4. ASSUME NEW t \in UserTracks, NEW i \in 1..(Len(order) + 1), Insert(t, i)
        PROVE  TracksTyped'
    <2>1. t \in Ids /\ t \notin Range(order) /\ order' = InsertAt(order, i, t) /\ name' = name
      BY <1>0, <1>4 DEF Insert
    <2> QED BY <1>0, <1>1, <2>1 DEF TracksTyped
  <1>5. ASSUME NEW i \in DOMAIN order, NEW new \in Names, Rename(i, new)
        PROVE  TracksTyped'
    BY <1>0, <1>5 DEF Rename, TracksTyped
  <1>6. ASSUME NEW i \in DOMAIN order, Delete(i)
        PROVE  TracksTyped'
    <2>1. /\ RemoveAt(order, i) \in Seq(Ids)
          /\ Range(RemoveAt(order, i)) = Range(order) \ {order[i]} /\ IsInjective(RemoveAt(order, i))
      BY <1>0, Removed, RangeRemoved DEF TracksTyped
    <2> QED BY <1>0, <1>6, <2>1 DEF Delete, TracksTyped
  <1> QED BY TracksNext, <1>2, <1>3, <1>4, <1>5, <1>6

\* An item with one note more is an item.
LEMMA OneMoreNote ==
    ASSUME NEW i \in Items, NEW note \in Notes
    PROVE  [i EXCEPT !.notes = Append(i.notes, note), !.sorted = FALSE] \in Items
  <1>1. Append(i.notes, note) \in Seq(Notes)
    BY DEF Items
  <1> QED BY <1>1 DEF Items

\* The note to be added is one of those asked for.
LEMMA NextNoteTyped ==
    ASSUME TypeOK, Called, NEW c \in Calls, AddNote(c)
    PROVE  NextNote(c) \in Notes
  <1>1. call[c] \in CallRecords
    BY DEF Called, AddNote, At
  <1>2. call[c].args.notes \in Seq(Notes)
    BY <1>1, NotesTyped DEF CallRecords
  <1>3. local[c].done \in Nat
    BY TypeParts DEF LocalTyped, LocalRecords
  <1>4. local[c].done + 1 \in 1..Len(call[c].args.notes)
    BY <1>2, <1>3 DEF AddNote, MoreNotes
  <1> QED BY <1>2, <1>4 DEF NextNote

\* Items keep their type and stay on tracks of the project.
LEMMA NextItemsTyped ==
    ASSUME TypeOK, Called, TracksAreCreated, [Next]_vars
    PROVE  ItemsTyped'
  <1>0. ItemsTyped /\ Calls \subseteq Owners /\ TracksTyped /\ LocalTyped
    BY TypeParts DEF Owners
  <1>1. CASE item' = item /\ Range(order) \subseteq Range(order')
    BY <1>0, <1>1 DEF ItemsTyped
  <1>2. ASSUME NEW c \in Calls, NEW i \in Items \cup {None}, order' = order, item' = [item EXCEPT ![c] = i],
               i # None => i.track \in Range(order)
        PROVE  ItemsTyped'
    BY <1>0, <1>2 DEF ItemsTyped
  <1>3. ASSUME NEW c \in Calls, AddItem(c) PROVE ItemsTyped'
    <2>1. CASE item' = item
      BY <1>1, <1>3, <2>1 DEF AddItem
    <2>2. CASE item' = [item EXCEPT ![c] = [track |-> local[c].track, notes |-> <<>>, sorted |-> TRUE]]
               /\ local[c].track \in Range(order)
      <3> DEFINE i == [track |-> local[c].track, notes |-> <<>>, sorted |-> TRUE]
      <3>1. i \in Items /\ i.track \in Range(order)
        BY <1>0, <2>2 DEF Items, TracksTyped, Range
      <3>2. order' = order /\ item' = [item EXCEPT ![c] = i]
        BY <1>3, <2>2 DEF AddItem
      <3> HIDE DEF i
      <3> QED BY <1>2, <3>1, <3>2
    <2> QED BY <1>3, <2>1, <2>2 DEF AddItem
  <1>4. ASSUME NEW c \in Calls, AddNote(c) PROVE ItemsTyped'
    <2>1. CASE item' = item
      BY <1>1, <1>4, <2>1 DEF AddNote
    <2>2. CASE item' = [item EXCEPT ![c] = WithNote(@, NextNote(c))] /\ MoreNotes(c)
      <3>1. NextNote(c) \in Notes
        BY <1>4, NextNoteTyped
      <3>2. WithNote(item[c], NextNote(c)) \in Items \cup {None}
        <4>1. CASE item[c] = None
          BY <4>1 DEF WithNote
        <4>2. CASE item[c] # None
          <5>1. item[c] \in Items
            BY <1>0, <4>2 DEF ItemsTyped
          <5> QED BY <5>1, <3>1, OneMoreNote, <4>2 DEF WithNote
        <4> QED BY <4>1, <4>2
      <3>3. WithNote(item[c], NextNote(c)) # None => WithNote(item[c], NextNote(c)).track \in Range(order)
        BY <1>0 DEF WithNote, Items, ItemsTyped
      <3> QED BY <1>2, <1>4, <2>2, <3>2, <3>3 DEF AddNote
    <2> QED BY <1>4, <2>1, <2>2 DEF AddNote
  <1>5. ASSUME NEW c \in Calls, NotesDone(c) PROVE ItemsTyped'
    <2> DEFINE i == IF item[c] = None THEN item[c] ELSE [item[c] EXCEPT !.sorted = TRUE]
    <2>1. i \in Items \cup {None} /\ (i # None => i.track \in Range(order))
      BY <1>0 DEF Items, ItemsTyped
    <2>2. order' = order /\ item' = [item EXCEPT ![c] = i]
      BY <1>5 DEF NotesDone
    <2> HIDE DEF i
    <2> QED BY <1>2, <2>1, <2>2
  <1>6. ASSUME NEW i \in DOMAIN order, Delete(i) PROVE ItemsTyped'
    <2>1. Range(order') = Range(order) \ {order[i]}
      BY <1>0, <1>6, RangeRemoved DEF Delete, TracksTyped
    <2> QED BY <1>0, <1>6, <2>1 DEF Delete, OnTrack, ItemsTyped
  <1>7. ASSUME NEW c \in Calls, AddTrack(c) PROVE item' = item /\ Range(order) \subseteq Range(order')
    <2>1. PICK n \in 0..Len(order) : order' = InsertAt(order, n + 1, c)
      BY <1>0, <1>7 DEF AddTrack, TracksTyped, LocalTyped, LocalRecords
    <2>2. c \in Ids /\ c \notin Range(order) /\ n + 1 \in 1..(Len(order) + 1)
      BY <1>0, <1>7 DEF TracksAreCreated, Early, TracksTyped, AddTrack, At, Ids
    <2> QED BY <1>0, <1>7, <2>1, <2>2, RangeInserted DEF AddTrack, TracksTyped
  <1>8. ASSUME NEW t \in UserTracks, NEW i \in 1..(Len(order) + 1), Insert(t, i)
        PROVE  item' = item /\ Range(order) \subseteq Range(order')
    BY <1>0, <1>8, RangeInserted DEF Insert, TracksTyped, Ids
  <1>9. ASSUME NEW c \in Calls,
               \/ \E tool \in Tools : \E args \in Arguments[tool] : Call(c, tool, args)
               \/ OpenProject(c) \/ CountTracks(c) \/ Report(c) \/ ListTracks(c) \/ Look(c) \/ Save(c) \/ Fails(c)
        PROVE  item' = item /\ order' = order
    BY <1>9 DEF Call, OpenProject, CountTracks, Report, ListTracks, Look, Save, Fails, project
  <1>10. CASE UNCHANGED vars
    BY <1>1, <1>10 DEF vars, project
  <1>11. CASE \E i \in DOMAIN order, new \in Names : Rename(i, new)
    BY <1>1, <1>11 DEF Rename
  <1> QED BY <1>1, <1>3, <1>4, <1>5, <1>6, <1>7, <1>8, <1>9, <1>10, <1>11 DEF Next, ToolStep, Edit

\* Where new tracks come from.
LEMMA NewTracks ==
    ASSUME TypeOK, Called, TracksAreCreated, [Next]_vars, NEW t \in Range(order'), t \notin Range(order)
    PROVE  t \in UserTracks \/ (t \in Calls /\ AddTrack(t))
  <1>0. TracksTyped
    BY TypeParts
  <1>1. ASSUME NEW c \in Calls, AddTrack(c), pc[c] = "add",
               NEW n \in 0..Len(order), order' = InsertAt(order, n + 1, c)
        PROVE  t = c
    <2>1. c \in Ids /\ c \notin Range(order) /\ n + 1 \in 1..(Len(order) + 1)
      BY <1>0, <1>1 DEF TracksAreCreated, Early, TracksTyped, Ids
    <2> QED BY <1>0, <1>1, <2>1, RangeInserted DEF TracksTyped
  <1>2. ASSUME NEW u \in UserTracks, NEW i \in 1..(Len(order) + 1), Insert(u, i) PROVE t = u
    BY <1>0, <1>2, RangeInserted DEF Insert, TracksTyped, Ids
  <1>3. ASSUME NEW i \in DOMAIN order, Delete(i) PROVE FALSE
    BY <1>0, <1>3, RangeRemoved DEF Delete, TracksTyped
  <1>4. ASSUME order' = order PROVE FALSE
    BY <1>4
  <1> QED BY TracksNext, <1>1, <1>2, <1>3, <1>4 DEF Rename

\* Arguments stay as they are, and calls do not go back.
LEMMA CallsGoOn ==
    ASSUME TypeOK, Called, [Next]_vars, NEW c \in Calls, pc[c] # "new"
    PROVE  call'[c] = call[c] /\ pc'[c] # "new" /\ (pc[c] \notin Early => pc'[c] \notin Early)
  <1>0. PCsTyped
    BY TypeParts
  <1> USE DEF Early, At, Ends, Returns, PCsTyped
  <1>1. ASSUME NEW d \in Calls, NEW tool \in Tools, NEW args \in Arguments[tool], Call(d, tool, args)
        PROVE  call'[c] = call[c] /\ pc'[c] # "new" /\ (pc[c] \notin Early => pc'[c] \notin Early)
    BY <1>0, <1>1 DEF Call, Called
  <1>2. ASSUME NEW d \in Calls, ToolStep(d)
        PROVE  call'[c] = call[c] /\ pc'[c] # "new" /\ (pc[c] \notin Early => pc'[c] \notin Early)
    <2>1. call' = call
      BY <1>2 DEF ToolStep, OpenProject, CountTracks, AddTrack, Report, ListTracks, Look, AddItem, AddNote,
                  NotesDone, Save, Fails
    <2>2. CASE OpenProject(d)
      BY <1>0, <2>1, <2>2 DEF OpenProject, FirstStep, Called, CallRecords, Tools
    <2>3. CASE ~OpenProject(d)
      BY <1>0, <1>2, <2>1, <2>3 DEF ToolStep, CountTracks, AddTrack, Report, ListTracks, Look, AddItem, AddNote,
                                    NotesDone, Save, Fails
    <2> QED BY <2>2, <2>3
  <1>3. CASE Edit \/ UNCHANGED vars
    BY <1>3 DEF Edit, vars
  <1> QED BY <1>1, <1>2, <1>3 DEF Next

\* Every step keeps the types.
LEMMA NextTyped ==
    ASSUME TypeOK, Called, TracksAreCreated, [Next]_vars
    PROVE  TypeOK' /\ Called' /\ TracksAreCreated'
  <1>1. Called' /\ PCsTyped'
    BY CalledNext DEF PCsTyped
  <1>2. FilesTyped'
    BY TypeParts DEF FilesTyped, Owners, Next, Call, ToolStep, OpenProject, CountTracks, AddTrack, Report,
        ListTracks, Look, AddItem, AddNote, NotesDone, Save, Fails, Edit, vars
  <1>3. HistoryTyped'
    <2>1. CASE history' = history
      BY <2>1, TypeParts DEF HistoryTyped
    <2>2. CASE Edit
      <3>1. TracksTyped /\ HistoryTyped
        BY TypeParts
      <3>2. \A i \in DOMAIN order : order[i] \in Ids /\ OnTrack(order[i]) \subseteq Owners
        BY <3>1 DEF TracksTyped, OnTrack
      <3>3. ASSUME NEW t \in UserTracks, NEW i \in 1..(Len(order) + 1), Insert(t, i) PROVE HistoryTyped'
        <4>1. history' = [history EXCEPT !.inserted = history.inserted \/ Adding # {}]
          BY <3>3 DEF Insert
        <4>2. (history.inserted \/ Adding # {}) \in BOOLEAN
          OBVIOUS
        <4> QED BY <3>1, <4>1, <4>2 DEF HistoryTyped
      <3>4. ASSUME NEW i \in DOMAIN order, NEW new \in Names, Rename(i, new) PROVE HistoryTyped'
        BY <3>1, <3>2, <3>4 DEF Rename, HistoryTyped
      <3>5. ASSUME NEW i \in DOMAIN order, Delete(i) PROVE HistoryTyped'
        BY <3>1, <3>2, <3>5 DEF Delete, HistoryTyped
      <3> QED BY <2>2, <3>3, <3>4, <3>5 DEF Edit
    <2> QED BY <2>1, <2>2 DEF Next, Call, ToolStep, OpenProject, CountTracks, AddTrack, Report,
        ListTracks, Look, AddItem, AddNote, NotesDone, Save, Fails, vars
  <1>4. TypeOK'
    BY <1>1, <1>2, <1>3, NextTracksTyped, NextItemsTyped, NextLocalTyped
    DEF TypeOK, TracksTyped, ItemsTyped, FilesTyped, PCsTyped, LocalTyped, LocalRecords, HistoryTyped
  <1>5. TracksAreCreated'
    <2> SUFFICES ASSUME NEW c \in Calls, c \in Range(order') PROVE pc'[c] \notin Early /\ call'[c].tool = "create_track"
      BY DEF TracksAreCreated
    <2>1. CASE c \in Range(order)
      BY <2>1, CallsGoOn DEF TracksAreCreated, Early
    <2>2. CASE c \notin Range(order)
      <3>1. AddTrack(c)
        BY <2>2, NewTracks, CallsType
      <3>2. call[c].tool = "create_track"
        BY <3>1 DEF AddTrack, At, Called, PCsOf, CallRecords, Tools
      <3>3. pc'[c] \in {"report", "raised"} /\ call' = call
        BY <3>1, TypeParts DEF AddTrack, Returns, Ends, PCsTyped
      <3> QED BY <3>2, <3>3 DEF Early
    <2> QED BY <2>1, <2>2
  <1> QED BY <1>1, <1>4, <1>5

-----------------------------------------------------------------------------
(* What the tools leave behind *)

\* Where a call may be once it has found its track.
Looked == {"item", "note", "ok", "KeyError", "raised"}

\* A track that was found has kept its name, unless the user renamed it.
FoundTracks ==
    \A c \in Calls : local[c].track # None =>
        /\ pc[c] \in Looked /\ call[c].tool = "write_generated_midi"
        /\ local[c].track \in Calls => pc[local[c].track] \notin Early
        /\ local[c].track \notin history.renamed => name[local[c].track] = call[c].args.track

\* An item is on the track found and holds the notes that were added so far.
ItemsAreOwn ==
    \A c \in Calls : item[c] # None =>
        /\ pc[c] \in Looked \ {"item"} /\ item[c].track = local[c].track
        /\ IsPrefix(item[c].notes, call[c].args.notes)
        /\ pc[c] = "note" => Len(item[c].notes) = local[c].done

\* No note is counted that was not asked for, none before the item is there.
NotesCounted ==
    \A c \in Calls : /\ pc[c] = "note" => local[c].done <= Len(call[c].args.notes)
                     /\ pc[c] \in {"new", "project", "list", "look", "item"} => local[c].done = 0

\* What was made is there until the user removes it.
MadeIsThere ==
    \A c \in Calls :
        /\ pc[c] \in {"report", "ok"} /\ Tool(c) = "create_track" => c \in Range(order) \cup history.removed
        /\ pc[c] = "note" => item[c] # None \/ c \in history.removed
        /\ pc[c] = "ok" /\ Tool(c) = "write_generated_midi" =>
              \/ c \in history.removed
              \/ item[c] # None /\ item[c].notes = call[c].args.notes /\ item[c].sorted
        /\ pc[c] = "ok" /\ Tool(c) = "save_project_as" => savedBy[call[c].args.file] \in Calls

\* A file is written by the call that named it.
FilesAreNamed ==
    \A f \in Files : savedBy[f] \in Calls =>
        LET c == savedBy[f] IN
        pc[c] \notin {"new", "blocked"} /\ call[c].tool = "save_project_as" /\ call[c].args.file = f

\* The number of tracks a call has counted covers all the user has had since.
CountsCover ==
    ~history.inserted => \A c \in Calls : pc[c] = "add" =>
        \A j \in DOMAIN order : order[j] \in UserTracks => j <= local[c].count

Types == TypeOK /\ Called /\ TracksAreCreated

\* What a call may do that the gate has let through.
LEMMA Gated ==
    ASSUME Called, NEW c \in Calls, pc[c] \notin {"new", "blocked"}
    PROVE  LET args == call[c].args IN
           /\ call[c].tool = "create_track" => args.approved \/ args.track \in GenNames
           /\ call[c].tool = "write_generated_midi" => args.track \in GenNames
           /\ call[c].tool = "save_project_as" => args.requested \/ args.approved
  <1> DEFINE args == call[c].args
  <1>1. call[c] \in CallRecords /\ Permitted(call[c].tool, args)
    BY DEF Called
  <1>2. args.track \in Names /\ args.requested \in BOOLEAN /\ args.approved \in BOOLEAN
    BY <1>1 DEF CallRecords, Args
  <1>3. CASE call[c].tool = "create_track"
    BY <1>1, <1>2, <1>3, GatePolicy DEF Permitted, Verdict
  <1>4. CASE call[c].tool = "write_generated_midi"
    BY <1>1, <1>2, <1>4, GatePolicy DEF Permitted, Verdict
  <1>5. CASE call[c].tool = "save_project_as"
    BY <1>1, <1>2, <1>5, GatePolicy DEF Permitted, Verdict
  <1> QED BY <1>3, <1>4, <1>5

\* Nothing but the user and the call that makes it gives a track its name.
LEMMA NamesStay ==
    ASSUME Types, [Next]_vars, NEW t \in Ids, t \in Calls => pc[t] \notin Early
    PROVE  name'[t] = name[t] \/ t \in history'.renamed
  <1>0. TracksTyped /\ HistoryTyped
    BY TypeParts DEF Types
  <1>1. ASSUME NEW i \in DOMAIN order, NEW new \in Names, Rename(i, new)
        PROVE  name'[t] = name[t] \/ t \in history'.renamed
    BY <1>0, <1>1 DEF Rename, TracksTyped, HistoryTyped
  <1>2. ASSUME NEW c \in Calls, pc[c] = "add", name' = [name EXCEPT ![c] = call[c].args.track]
        PROVE  name'[t] = name[t]
    BY <1>0, <1>2 DEF Early, TracksTyped
  <1> QED BY TracksNext, <1>1, <1>2 DEF Types, Insert, Delete

\* What the user has done is not forgotten.
LEMMA HistoryGrows ==
    ASSUME TypeOK, [Next]_vars
    PROVE  history.renamed \subseteq history'.renamed /\ history.removed \subseteq history'.removed
           /\ (history.inserted => history'.inserted)
  <1>1. CASE history' = history
    BY <1>1
  <1>2. CASE Edit
    BY <1>2, TypeParts DEF Edit, Insert, Rename, Delete, HistoryTyped
  <1> QED BY <1>1, <1>2 DEF Next, Call, ToolStep, OpenProject, CountTracks, AddTrack, Report,
        ListTracks, Look, AddItem, AddNote, NotesDone, Save, Fails, vars

\* Only the lookup sets the track, only a call's own steps move it.
LEMMA OthersStay ==
    ASSUME Types, [Next]_vars, NEW c \in Calls
    PROVE  /\ local'[c].track = local[c].track \/ Look(c)
           /\ pc[c] \in Looked => pc'[c] \in Looked
  <1>0. LocalTyped /\ PCsTyped
    BY TypeParts DEF Types
  <1> USE DEF At, Ends, Returns, PCsTyped, Looked
  <1>1. ASSUME NEW d \in Calls, ToolStep(d), pc[c] \in Looked PROVE pc'[c] \in Looked
    <2>1. CASE OpenProject(d)
      BY <1>0, <1>1, <2>1 DEF OpenProject
    <2>2. CASE ~OpenProject(d)
      BY <1>0, <1>1, <2>2 DEF ToolStep, CountTracks, AddTrack, Report, ListTracks, Look, AddItem, AddNote,
                              NotesDone, Save, Fails
    <2> QED BY <2>1, <2>2
  <1>2. ASSUME NEW d \in Calls, ToolStep(d) PROVE local'[c].track = local[c].track \/ Look(c)
    <2>1. CASE local' = local
      BY <2>1
    <2>2. CASE CountTracks(d)
      BY <1>0, <2>2 DEF CountTracks, LocalTyped, LocalRecords
    <2>3. CASE ListTracks(d)
      BY <1>0, <2>3 DEF ListTracks, LocalTyped, LocalRecords
    <2>4. CASE AddNote(d)
      <3> DEFINE l == [local[d] EXCEPT !.done = local[d].done + 1]
      <3>1. local' = local \/ local' = [local EXCEPT ![d] = l]
        BY <2>4 DEF AddNote
      <3>2. l.track = local[d].track
        BY <1>0 DEF LocalTyped, LocalRecords
      <3> HIDE DEF l
      <3> QED BY <1>0, <3>1, <3>2 DEF LocalTyped
    <2>5. CASE Look(d)
      BY <1>0, <2>5 DEF Look, LocalTyped, LocalRecords
    <2> QED BY <1>2, <2>1, <2>2, <2>3, <2>4, <2>5
            DEF ToolStep, OpenProject, AddTrack, Report, AddItem, NotesDone, Save, Fails
  <1>3. ASSUME NEW d \in Calls, NEW tool \in Tools, NEW args \in Arguments[tool], Call(d, tool, args)
        PROVE  local' = local /\ (pc[c] \in Looked => pc'[c] \in Looked)
    BY <1>0, <1>3 DEF Call
  <1>4. CASE Edit \/ UNCHANGED vars
    BY <1>4 DEF Edit, vars
  <1> QED BY <1>1, <1>2, <1>3, <1>4 DEF Next

\* What a lookup has found keeps the name that was judged, unless it is renamed.
LEMMA NextFound ==
    ASSUME Types, FoundTracks, [Next]_vars
    PROVE  FoundTracks'
  <1>0. LocalTyped /\ PCsTyped /\ TracksTyped
    BY TypeParts DEF Types
  <1> SUFFICES ASSUME NEW c \in Calls, local'[c].track # None
               PROVE  /\ pc'[c] \in Looked /\ call'[c].tool = "write_generated_midi"
                      /\ local'[c].track \in Calls => pc'[local'[c].track] \notin Early
                      /\ local'[c].track \notin history'.renamed => name'[local'[c].track] = call'[c].args.track
    BY DEF FoundTracks, Early
  <1>1. CASE local'[c].track = local[c].track
    <2> DEFINE t == local[c].track
    <2>1. /\ pc[c] \in Looked /\ call[c].tool = "write_generated_midi" /\ t \in Ids
          /\ t \in Calls => pc[t] \notin Early
          /\ t \notin history.renamed => name[t] = call[c].args.track
      BY <1>0, <1>1 DEF FoundTracks, LocalTyped, LocalRecords
    <2>2. pc'[c] \in Looked /\ call'[c] = call[c]
      BY <2>1, OthersStay, CallsGoOn DEF Types, Looked
    <2>3. t \in Calls => pc'[t] \notin Early
      BY <2>1, CallsGoOn DEF Types, Early
    <2>4. t \notin history'.renamed => name'[t] = name[t] /\ t \notin history.renamed
      BY <2>1, NamesStay, HistoryGrows DEF Types
    <2> QED BY <1>1, <2>1, <2>2, <2>3, <2>4
  <1>2. CASE Look(c) /\ local'[c].track # local[c].track
    <2> DEFINE t == Head(local[c].list)
    <2>1. /\ t \in Range(order) /\ name[t] = call[c].args.track /\ local'[c].track = t /\ pc'[c] = "item"
          /\ UNCHANGED <<order, name, call, history>>
      BY <1>0, <1>2 DEF Look, Ends, LocalTyped, LocalRecords, PCsTyped, project
    <2>2. call[c].tool = "write_generated_midi"
      BY <1>2 DEF Look, At, Types, Called, CallRecords, PCsOf, Tools
    <2>3. t \in Calls => pc'[t] \notin Early
      <3>1. t \in Calls => pc[t] \notin Early /\ pc[t] # "new"
        BY <2>1 DEF Types, TracksAreCreated, Early
      <3> QED BY <3>1, CallsGoOn DEF Types
    <2> HIDE DEF t
    <2> QED BY <2>1, <2>2, <2>3 DEF Looked
  <1> QED BY <1>1, <1>2, OthersStay

\* A call counts the tracks once, when it comes to "add".
LEMMA CountOnce ==
    ASSUME Types, [Next]_vars, NEW c \in Calls, pc'[c] = "add", ~CountTracks(c)
    PROVE  pc[c] = "add" /\ local'[c].count = local[c].count
  <1>0. LocalTyped /\ PCsTyped
    BY TypeParts DEF Types
  <1> USE DEF At, Ends, Returns, PCsTyped
  <1>1. ASSUME NEW d \in Calls, ToolStep(d) PROVE pc[c] = "add"
    <2>1. CASE OpenProject(d)
      BY <1>0, <2>1 DEF OpenProject, FirstStep, Types, Called, CallRecords, Tools
    <2>2. CASE CountTracks(d)
      BY <1>0, <2>2 DEF CountTracks
    <2>3. CASE ~OpenProject(d) /\ ~CountTracks(d)
      BY <1>0, <1>1, <2>3 DEF ToolStep, AddTrack, Report, ListTracks, Look, AddItem, AddNote,
                              NotesDone, Save, Fails
    <2> QED BY <2>1, <2>2, <2>3
  <1>2. ASSUME NEW d \in Calls, ToolStep(d) PROVE local'[c].count = local[c].count
    <2>1. CASE local' = local
      BY <2>1
    <2>2. CASE CountTracks(d)
      BY <1>0, <2>2 DEF CountTracks, LocalTyped, LocalRecords
    <2>3. CASE ListTracks(d)
      BY <1>0, <2>3 DEF ListTracks, LocalTyped, LocalRecords
    <2>4. CASE AddNote(d)
      <3> DEFINE l == [local[d] EXCEPT !.done = local[d].done + 1]
      <3>1. local' = local \/ local' = [local EXCEPT ![d] = l]
        BY <2>4 DEF AddNote
      <3>2. l.count = local[d].count
        BY <1>0 DEF LocalTyped, LocalRecords
      <3> HIDE DEF l
      <3> QED BY <1>0, <3>1, <3>2 DEF LocalTyped
    <2>5. CASE Look(d)
      BY <1>0, <2>5 DEF Look, LocalTyped, LocalRecords
    <2> QED BY <1>2, <2>1, <2>2, <2>3, <2>4, <2>5
            DEF ToolStep, OpenProject, AddTrack, Report, AddItem, NotesDone, Save, Fails
  <1>3. ASSUME NEW d \in Calls, NEW tool \in Tools, NEW args \in Arguments[tool], Call(d, tool, args)
        PROVE  local' = local /\ pc[c] = "add"
    BY <1>0, <1>3 DEF Call
  <1>4. CASE Edit \/ UNCHANGED vars
    BY <1>4 DEF Edit, vars
  <1> QED BY <1>1, <1>2, <1>3, <1>4 DEF Next

\* No step but an insertion by the user puts a track of theirs behind a count.
LEMMA NextCountsCover ==
    ASSUME Types, CountsCover, [Next]_vars
    PROVE  CountsCover'
  <1>0. LocalTyped /\ PCsTyped /\ TracksTyped /\ HistoryTyped /\ order \in Seq(Ids) /\ order' \in Seq(Ids)
    BY TypeParts, NextTyped DEF Types, TypeOK
  <1> SUFFICES ASSUME ~history'.inserted, NEW c \in Calls, pc'[c] = "add",
                      NEW j \in DOMAIN order', order'[j] \in UserTracks
               PROVE  j <= local'[c].count
    BY DEF CountsCover
  <1>1. CASE CountTracks(c)
    BY <1>0, <1>1 DEF CountTracks, LocalTyped, LocalRecords, project
  <1>2. CASE ~CountTracks(c)
    <2>1. pc[c] = "add" /\ local'[c].count = local[c].count
      BY <1>2, CountOnce
    <2>2. ~history.inserted
      BY HistoryGrows DEF Types
    <2>3. \A k \in DOMAIN order : order[k] \in UserTracks => k <= local[c].count
      BY <2>1, <2>2 DEF CountsCover
    <2>4. \E k \in DOMAIN order : order[k] = order'[j] /\ j <= k
      <3>1. CASE order' = order
        BY <1>0, <3>1
      <3>2. ASSUME NEW d \in Calls, NEW n \in 0..Len(order), order' = InsertAt(order, n + 1, d),
                   n = Len(order) \/ n = local[d].count, pc[d] = "add"
            PROVE  \E k \in DOMAIN order : order[k] = order'[j] /\ j <= k
        \* The new track is behind all of the user's, which stay where they are.
        <4>1. /\ Len(order') = Len(order) + 1 /\ j \in 1..(Len(order) + 1)
              /\ order'[j] = IF j < n + 1 THEN order[j] ELSE IF j = n + 1 THEN d ELSE order[j - 1]
          <5> DEFINE i == n + 1
          <5>1. d \in Ids /\ order \in Seq(Ids) /\ i \in 1..(Len(order) + 1)
            BY <1>0, <3>2 DEF Ids
          <5> HIDE DEF i
          <5>2. /\ Len(InsertAt(order, i, d)) = Len(order) + 1
                /\ \A k \in 1..(Len(order) + 1) : InsertAt(order, i, d)[k] =
                      IF k < i THEN order[k] ELSE IF k = i THEN d ELSE order[k - 1]
            BY <5>1, Inserted
          <5>3. j \in 1..(Len(order) + 1)
            BY <1>0, <3>2, <5>2 DEF i
          <5> QED BY <3>2, <5>2, <5>3 DEF i
        <4>2. CASE j < n + 1
          BY <1>0, <3>2, <4>1, <4>2
        <4>3. CASE j = n + 1
          BY <4>1, <4>3, CallsType
        <4>4. CASE j > n + 1
          <5>1. j - 1 \in DOMAIN order /\ order[j - 1] \in UserTracks /\ n = local[d].count /\ j - 1 > n
            BY <1>0, <3>2, <4>1, <4>4
          <5> QED BY <2>2, <3>2, <5>1, <1>0 DEF CountsCover
        <4> QED BY <1>0, <3>2, <4>1, <4>2, <4>3, <4>4
      <3>3. ASSUME NEW t \in UserTracks, NEW i \in 1..(Len(order) + 1), Insert(t, i) PROVE FALSE
        BY <2>1, <3>3, <1>0 DEF Insert, Adding, HistoryTyped
      <3>4. ASSUME NEW i \in DOMAIN order, Delete(i)
            PROVE  \E k \in DOMAIN order : order[k] = order'[j] /\ j <= k
        <4>1. /\ j \in 1..(Len(order) - 1) /\ order'[j] = IF j < i THEN order[j] ELSE order[j + 1]
          BY <1>0, <3>4, Removed DEF Delete
        <4>2. j \in DOMAIN order /\ j + 1 \in DOMAIN order
          BY <1>0, <4>1
        <4> QED BY <4>1, <4>2
      <3> QED BY TracksNext, <3>1, <3>2, <3>3, <3>4 DEF Types, Rename
    <2>5. PICK k \in DOMAIN order : order[k] = order'[j] /\ j <= k
      BY <2>4
    <2> QED BY <1>0, <2>1, <2>3, <2>5 DEF LocalTyped, LocalRecords
  <1> QED BY <1>1, <1>2

\* Adding a note to a prefix of the notes asked for.
LEMMA PrefixGrows ==
    ASSUME NEW s \in Seq(Notes), NEW t \in Seq(Notes), IsPrefix(s, t), Len(s) < Len(t)
    PROVE  IsPrefix(Append(s, t[Len(s) + 1]), t)
  <1> DEFINE k == Len(s)
             r == Append(s, t[k + 1])
  <1>1. k \in Nat /\ k + 1 \in 1..Len(t) /\ Len(t) \in Nat
    OBVIOUS
  <1>2. \A i \in 1..k : s[i] = t[i]
    <2>1. \A i \in 1..k : SubSeq(s, 1, k)[i] = s[i] /\ SubSeq(t, 1, k)[i] = t[i]
      BY <1>1
    <2> QED BY <2>1 DEF IsPrefix
  <1>3. r \in Seq(Notes) /\ Len(r) = k + 1 /\ \A i \in 1..(k + 1) : r[i] = t[i]
    BY <1>1, <1>2
  <1> HIDE DEF r
  <1>4. /\ SubSeq(r, 1, k + 1) \in Seq(Notes) /\ Len(SubSeq(r, 1, k + 1)) = k + 1
        /\ SubSeq(t, 1, k + 1) \in Seq(Notes) /\ Len(SubSeq(t, 1, k + 1)) = k + 1
        /\ \A i \in 1..(k + 1) : SubSeq(r, 1, k + 1)[i] = r[i] /\ SubSeq(t, 1, k + 1)[i] = t[i]
    BY <1>1, <1>3
  <1>5. SubSeq(r, 1, k + 1) = SubSeq(t, 1, k + 1)
    BY <1>1, <1>3, <1>4
  <1>6. IsPrefix(r, t)
    BY <1>1, <1>3, <1>5 DEF IsPrefix
  <1> QED BY <1>6 DEF r

\* A prefix as long as the whole is the whole, and nothing is a prefix of all.
LEMMA WholePrefix ==
    ASSUME NEW s \in Seq(Notes), NEW t \in Seq(Notes), IsPrefix(s, t), Len(s) = Len(t)
    PROVE  s = t
  BY SubSeqFull DEF IsPrefix

\* An item starts out as a prefix of the notes.
LEMMA EmptyPrefix == ASSUME NEW t \in Seq(Notes) PROVE IsPrefix(<<>>, t)
  BY SubSeqEmpty DEF IsPrefix

\* What every other step leaves of a call's item and counter.
LEMMA OwnSteps ==
    ASSUME Types, [Next]_vars, NEW c \in Calls, ~AddItem(c), ~AddNote(c), ~NotesDone(c)
    PROVE  /\ item'[c] = item[c] \/ (item'[c] = None /\ c \in history'.removed)
           /\ local'[c].done = local[c].done
           /\ pc[c] # "note" => pc'[c] # "note"
  <1>0. LocalTyped /\ PCsTyped /\ ItemsTyped /\ TracksTyped /\ HistoryTyped /\ c \in Owners
    BY TypeParts DEF Types, Owners
  <1> USE DEF At, Ends, Returns, PCsTyped
  <1>1. ASSUME NEW d \in Calls, ToolStep(d) PROVE item'[c] = item[c]
    <2>1. CASE item' = item
      BY <2>1
    <2>2. CASE AddItem(d) \/ AddNote(d) \/ NotesDone(d)
      BY <1>0, <2>2 DEF AddItem, AddNote, NotesDone, ItemsTyped
    <2> QED BY <1>1, <2>1, <2>2
            DEF ToolStep, OpenProject, CountTracks, AddTrack, Report, ListTracks, Look, Save, Fails, project
  <1>2. ASSUME NEW d \in Calls, ToolStep(d) PROVE local'[c].done = local[c].done
    <2>1. CASE local' = local
      BY <2>1
    <2>2. CASE CountTracks(d)
      BY <1>0, <2>2 DEF CountTracks, LocalTyped, LocalRecords
    <2>3. CASE ListTracks(d)
      BY <1>0, <2>3 DEF ListTracks, LocalTyped, LocalRecords
    <2>4. CASE AddNote(d)
      <3>1. d # c
        BY <2>4
      <3>2. local'[c] = local[c]
        BY <1>0, <2>4, <3>1 DEF AddNote, LocalTyped
      <3> QED BY <3>2
    <2>5. CASE Look(d)
      <3> DEFINE withList  == [local[d] EXCEPT !.list = Tail(local[d].list)]
                 withTrack == [local[d] EXCEPT !.track = Head(local[d].list)]
      <3>1. local' = local \/ local' = [local EXCEPT ![d] = withList] \/ local' = [local EXCEPT ![d] = withTrack]
        BY <2>5 DEF Look
      <3>2. withList.done = local[d].done /\ withTrack.done = local[d].done
        BY <1>0 DEF LocalTyped, LocalRecords
      <3> HIDE DEF withList, withTrack
      <3> QED BY <1>0, <3>1, <3>2 DEF LocalTyped
    <2> QED BY <1>2, <2>1, <2>2, <2>3, <2>4, <2>5
            DEF ToolStep, OpenProject, AddTrack, Report, AddItem, NotesDone, Save, Fails
  <1>3. ASSUME NEW d \in Calls, ToolStep(d) PROVE pc[c] # "note" => pc'[c] # "note"
    <2>1. CASE OpenProject(d)
      BY <1>0, <2>1 DEF OpenProject, FirstStep, Types, Called, CallRecords, Tools
    <2>2. CASE ~OpenProject(d)
      BY <1>0, <1>3, <2>2 DEF ToolStep, CountTracks, AddTrack, Report, ListTracks, Look, AddItem, AddNote,
                              NotesDone, Save, Fails
    <2> QED BY <2>1, <2>2
  <1>4. ASSUME NEW d \in Calls, NEW tool \in Tools, NEW args \in Arguments[tool], Call(d, tool, args)
        PROVE  item' = item /\ local' = local /\ (pc[c] # "note" => pc'[c] # "note")
    BY <1>0, <1>4 DEF Call, project
  <1>5. CASE UNCHANGED vars
    BY <1>5 DEF vars, project
  <1>6. CASE Edit
    <2>1. pc' = pc /\ local' = local
      BY <1>6 DEF Edit
    <2>2. item'[c] = item[c] \/ (item'[c] = None /\ c \in history'.removed)
      BY <1>0, <1>6 DEF Edit, Insert, Rename, Delete, OnTrack, HistoryTyped
    <2> QED BY <2>1, <2>2
  <1> QED BY <1>1, <1>2, <1>3, <1>4, <1>5, <1>6 DEF Next

\* The counter of notes stays within the notes asked for.
LEMMA NextNotesCounted ==
    ASSUME Types, NotesCounted, [Next]_vars
    PROVE  NotesCounted'
  <1> SUFFICES ASSUME NEW c \in Calls
               PROVE  /\ pc'[c] = "note" => local'[c].done <= Len(call'[c].args.notes)
                      /\ pc'[c] \in {"new", "project", "list", "look", "item"} => local'[c].done = 0
    BY DEF NotesCounted
  <1>0. LocalTyped /\ PCsTyped
    BY TypeParts DEF Types
  <1> USE DEF At, Ends, Returns, PCsTyped
  <1>1. CASE AddItem(c)
    <2>1. local'[c].done = 0 /\ call'[c] = call[c] /\ pc'[c] \in {"note", "raised", "KeyError"}
      BY <1>0, <1>1 DEF AddItem, NotesCounted
    <2>2. call[c].args.notes \in Seq(Notes)
      BY <1>1, NotesTyped DEF AddItem, Types, Called, CallRecords
    <2> QED BY <2>1, <2>2
  <1>2. CASE AddNote(c)
    <2>1. call[c].args.notes \in Seq(Notes) /\ local[c].done \in Nat
      BY <1>0, <1>2, NotesTyped DEF AddNote, Types, Called, CallRecords, LocalTyped, LocalRecords
    <2>2. pc'[c] \in {"note", "raised", "KeyError"} /\ call' = call
      BY <1>0, <1>2 DEF AddNote
    <2>3. local'[c].done = local[c].done \/ local'[c].done = local[c].done + 1
      BY <1>0, <1>2 DEF AddNote, LocalTyped, LocalRecords
    <2> QED BY <1>2, <2>1, <2>2, <2>3 DEF AddNote, MoreNotes
  <1>3. CASE NotesDone(c)
    BY <1>0, <1>3 DEF NotesDone
  <1>4. CASE ~AddItem(c) /\ ~AddNote(c) /\ ~NotesDone(c)
    <2>1. local'[c].done = local[c].done /\ (pc[c] # "note" => pc'[c] # "note")
      BY <1>4, OwnSteps
    <2>2. pc'[c] \in {"new", "project", "list", "look", "item"} => pc[c] \in {"new", "project", "list", "look", "item"}
      <3>1. ASSUME NEW d \in Calls, OpenProject(d)
            PROVE  pc'[c] \in {"list"} => pc[c] \in {"project", "list"}
        BY <1>0, <3>1 DEF OpenProject
      <3>2. ASSUME NEW d \in Calls, OpenProject(d)
            PROVE  pc'[c] \in {"new", "project", "look", "item"} => pc[c] \in {"new", "project", "look", "item"}
        BY <1>0, <3>2 DEF OpenProject, FirstStep, Types, Called, CallRecords, Tools
      <3>3. ASSUME NEW d \in Calls, ToolStep(d), ~OpenProject(d)
            PROVE  pc'[c] \in {"new", "project", "list", "look", "item"} =>
                       pc[c] \in {"new", "project", "list", "look", "item"}
        BY <1>0, <3>3 DEF ToolStep, CountTracks, AddTrack, Report, ListTracks, Look, AddItem, AddNote,
                              NotesDone, Save, Fails
      <3>4. ASSUME NEW d \in Calls, NEW tool \in Tools, NEW args \in Arguments[tool], Call(d, tool, args)
            PROVE  pc[c] = "new" \/ pc'[c] = pc[c]
        BY <1>0, <3>4 DEF Call
      <3>5. CASE Edit \/ UNCHANGED vars
        BY <3>5 DEF Edit, vars
      <3> QED BY <3>1, <3>2, <3>3, <3>4, <3>5 DEF Next
    <2>3. pc[c] # "new" => call'[c] = call[c]
      BY CallsGoOn DEF Types
    <2> QED BY <2>1, <2>2, <2>3 DEF NotesCounted
  <1> QED BY <1>1, <1>2, <1>3, <1>4

\* A call's item stays on its track and holds the notes done.
LEMMA NextItemsAreOwn ==
    ASSUME Types, NotesCounted, FoundTracks, ItemsAreOwn, [Next]_vars
    PROVE  ItemsAreOwn'
  <1> SUFFICES ASSUME NEW c \in Calls, item'[c] # None
               PROVE  /\ pc'[c] \in Looked \ {"item"} /\ item'[c].track = local'[c].track
                      /\ IsPrefix(item'[c].notes, call'[c].args.notes)
                      /\ pc'[c] = "note" => Len(item'[c].notes) = local'[c].done
    BY DEF ItemsAreOwn
  <1>0. LocalTyped /\ PCsTyped /\ ItemsTyped /\ c \in Owners
    BY TypeParts DEF Types, Owners
  <1> USE DEF At, Ends, Returns, PCsTyped
  <1>1. CASE AddItem(c)
    <2> DEFINE i == [track |-> local[c].track, notes |-> <<>>, sorted |-> TRUE]
    <2>1. /\ local' = local /\ call' = call /\ local[c].done = 0 /\ call[c].args.notes \in Seq(Notes)
          /\ pc'[c] \in {"note", "raised", "KeyError"}
      BY <1>0, <1>1, NotesTyped DEF AddItem, NotesCounted, Types, Called, CallRecords
    <2>2. CASE item' = [item EXCEPT ![c] = i]
      <3>1. item'[c] = i
        BY <1>0, <2>2 DEF ItemsTyped
      <3>2. i.notes = <<>> /\ i.track = local[c].track
        OBVIOUS
      <3> QED BY <2>1, <3>1, <3>2, EmptyPrefix DEF Looked
    <2>3. CASE item' = item
      BY <1>1, <2>3 DEF AddItem, ItemsAreOwn, Looked
    <2> QED BY <1>1, <2>2, <2>3 DEF AddItem
  <1>2. CASE AddNote(c)
    <2>1. /\ call' = call /\ pc[c] = "note" /\ pc'[c] \in {"note", "raised", "KeyError"}
          /\ local'[c].track = local[c].track
      BY <1>0, <1>2, OthersStay DEF AddNote, Look
    <2>2. CASE item' = item /\ local' = local /\ pc'[c] = "KeyError"
      BY <1>0, <2>1, <2>2 DEF ItemsAreOwn, Looked
    <2>3. CASE item' = [item EXCEPT ![c] = WithNote(@, NextNote(c))]
               /\ local' = [local EXCEPT ![c].done = @ + 1]
      <3>1. item'[c] = WithNote(item[c], NextNote(c)) /\ item[c] # None
        BY <1>0, <2>3 DEF ItemsTyped, WithNote
      <3>2. /\ item[c] \in Items /\ item[c].track = local[c].track
            /\ IsPrefix(item[c].notes, call[c].args.notes) /\ Len(item[c].notes) = local[c].done
        BY <1>0, <2>1, <3>1 DEF ItemsTyped, ItemsAreOwn
      <3>3. /\ item'[c].track = item[c].track
            /\ item'[c].notes = Append(item[c].notes, call[c].args.notes[Len(item[c].notes) + 1])
        BY <3>1, <3>2 DEF WithNote, Items, NextNote
      <3>4. item[c].notes \in Seq(Notes) /\ call[c].args.notes \in Seq(Notes)
            /\ Len(item[c].notes) < Len(call[c].args.notes)
        BY <1>2, <2>1, <3>2, NotesTyped DEF Items, Types, Called, CallRecords, AddNote, MoreNotes
      <3>5. IsPrefix(item'[c].notes, call[c].args.notes) /\ Len(item'[c].notes) = local[c].done + 1
        BY <3>2, <3>3, <3>4, PrefixGrows
      <3>6. local'[c].done = local[c].done + 1
        BY <1>0, <2>3 DEF LocalTyped, LocalRecords
      <3> QED BY <2>1, <3>2, <3>3, <3>5, <3>6 DEF Looked
    <2> QED BY <1>0, <1>2, <2>2, <2>3 DEF AddNote
  <1>3. CASE NotesDone(c)
    <2>1. /\ call' = call /\ local' = local /\ pc[c] = "note" /\ pc'[c] \in {"ok", "raised"}
          /\ item[c] # None /\ item'[c] = [item[c] EXCEPT !.sorted = TRUE]
      BY <1>0, <1>3 DEF NotesDone, ItemsTyped
    <2>2. item[c] \in Items /\ item'[c].track = item[c].track /\ item'[c].notes = item[c].notes
      BY <1>0, <2>1 DEF ItemsTyped, Items
    <2> QED BY <2>1, <2>2 DEF ItemsAreOwn, Looked
  <1>4. CASE ~AddItem(c) /\ ~AddNote(c) /\ ~NotesDone(c)
    <2>1. item'[c] = item[c]
      BY <1>4, OwnSteps
    <2>2. /\ pc[c] \in Looked \ {"item"} /\ item[c].track = local[c].track
          /\ IsPrefix(item[c].notes, call[c].args.notes)
          /\ pc[c] = "note" => Len(item[c].notes) = local[c].done
      BY <2>1 DEF ItemsAreOwn
    <2>3. local'[c].done = local[c].done /\ (pc[c] # "note" => pc'[c] # "note")
      BY <1>4, OwnSteps
    <2>4. local'[c].track = local[c].track /\ pc'[c] \in Looked /\ call'[c] = call[c]
      BY <2>2, OthersStay, CallsGoOn DEF Look, Looked, Types
    <2>5. pc'[c] # "item"
      <3>1. ASSUME NEW d \in Calls, OpenProject(d) PROVE pc'[c] # "item"
        BY <1>0, <2>2, <3>1 DEF OpenProject, Looked
      <3>2. ASSUME NEW d \in Calls, ToolStep(d), ~OpenProject(d) PROVE pc'[c] # "item"
        BY <1>0, <2>2, <3>2 DEF ToolStep, CountTracks, AddTrack, Report, ListTracks, Look, AddItem, AddNote,
                              NotesDone, Save, Fails, Looked
      <3>3. ASSUME NEW d \in Calls, NEW tool \in Tools, NEW args \in Arguments[tool], Call(d, tool, args)
            PROVE  pc'[c] = pc[c]
        BY <1>0, <2>2, <3>3 DEF Call, Looked
      <3>4. CASE Edit \/ UNCHANGED vars
        BY <2>2, <3>4 DEF Edit, vars
      <3> QED BY <2>2, <3>1, <3>2, <3>3, <3>4 DEF Next
    <2> QED BY <2>1, <2>2, <2>3, <2>4, <2>5
  <1> QED BY <1>1, <1>2, <1>3, <1>4

\* A file is written by a save that was let through and that named it.
LEMMA NextFilesAreNamed ==
    ASSUME Types, FilesAreNamed, [Next]_vars
    PROVE  FilesAreNamed'
  <1> SUFFICES ASSUME NEW f \in Files, NEW c \in Calls, savedBy'[f] = c
               PROVE  pc'[c] \notin {"new", "blocked"} /\ call'[c].tool = "save_project_as" /\ call'[c].args.file = f
    BY DEF FilesAreNamed
  <1>0. PCsTyped /\ FilesTyped
    BY TypeParts DEF Types
  <1>1. CASE savedBy[f] = c
    <2>1. pc[c] \notin {"new", "blocked"} /\ call[c].tool = "save_project_as" /\ call[c].args.file = f
      BY <1>1 DEF FilesAreNamed
    <2>2. call'[c] = call[c] /\ pc'[c] # "new"
      BY <2>1, CallsGoOn DEF Types
    <2>3. pc'[c] # "blocked"
      <3>1. ASSUME NEW d \in Calls, ToolStep(d) PROVE pc'[c] # "blocked"
        <4>1. CASE OpenProject(d)
          BY <1>0, <2>1, <4>1 DEF OpenProject, FirstStep, Types, Called, CallRecords, Tools, At, Ends, PCsTyped
        <4>2. CASE ~OpenProject(d)
          BY <1>0, <2>1, <3>1, <4>2 DEF ToolStep, CountTracks, AddTrack, Report, ListTracks, Look, AddItem,
             AddNote, NotesDone, Save, Fails, At, Ends, Returns, PCsTyped
        <4> QED BY <4>1, <4>2
      <3>2. ASSUME NEW d \in Calls, NEW tool \in Tools, NEW args \in Arguments[tool], Call(d, tool, args)
            PROVE  pc'[c] = pc[c]
        BY <1>0, <2>1, <3>2 DEF Call, PCsTyped
      <3>3. CASE Edit \/ UNCHANGED vars
        BY <2>1, <3>3 DEF Edit, vars
      <3> QED BY <2>1, <3>1, <3>2, <3>3 DEF Next
    <2> QED BY <2>1, <2>2, <2>3
  <1>2. CASE savedBy[f] # c
    <2>1. PICK d \in Calls : Save(d)
      BY <1>2 DEF Next, Call, ToolStep, OpenProject, CountTracks, AddTrack, Report, ListTracks, Look, AddItem,
         AddNote, NotesDone, Fails, Edit, vars
    <2>2. d = c /\ call[c].args.file = f /\ pc'[c] \in {"ok", "raised"} /\ call' = call
      BY <1>0, <1>2, <2>1 DEF Save, FilesTyped, Ends, Returns, PCsTyped
    <2>3. call[c].tool = "save_project_as"
      BY <2>1, <2>2 DEF Save, At, Types, Called, CallRecords, PCsOf, Tools
    <2> QED BY <2>2, <2>3
  <1> QED BY <1>1, <1>2

\* A call gets to the end of what it does by its own last step.
LEMMA EndsWell ==
    ASSUME Types, [Next]_vars, NEW c \in Calls, pc'[c] \in {"report", "ok", "note"}
    PROVE  \/ pc[c] = pc'[c] /\ ~NotesDone(c)
           \/ pc'[c] = "report" /\ AddTrack(c)
           \/ pc'[c] = "note" /\ AddItem(c)
           \/ pc'[c] = "ok" /\ (Report(c) \/ NotesDone(c) \/ Save(c))
  <1>0. PCsTyped
    BY TypeParts DEF Types
  <1> USE DEF At, Ends, Returns, PCsTyped
  <1> SUFFICES ASSUME pc[c] # pc'[c] \/ NotesDone(c)
               PROVE  \/ pc'[c] = "report" /\ AddTrack(c)
                      \/ pc'[c] = "note" /\ AddItem(c)
                      \/ pc'[c] = "ok" /\ (Report(c) \/ NotesDone(c) \/ Save(c))
    OBVIOUS
  <1>1. CASE NotesDone(c)
    BY <1>0, <1>1 DEF NotesDone
  <1>2. CASE pc[c] # pc'[c]
    <2>1. ASSUME NEW d \in Calls, ToolStep(d) PROVE d = c
      BY <1>0, <1>2, <2>1 DEF ToolStep, OpenProject, CountTracks, AddTrack, Report, ListTracks, Look, AddItem,
         AddNote, NotesDone, Save, Fails
    <2>2. CASE ToolStep(c)
      <3>1. CASE OpenProject(c)
        BY <1>0, <3>1 DEF OpenProject, FirstStep, Types, Called, CallRecords, Tools
      <3>2. CASE CountTracks(c) \/ ListTracks(c) \/ Look(c) \/ AddNote(c) \/ Fails(c)
        BY <1>0, <1>2, <3>2 DEF CountTracks, ListTracks, Look, AddNote, Fails
      <3>3. CASE AddTrack(c) \/ AddItem(c)
        BY <1>0, <3>3 DEF AddTrack, AddItem
      <3>4. CASE Report(c) \/ NotesDone(c) \/ Save(c)
        BY <1>0, <3>4 DEF Report, NotesDone, Save
      <3> QED BY <2>2, <3>1, <3>2, <3>3, <3>4 DEF ToolStep
    <2>3. ASSUME NEW d \in Calls, NEW tool \in Tools, NEW args \in Arguments[tool], Call(d, tool, args)
          PROVE  FALSE
      BY <1>0, <1>2, <2>3 DEF Call
    <2>4. CASE Edit \/ UNCHANGED vars
      BY <1>2, <2>4 DEF Edit, vars
    <2> QED BY <2>1, <2>2, <2>3, <2>4 DEF Next
  <1> QED BY <1>1, <1>2

\* A track that was in the list is there or has been removed by the user.
LEMMA TracksKept ==
    ASSUME Types, [Next]_vars
    PROVE  /\ \A t \in Range(order) : t \in Range(order') \/ t \in history'.removed
           /\ \A c \in Calls : AddTrack(c) => c \in Range(order')
  <1>0. TracksTyped /\ HistoryTyped /\ LocalTyped
    BY TypeParts DEF Types
  <1>1. ASSUME NEW c \in Calls, pc[c] = "add", NEW n \in 0..Len(order), order' = InsertAt(order, n + 1, c)
        PROVE  Range(order') = Range(order) \cup {c}
    <2> DEFINE i == n + 1
    <2>1. c \in Ids /\ c \notin Range(order) /\ i \in 1..(Len(order) + 1)
      BY <1>0, <1>1 DEF Types, TracksAreCreated, Early, TracksTyped, Ids
    <2> HIDE DEF i
    <2>2. Range(InsertAt(order, i, c)) = Range(order) \cup {c}
      BY <1>0, <2>1, RangeInserted DEF TracksTyped
    <2> QED BY <1>1, <2>2 DEF i
  <1>2. ASSUME NEW c \in Calls, AddTrack(c) PROVE Range(order') = Range(order) \cup {c}
    <2>1. PICK n \in 0..Len(order) : order' = InsertAt(order, n + 1, c)
      BY <1>0, <1>2 DEF AddTrack, TracksTyped, LocalTyped, LocalRecords
    <2> QED BY <1>1, <1>2, <2>1 DEF AddTrack, At
  <1>3. ASSUME NEW t \in UserTracks, NEW i \in 1..(Len(order) + 1), Insert(t, i)
        PROVE  Range(order) \subseteq Range(order')
    BY <1>0, <1>3, RangeInserted DEF Insert, TracksTyped, Ids
  <1>4. ASSUME NEW i \in DOMAIN order, Delete(i)
        PROVE  Range(order') = Range(order) \ {order[i]} /\ order[i] \in history'.removed
    BY <1>0, <1>4, RangeRemoved DEF Delete, TracksTyped, HistoryTyped
  <1> QED BY TracksNext, <1>2, <1>3, <1>4 DEF Types, Rename

\* An item that gets a note is still an item.
LEMMA NextItemMade ==
    ASSUME Types, NEW c \in Calls, AddNote(c), item' = [item EXCEPT ![c] = WithNote(@, NextNote(c))], item[c] # None
    PROVE  item'[c] # None
  <1>1. ItemsTyped /\ c \in Owners /\ item[c] \in Items
    BY TypeParts DEF Types, Owners, ItemsTyped
  <1>2. NextNote(c) \in Notes
    BY NextNoteTyped DEF Types
  <1>3. item'[c] = WithNote(item[c], NextNote(c))
    BY <1>1 DEF ItemsTyped
  <1>4. WithNote(item[c], NextNote(c)) \in Items
    BY <1>1, <1>2, OneMoreNote DEF WithNote
  <1> QED BY <1>3, <1>4, NoneApart

\* What a call has made is there until the user removes it.
LEMMA NextMadeIsThere ==
    ASSUME Types, NotesCounted, ItemsAreOwn, MadeIsThere, [Next]_vars
    PROVE  MadeIsThere'
  <1> SUFFICES ASSUME NEW c \in Calls, pc'[c] \in {"report", "ok", "note"}
               PROVE  /\ pc'[c] # "note" /\ call'[c].tool = "create_track" =>
                            c \in Range(order') \cup history'.removed
                      /\ pc'[c] = "note" => item'[c] # None \/ c \in history'.removed
                      /\ pc'[c] = "ok" /\ call'[c].tool = "write_generated_midi" =>
                            \/ c \in history'.removed
                            \/ item'[c] # None /\ item'[c].notes = call'[c].args.notes /\ item'[c].sorted
                      /\ pc'[c] = "ok" /\ call'[c].tool = "save_project_as" =>
                            savedBy'[call'[c].args.file] \in Calls
    BY DEF MadeIsThere, Tool
  <1>0. PCsTyped /\ ItemsTyped /\ FilesTyped /\ LocalTyped /\ c \in Owners /\ history.removed \subseteq history'.removed
    BY TypeParts, HistoryGrows DEF Types, Owners
  <1>1. pc[c] # "new" /\ call'[c] = call[c] /\ call[c] \in CallRecords /\ pc[c] \in PCsOf(call[c].tool)
    <2>1. pc[c] # "new"
      BY EndsWell DEF AddTrack, AddItem, Report, NotesDone, Save, At
    <2> QED BY <2>1, CallsGoOn DEF Types, Called
  <1>2. call[c].args.notes \in Seq(Notes) /\ call[c].args.file \in Files
    BY <1>1, NotesTyped DEF CallRecords, Args
  <1>3. ASSUME pc'[c] # "note", call[c].tool = "create_track" PROVE c \in Range(order') \cup history'.removed
    <2>1. CASE AddTrack(c)
      BY <2>1, TracksKept
    <2>2. CASE ~AddTrack(c)
      <3>1. pc[c] \in {"report", "ok"}
        BY <1>1, <1>3, <2>2, EndsWell DEF Report, NotesDone, Save, At, PCsOf
      <3>2. c \in Range(order) \cup history.removed
        BY <1>1, <1>3, <3>1 DEF MadeIsThere, Tool
      <3> QED BY <1>0, <3>2, TracksKept
    <2> QED BY <2>1, <2>2
  <1>4. ASSUME pc'[c] = "note" PROVE item'[c] # None \/ c \in history'.removed
    <2>1. CASE AddItem(c)
      <3>1. local[c].track \in Ids
        BY <1>0, <2>1 DEF AddItem, At, LocalTyped
      <3>2. item'[c] = [track |-> local[c].track, notes |-> <<>>, sorted |-> TRUE]
        BY <1>0, <1>4, <2>1 DEF AddItem, Ends, Returns, PCsTyped, ItemsTyped
      <3>3. item'[c] \in Items
        BY <3>1, <3>2 DEF Items
      <3> QED BY <3>3, NoneApart
    <2>2. CASE ~AddItem(c)
      <3>1. pc[c] = "note" /\ ~NotesDone(c) /\ (item[c] # None \/ c \in history.removed)
        BY <1>4, <2>2, EndsWell DEF MadeIsThere
      <3>2. CASE AddNote(c)
        <4>1. CASE item' = item
          BY <1>0, <3>1, <4>1
        <4>2. CASE item' = [item EXCEPT ![c] = WithNote(@, NextNote(c))]
          <5>1. CASE item[c] = None
            BY <1>0, <3>1, <5>1
          <5>2. CASE item[c] # None
            BY <1>0, <3>2, <4>2, <5>2, NextItemMade
          <5> QED BY <5>1, <5>2
        <4> QED BY <3>2, <4>1, <4>2 DEF AddNote
      <3>3. CASE ~AddNote(c)
        BY <1>0, <2>2, <3>1, <3>3, OwnSteps
      <3> QED BY <3>2, <3>3
    <2> QED BY <2>1, <2>2
  <1>5. ASSUME pc'[c] = "ok", call[c].tool = "write_generated_midi"
        PROVE  \/ c \in history'.removed
               \/ item'[c] # None /\ item'[c].notes = call[c].args.notes /\ item'[c].sorted
    <2>1. CASE NotesDone(c)
      <3>1. CASE item[c] = None
        BY <1>0, <2>1, <3>1 DEF NotesDone, At, MadeIsThere
      <3>2. CASE item[c] # None
        <4>1. item[c] \in Items /\ item'[c] = [item[c] EXCEPT !.sorted = TRUE]
          BY <1>0, <2>1, <3>2 DEF NotesDone, ItemsTyped
        <4>2. item'[c] \in Items /\ item'[c].notes = item[c].notes /\ item'[c].sorted
          BY <4>1 DEF Items
        <4>3. /\ IsPrefix(item[c].notes, call[c].args.notes) /\ Len(item[c].notes) = local[c].done
              /\ local[c].done <= Len(call[c].args.notes) /\ ~(local[c].done < Len(call[c].args.notes))
          BY <2>1, <3>2 DEF NotesDone, At, MoreNotes, ItemsAreOwn, NotesCounted
        <4>4. item[c].notes = call[c].args.notes
          BY <1>2, <4>1, <4>3, WholePrefix DEF Items
        <4> QED BY <4>2, <4>4, NoneApart
      <3> QED BY <3>1, <3>2
    <2>2. CASE ~NotesDone(c)
      <3>1. pc[c] = "ok"
        BY <1>1, <1>5, <2>2, EndsWell DEF Report, Save, At, PCsOf
      <3>2. \/ c \in history.removed
            \/ item[c] # None /\ item[c].notes = call[c].args.notes /\ item[c].sorted
        BY <1>5, <3>1 DEF MadeIsThere, Tool
      <3>3. item'[c] = item[c] \/ (item'[c] = None /\ c \in history'.removed)
        BY <2>2, <3>1, OwnSteps DEF AddItem, AddNote, At
      <3> QED BY <1>0, <3>2, <3>3
    <2> QED BY <2>1, <2>2
  <1>6. ASSUME pc'[c] = "ok", call[c].tool = "save_project_as" PROVE savedBy'[call[c].args.file] \in Calls
    <2>1. CASE Save(c)
      BY <1>0, <1>2, <2>1 DEF Save, FilesTyped
    <2>2. CASE ~Save(c)
      <3>1. pc[c] = "ok"
        BY <1>1, <1>6, <2>2, EndsWell DEF Report, NotesDone, At, PCsOf
      <3>2. savedBy[call[c].args.file] \in Calls
        BY <1>6, <3>1 DEF MadeIsThere, Tool
      <3>3. savedBy' = savedBy \/ \E d \in Calls : savedBy' = [savedBy EXCEPT ![call[d].args.file] = d]
        BY DEF Next, Call, ToolStep, OpenProject, CountTracks, AddTrack, Report, ListTracks, Look, AddItem,
               AddNote, NotesDone, Save, Fails, Edit, vars
      <3> QED BY <1>0, <1>2, <3>2, <3>3 DEF FilesTyped
    <2> QED BY <2>1, <2>2
  <1> QED BY <1>1, <1>3, <1>4, <1>5, <1>6

-----------------------------------------------------------------------------
(* The theorems *)

IInv == /\ Types
        /\ FoundTracks /\ ItemsAreOwn /\ NotesCounted /\ MadeIsThere /\ FilesAreNamed /\ CountsCover

\* The invariant holds at first and is kept by every step.
LEMMA Inductive == Spec => []IInv
  <1>1. Init => IInv
    <2> SUFFICES ASSUME Init PROVE IInv
      OBVIOUS
    <2>1. Types
      <3>1. Range(order) \subseteq UserTracks
        BY InitialType DEF Init, Range
      <3> QED BY InitTyped, <3>1, CallsType DEF Types, TracksAreCreated
    <2>2. FoundTracks /\ NotesCounted /\ CountsCover
      BY DEF Init, FoundTracks, NotesCounted, CountsCover
    <2>3. ItemsAreOwn
      BY CallsType DEF Init, ItemsAreOwn, Owners
    <2>4. MadeIsThere
      BY DEF Init, MadeIsThere
    <2>5. FilesAreNamed
      BY CallsType DEF Init, FilesAreNamed, Owners
    <2> QED BY <2>1, <2>2, <2>3, <2>4, <2>5 DEF IInv
  <1>2. IInv /\ [Next]_vars => IInv'
    <2> SUFFICES ASSUME IInv, [Next]_vars PROVE IInv'
      OBVIOUS
    <2>1. Types'
      BY NextTyped DEF IInv, Types
    <2>2. FoundTracks' /\ CountsCover' /\ FilesAreNamed'
      BY NextFound, NextCountsCover, NextFilesAreNamed DEF IInv
    <2>3. NotesCounted' /\ ItemsAreOwn' /\ MadeIsThere'
      BY NextNotesCounted, NextItemsAreOwn, NextMadeIsThere DEF IInv
    <2> QED BY <2>1, <2>2, <2>3 DEF IInv
  <1> QED BY <1>1, <1>2, PTL DEF Spec

\* Tracks, items and what the calls hold of them are what they should be; items are on
\* tracks of the project, and no track is in it twice.
THEOREM TypeCorrect == Spec => []TypeOK
  <1>1. IInv => TypeOK
    BY DEF IInv, Types
  <1> QED BY Inductive, <1>1, PTL

\* Generated MIDI goes to GEN- tracks alone, for any number of calls and edits.
THEOREM MidiOnGenTracks == Spec => []GeneratedMidiOnGenTracks
  <1>1. IInv => GeneratedMidiOnGenTracks
    <2> SUFFICES ASSUME IInv, NEW c \in Calls, item[c] # None, item[c].track \notin history.renamed
                 PROVE  name[item[c].track] \in GenNames
      BY DEF GeneratedMidiOnGenTracks
    <2>1. item[c].track = local[c].track /\ pc[c] \notin {"new", "blocked"}
      BY DEF IInv, ItemsAreOwn, Looked
    <2>2. local[c].track # None
      <3>1. item[c].track \in Ids
        BY TypeParts DEF IInv, Types, ItemsTyped, TracksTyped, Range, Owners
      <3> QED BY <2>1, <3>1, NoneApart
    <2>3. call[c].tool = "write_generated_midi" /\ name[local[c].track] = call[c].args.track
      BY <2>1, <2>2 DEF IInv, FoundTracks
    <2>4. call[c].args.track \in GenNames
      BY <2>1, <2>3, Gated DEF IInv, Types
    <2> QED BY <2>1, <2>3, <2>4
  <1> QED BY Inductive, <1>1, PTL

\* Nothing is created or saved that the user has not asked for or approved, and that
\* the name does not allow.
THEOREM Wanted == Spec => []ChangesAreWanted
  <1>1. IInv => ChangesAreWanted
    <2> SUFFICES ASSUME IInv PROVE ChangesAreWanted
      OBVIOUS
    <2>1. ASSUME NEW c \in Calls, c \in Range(order)
          PROVE  call[c].args.approved \/ call[c].args.track \in GenNames
      BY <2>1, Gated DEF IInv, Types, TracksAreCreated, Early
    <2>2. ASSUME NEW f \in Files, savedBy[f] \in Calls
          PROVE  LET args == call[savedBy[f]].args IN args.file = f /\ (args.requested \/ args.approved)
      BY <2>2, Gated DEF IInv, Types, FilesAreNamed
    <2> QED BY <2>1, <2>2 DEF ChangesAreWanted
  <1> QED BY Inductive, <1>1, PTL

\* Whatever fails, an item holds the notes asked for up to some point.
THEOREM NotesInOrder == Spec => []ItemsHoldPrefixes
  <1>1. IInv => ItemsHoldPrefixes
    BY DEF IInv, ItemsAreOwn, ItemsHoldPrefixes
  <1> QED BY Inductive, <1>1, PTL

\* A tool that returns has done what it was called for, unless the user has undone it.
THEOREM Succeeded == Spec => []SuccessIsReal
  <1>1. IInv => SuccessIsReal
    <2> SUFFICES ASSUME IInv, NEW c \in Calls, pc[c] = "ok"
                 PROVE  CASE Tool(c) = "create_track" -> c \in Range(order) \cup history.removed
                          [] Tool(c) = "write_generated_midi" ->
                                \/ c \in history.removed
                                \/ item[c] # None /\ item[c].notes = call[c].args.notes /\ item[c].sorted
                          [] Tool(c) = "save_project_as" -> savedBy[call[c].args.file] \in Calls
      BY DEF SuccessIsReal
    <2>1. Tool(c) \in Tools
      BY DEF IInv, Types, Called, CallRecords, Tool
    <2>2. CASE Tool(c) = "create_track"
      BY <2>2 DEF IInv, MadeIsThere
    <2>3. CASE Tool(c) = "write_generated_midi"
      BY <2>3 DEF IInv, MadeIsThere
    <2>4. CASE Tool(c) = "save_project_as"
      BY <2>4 DEF IInv, MadeIsThere
    <2> QED BY <2>1, <2>2, <2>3, <2>4 DEF Tools
  <1> QED BY Inductive, <1>1, PTL

\* New tracks come after all of the user's, as long as the user inserts none while a
\* call stands between counting and adding.
THEOREM InFront == Spec => UsersTracksStayInFront
  <1>1. IInv /\ [Next]_vars =>
           [\A c \in Calls \cap Range(order') :
               c \notin Range(order) /\ ~history.inserted =>
                  \A i, j \in DOMAIN order' : order'[i] = c /\ order'[j] \in UserTracks => j < i]_vars
    <2> SUFFICES ASSUME IInv, [Next]_vars, NEW c \in Calls, c \in Range(order'), c \notin Range(order),
                        ~history.inserted,
                        NEW i \in DOMAIN order', NEW j \in DOMAIN order', order'[i] = c, order'[j] \in UserTracks
                 PROVE  j < i
      OBVIOUS
    <2>1. TracksTyped /\ order \in Seq(Ids) /\ c \in Ids /\ UserTracks \cap Calls = {}
      BY TypeParts, CallsType DEF IInv, Types, TracksTyped, Ids
    <2>2. AddTrack(c)
      BY <2>1, NewTracks DEF IInv, Types
    <2>3. PICK n \in 0..Len(order) : order' = InsertAt(order, n + 1, c) /\ (n = Len(order) \/ n = local[c].count)
      <3>1. local[c].count \in Nat
        BY TypeParts DEF IInv, Types, LocalTyped, LocalRecords
      <3> QED BY <2>1, <2>2, <3>1 DEF AddTrack
    <2>4. \A k \in DOMAIN order : order[k] \in UserTracks => k <= n
      BY <2>1, <2>2, <2>3 DEF IInv, CountsCover, AddTrack, At
    <2> DEFINE m == n + 1
    <2>5. m \in 1..(Len(order) + 1) /\ n = m - 1
      BY <2>1, <2>3
    <2> HIDE DEF m
    <2>6. /\ Len(InsertAt(order, m, c)) = Len(order) + 1 /\ InsertAt(order, m, c) \in Seq(Ids)
          /\ \A k \in 1..(Len(order) + 1) : InsertAt(order, m, c)[k] =
                IF k < m THEN order[k] ELSE IF k = m THEN c ELSE order[k - 1]
      BY <2>1, <2>5, Inserted
    <2>7. order' = InsertAt(order, m, c) /\ i \in 1..(Len(order) + 1) /\ j \in 1..(Len(order) + 1)
      BY <2>3, <2>6 DEF m
    <2>8. i = m
      <3>1. \A k \in 1..Len(order) : order[k] # c
        BY <2>1 DEF Range
      <3>2. CASE i < m
        BY <2>1, <2>5, <2>6, <2>7, <3>1, <3>2
      <3>3. CASE i > m
        <4>1. i - 1 \in 1..Len(order) /\ order'[i] = order[i - 1]
          BY <2>1, <2>5, <2>6, <2>7, <3>3
        <4> QED BY <3>1, <4>1
      <3> QED BY <2>5, <2>7, <3>2, <3>3
    <2>9. ~(j > m)
      <3> SUFFICES ASSUME j > m PROVE FALSE
        OBVIOUS
      <3>1. j - 1 \in DOMAIN order /\ order'[j] = order[j - 1] /\ ~(j - 1 <= n)
        BY <2>1, <2>5, <2>6, <2>7
      <3> QED BY <2>4, <3>1
    <2>10. j # m
      BY <2>1, <2>6, <2>7
    <2> QED BY <2>5, <2>7, <2>8, <2>9, <2>10
  <1> QED BY Inductive, <1>1, PTL DEF Spec, UsersTracksStayInFront

\* A reapy call of a tool adds the tool's own track to the list or nothing, and
\* fills the tool's own item or none: the user's tracks and what other calls made
\* are never touched, for any number of calls, tracks and tunes.
THEOREM OthersUntouched == Spec => OthersMaterialUntouched
  <1>1. ASSUME IInv, NEW c \in Calls, ToolStep(c)
        PROVE  /\ order' = order \/ \E i \in DOMAIN order' : order'[i] = c /\ RemoveAt(order', i) = order
               /\ \A t \in Ids \ {c} : name'[t] = name[t]
               /\ \A o \in Owners \ {c} : item'[o] = item[o]
    <2>0. TracksTyped /\ ItemsTyped /\ LocalTyped /\ c \in Ids
      BY <1>1, TypeParts DEF IInv, Types, Ids
    <2>1. CASE AddTrack(c)
      <3>1. PICK n \in 0..Len(order) : order' = InsertAt(order, n + 1, c)
        <4>1. local[c].count \in Nat /\ Len(order) \in Nat
          BY <2>0 DEF LocalTyped, LocalRecords, TracksTyped
        <4> QED BY <2>1, <4>1 DEF AddTrack
      <3> DEFINE m == n + 1
      <3>2. order \in Seq(Ids) /\ m \in 1..(Len(order) + 1)
        BY <2>0 DEF TracksTyped
      <3> HIDE DEF m
      <3>3. /\ InsertAt(order, m, c) \in Seq(Ids) /\ Len(InsertAt(order, m, c)) = Len(order) + 1
            /\ InsertAt(order, m, c)[m] = c /\ RemoveAt(InsertAt(order, m, c), m) = order
        BY <2>0, <3>2, Inserted, InsertedRemoved
      <3>4. order' = InsertAt(order, m, c)
        BY <3>1 DEF m
      <3>5. m \in DOMAIN order' /\ order'[m] = c /\ RemoveAt(order', m) = order
        BY <3>2, <3>3, <3>4
      <3>6. item' = item /\ name' = [name EXCEPT ![c] = call[c].args.track]
        BY <2>1 DEF AddTrack
      <3> QED BY <2>0, <3>5, <3>6 DEF TracksTyped
    <2>2. CASE AddItem(c) \/ AddNote(c) \/ NotesDone(c)
      <3>1. UNCHANGED <<order, name>>
        BY <2>2 DEF AddItem, AddNote, NotesDone
      <3>2. \A o \in Owners \ {c} : item'[o] = item[o]
        BY <2>0, <2>2 DEF AddItem, AddNote, NotesDone, ItemsTyped
      <3> QED BY <3>1, <3>2
    <2>3. CASE \/ OpenProject(c) \/ CountTracks(c) \/ Report(c) \/ ListTracks(c)
               \/ Look(c) \/ Save(c) \/ Fails(c)
      <3>1. UNCHANGED <<order, name, item>>
        BY <2>3 DEF OpenProject, CountTracks, Report, ListTracks, Look, Save, Fails, project
      <3> QED BY <3>1
    <2> QED BY <1>1, <2>1, <2>2, <2>3 DEF ToolStep
  <1>2. IInv =>
           [\A c \in Calls : ToolStep(c) =>
              /\ order' = order \/ \E i \in DOMAIN order' : order'[i] = c /\ RemoveAt(order', i) = order
              /\ \A t \in Ids \ {c} : name'[t] = name[t]
              /\ \A o \in Owners \ {c} : item'[o] = item[o]]_vars
    BY <1>1
  <1> QED BY Inductive, <1>2, PTL DEF Spec, OthersMaterialUntouched
================================================================================
