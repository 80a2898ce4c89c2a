-------------------------- MODULE RecordSourceProofs --------------------------
(***************************************************************************)
(* sources.json only grows, for any number of runs, urls and allowlist, as *)
(* long as no two runs overlap and none dies while writing.  The invariant *)
(* says why: then at most one run is between reading and having written,   *)
(* and what it is about to write is the log with its own entry added.      *)
(* What is in the file was let through by the allowlist or by --force, in  *)
(* any case; and the Policy Engine lets through as much.                   *)
(***************************************************************************)
EXTENDS RecordSource, TLAPS

Busy(r) == pc[r] \in {"ready", "opened"}

\* A log without accidents: one run at a time is past reading, and it holds the
\* log, which it has not touched or has just emptied.
InTurn ==
    clean /\ initial # Corrupt =>
        /\ file # Corrupt
        /\ \A r, s \in Runs : Busy(r) /\ Busy(s) => r = s
        /\ \A r \in Runs : pc[r] = "ready" => entries[r] = Append(EntriesIn(file), Entry(r))
        /\ \A r \in Runs : pc[r] = "opened" =>
              file = <<>> /\ \E log \in Seq(Entries) : entries[r] = Append(log, Entry(r))

\* A file that was no JSON at first: no run gets past reading it.
Kept == initial = Corrupt => file = Corrupt /\ \A r \in Runs : ~Busy(r)

\* Every entry is one of a run that may be recorded.
LEMMA EntryTyped ==
    ASSUME TypeOK, NEW r \in Runs
    PROVE  Entry(r) \in Entries /\ (args' = args => Entry(r)' = Entry(r))
  BY DEF TypeOK, Entry, Entries

\* A readable file is a list of entries, absent or not.
LEMMA EntriesTyped ==
    ASSUME NEW f, f = Absent \/ f \in Seq(Entries)
    PROVE  EntriesIn(f) \in Seq(Entries)
  BY FilesType DEF EntriesIn

\* Without the entry that was appended, the list is what it was.
LEMMA FrontOfAppend ==
    ASSUME NEW s \in Seq(Entries), NEW e \in Entries
    PROVE  Front(Append(s, e)) = s
  BY DEF Front

\* The log while one run has the file open, and while none has.
LEMMA LogWhenOpened ==
    ASSUME NEW f, NEW p, NEW e, NEW r \in Runs, p[r] = "opened",
           \A s \in Runs : p[s] = "opened" => s = r
    PROVE  LogOf(f, p, e) = Front(e[r])
  <1>1. (CHOOSE s \in Runs : p[s] = "opened") = r
    OBVIOUS
  <1> QED BY <1>1 DEF LogOf

LEMMA LogWhenClosed ==
    ASSUME NEW f, NEW p, NEW e, \A s \in Runs : p[s] # "opened"
    PROVE  LogOf(f, p, e) = EntriesIn(f)
  BY DEF LogOf

\* At first nobody is past reading.
LEMMA InitOK == Init => TypeOK /\ InTurn /\ Kept
  BY FilesType DEF Init, TypeOK, InTurn, Kept, Busy, PCs

\* Types are kept by every step.
LEMMA NextTyped == TypeOK /\ [Next]_vars => TypeOK'
  <1> SUFFICES ASSUME TypeOK, [Next]_vars PROVE TypeOK'
    OBVIOUS
  <1>1. ASSUME NEW r \in Runs, Start(r) PROVE TypeOK'
    BY <1>1 DEF TypeOK, Start, Step, PCs
  <1>2. ASSUME NEW r \in Runs, Read(r) PROVE TypeOK'
    <2>1. CASE file = Corrupt
      BY <1>2, <2>1 DEF TypeOK, Read, Step, PCs
    <2>2. CASE file # Corrupt
      <3>1. Append(EntriesIn(file), Entry(r)) \in Seq(Entries)
        BY <2>2, EntriesTyped, EntryTyped DEF TypeOK
      <3> QED BY <1>2, <2>2, <3>1 DEF TypeOK, Read, Step, PCs
    <2> QED BY <2>1, <2>2
  <1>3. ASSUME NEW r \in Runs, Open(r) PROVE TypeOK'
    BY <1>3 DEF TypeOK, Open, Step, PCs
  <1>4. ASSUME NEW r \in Runs, Write(r) PROVE TypeOK'
    BY <1>4 DEF TypeOK, Write, Step, PCs
  <1>5. ASSUME NEW r \in Runs, Crash(r) PROVE TypeOK'
    BY <1>5 DEF TypeOK, Crash, PCs
  <1>6. CASE UNCHANGED vars
    BY <1>6 DEF TypeOK, vars
  <1> QED BY <1>1, <1>2, <1>3, <1>4, <1>5, <1>6 DEF Next

\* An unreadable file stays so: reading it ends the run.
LEMMA NextKept == TypeOK /\ Kept /\ [Next]_vars => Kept'
  <1> SUFFICES ASSUME TypeOK, Kept, [Next]_vars PROVE Kept'
    OBVIOUS
  <1> USE DEF TypeOK, Kept, Busy
  <1>1. ASSUME NEW r \in Runs, Start(r) PROVE Kept'
    BY <1>1 DEF Start, Step
  <1>2. ASSUME NEW r \in Runs, Read(r) PROVE Kept'
    BY <1>2 DEF Read, Step
  <1>3. ASSUME NEW r \in Runs, Open(r) PROVE Kept'
    BY <1>3 DEF Open, Step
  <1>4. ASSUME NEW r \in Runs, Write(r) PROVE Kept'
    BY <1>4 DEF Write, Step
  <1>5. ASSUME NEW r \in Runs, Crash(r) PROVE Kept'
    BY <1>5 DEF Crash
  <1>6. CASE UNCHANGED vars
    BY <1>6 DEF vars
  <1> QED BY <1>1, <1>2, <1>3, <1>4, <1>5, <1>6 DEF Next

\* One step of the log without accidents: the invariant stays, and the log is
\* as it was or longer by the entry of the run that recorded.
Grows == \/ Log' = Log
         \/ \E r \in Runs : pc'[r] = "recorded" /\ pc[r] # "recorded" /\ Log' = Append(Log, Entry(r))

LEMMA NextInTurn ==
    ASSUME TypeOK, InTurn, [Next]_vars, clean', initial # Corrupt
    PROVE  InTurn' /\ Grows
  <1> USE DEF TypeOK, Busy
  <1>0. /\ clean /\ initial' = initial
        /\ file # Corrupt
        /\ \A r, s \in Runs : Busy(r) /\ Busy(s) => r = s
        /\ \A r \in Runs : pc[r] = "ready" => entries[r] = Append(EntriesIn(file), Entry(r))
        /\ \A r \in Runs : pc[r] = "opened" =>
              file = <<>> /\ \E log \in Seq(Entries) : entries[r] = Append(log, Entry(r))
    <2>1. clean /\ initial' = initial
      BY DEF Next, Start, Read, Open, Write, Crash, vars
    <2> QED BY <2>1 DEF InTurn
  <1>a. \A s, t \in Runs : pc[s] = "opened" /\ pc[t] = "opened" => s = t
    BY <1>0
  \* Steps that touch neither the file nor who is past reading.
  <1>b. ASSUME UNCHANGED <<file, args, entries>>,
               \A s \in Runs : (pc'[s] = "opened" <=> pc[s] = "opened") /\ (pc'[s] = "ready" => pc[s] = "ready")
        PROVE  InTurn' /\ Grows
    <2>1. InTurn'
      <3>1. \A s \in Runs : Busy(s)' => Busy(s)
        BY <1>b
      <3>2. \A s \in Runs : Entry(s)' = Entry(s)
        BY <1>b DEF Entry
      <3> QED BY <1>0, <1>b, <3>1, <3>2 DEF InTurn
    <2>2. CASE \E s \in Runs : pc[s] = "opened"
      <3> PICK s \in Runs : pc[s] = "opened"
        BY <2>2
      <3>1. \A t \in Runs : pc[t] = "opened" => t = s
        BY <1>a
      <3>2. \A t \in Runs : pc'[t] = "opened" => t = s
        BY <1>b, <3>1
      <3>3. pc'[s] = "opened"
        BY <1>b
      <3>4. LogOf(file, pc, entries) = Front(entries[s])
        BY <3>1, LogWhenOpened
      <3>5. LogOf(file', pc', entries') = Front(entries'[s])
        BY <3>2, <3>3, LogWhenOpened
      <3> QED BY <1>b, <2>1, <3>4, <3>5 DEF Grows, Log
    <2>3. CASE \A s \in Runs : pc[s] # "opened"
      <3>1. LogOf(file, pc, entries) = EntriesIn(file)
        BY <2>3, LogWhenClosed
      <3>2. LogOf(file', pc', entries') = EntriesIn(file')
        BY <1>b, <2>3, LogWhenClosed
      <3> QED BY <1>b, <2>1, <3>1, <3>2 DEF Grows, Log
    <2> QED BY <2>2, <2>3
  <1>1. ASSUME NEW r \in Runs, Start(r) PROVE InTurn' /\ Grows
    BY <1>1, <1>b DEF Start, Step
  <1>2. ASSUME NEW r \in Runs, Read(r) PROVE InTurn' /\ Grows
    <2>1. /\ pc[r] = "reading" /\ pc' = [pc EXCEPT ![r] = "ready"]
          /\ entries' = [entries EXCEPT ![r] = Append(EntriesIn(file), Entry(r))]
          /\ UNCHANGED <<file, args>>
      BY <1>0, <1>2 DEF Read, Step
    <2>2. \A s \in Runs : ~Busy(s)
      BY <1>2 DEF Read
    <2>3. \A s \in Runs : pc[s] # "opened" /\ pc'[s] # "opened" /\ (Busy(s)' => s = r)
      BY <2>1, <2>2
    <2>4. Entry(r)' = Entry(r)
      BY <2>1 DEF Entry
    <2>5. InTurn'
      BY <1>0, <2>1, <2>3, <2>4 DEF InTurn
    <2>6. LogOf(file, pc, entries) = EntriesIn(file) /\ LogOf(file', pc', entries') = EntriesIn(file')
      BY <2>3, LogWhenClosed
    <2> QED BY <2>1, <2>5, <2>6 DEF Grows, Log
  <1>3. ASSUME NEW r \in Runs, Open(r) PROVE InTurn' /\ Grows
    <2>1. /\ pc[r] = "ready" /\ pc' = [pc EXCEPT ![r] = "opened"]
          /\ file' = <<>> /\ UNCHANGED <<args, entries>>
      BY <1>3 DEF Open, Step
    <2>2. \A s \in Runs : pc[s] # "opened" /\ (pc'[s] = "opened" => s = r) /\ (Busy(s)' => s = r)
      BY <1>0, <2>1
    <2>3. /\ EntriesIn(file) \in Seq(Entries) /\ Entry(r) \in Entries
          /\ entries[r] = Append(EntriesIn(file), Entry(r)) /\ Entry(r)' = Entry(r)
      BY <1>0, <2>1, EntriesTyped, EntryTyped
    <2>4. InTurn'
      <3>1. <<>> \in Seq(Entries) /\ file' # Corrupt
        <4>1. <<>> \in Seq(Entries)
          OBVIOUS
        <4>2. <<>> # Corrupt
          BY <4>1, FilesType
        <4> QED BY <2>1, <4>1, <4>2
      <3>2. \A s, t \in Runs : Busy(s)' /\ Busy(t)' => s = t
        BY <2>2
      <3>3. \A s \in Runs : pc'[s] # "ready"
        BY <2>1, <2>2
      <3>4. entries'[r] = Append(EntriesIn(file), Entry(r)')
        BY <2>1, <2>3
      <3>5. \A s \in Runs : pc'[s] = "opened" =>
               file' = <<>> /\ \E log \in Seq(Entries) : entries'[s] = Append(log, Entry(s)')
        <4> SUFFICES ASSUME NEW s \in Runs, pc'[s] = "opened"
                     PROVE  file' = <<>> /\ \E log \in Seq(Entries) : entries'[s] = Append(log, Entry(s)')
          OBVIOUS
        <4>1. s = r
          BY <2>2
        <4>2. \E log \in Seq(Entries) : entries'[r] = Append(log, Entry(r)')
          BY <2>3, <3>4
        <4> QED BY <2>1, <4>1, <4>2
      <3> QED BY <3>1, <3>2, <3>3, <3>5 DEF InTurn
    <2>5. LogOf(file', pc', entries') = Front(entries'[r])
      <3>1. pc'[r] = "opened" /\ \A s \in Runs : pc'[s] = "opened" => s = r
        BY <2>1, <2>2
      <3> QED BY <3>1, LogWhenOpened
    <2>6. LogOf(file, pc, entries) = EntriesIn(file)
      BY <2>2, LogWhenClosed
    <2> QED BY <2>1, <2>3, <2>4, <2>5, <2>6, FrontOfAppend DEF Grows, Log
  <1>4. ASSUME NEW r \in Runs, Write(r) PROVE InTurn' /\ Grows
    <2>1. /\ pc[r] = "opened" /\ pc' = [pc EXCEPT ![r] = "recorded"]
          /\ UNCHANGED <<args, entries>>
      BY <1>4 DEF Write, Step
    <2>2. file' = entries[r]
      BY <1>0, <1>4, <2>1 DEF Write
    <2>3. \A s \in Runs : ~Busy(s)' /\ pc'[s] # "opened" /\ (pc[s] = "opened" => s = r)
      BY <1>0, <2>1
    <2>4. PICK log \in Seq(Entries) : entries[r] = Append(log, Entry(r))
      BY <1>0, <2>1
    <2>5. entries[r] \in Seq(Entries) /\ Entry(r) \in Entries
      BY EntryTyped
    <2>6. InTurn'
      BY <1>0, <2>2, <2>3, <2>5, FilesType DEF InTurn
    <2>7. LogOf(file, pc, entries) = log
      <3>1. pc[r] = "opened" /\ \A s \in Runs : pc[s] = "opened" => s = r
        BY <2>1, <2>3
      <3>2. LogOf(file, pc, entries) = Front(entries[r])
        BY <3>1, LogWhenOpened
      <3> QED BY <2>4, <2>5, <3>2, FrontOfAppend
    <2>8. LogOf(file', pc', entries') = Append(log, Entry(r))
      BY <2>2, <2>3, <2>4, <2>5, LogWhenClosed, FilesType DEF EntriesIn
    <2> QED BY <2>1, <2>6, <2>7, <2>8 DEF Grows, Log
  <1>5. ASSUME NEW r \in Runs, Crash(r) PROVE InTurn' /\ Grows
    <2>1. pc[r] \in {"reading", "ready"} /\ pc' = [pc EXCEPT ![r] = "crashed"] /\ UNCHANGED <<file, args, entries>>
      BY <1>5 DEF Crash
    <2> QED BY <2>1, <1>b
  <1>6. CASE UNCHANGED vars
    BY <1>6, <1>b DEF vars
  <1> QED BY <1>1, <1>2, <1>3, <1>4, <1>5, <1>6 DEF Next

\* An accident stays an accident: clean only ever falls.
LEMMA NextClean == [Next]_vars /\ clean' => clean
  BY DEF Next, Start, Read, Open, Write, Crash, vars

\* Types, what is kept of an unreadable file, and the log without accidents.
LEMMA Inductive == Spec => [](TypeOK /\ InTurn /\ Kept)
  <1>1. TypeOK /\ InTurn /\ Kept /\ [Next]_vars => (TypeOK /\ InTurn /\ Kept)'
    <2> SUFFICES ASSUME TypeOK, InTurn, Kept, [Next]_vars PROVE (TypeOK /\ InTurn /\ Kept)'
      OBVIOUS
    <2>1. TypeOK' /\ Kept'
      BY NextTyped, NextKept
    <2>2. initial' = initial
      BY DEF Next, Start, Read, Open, Write, Crash, vars
    <2>3. CASE clean' /\ initial # Corrupt
      BY <2>1, <2>3, NextInTurn
    <2>4. CASE ~(clean' /\ initial # Corrupt)
      BY <2>1, <2>2, <2>4 DEF InTurn
    <2> QED BY <2>3, <2>4
  <1> QED BY InitOK, <1>1, PTL DEF Spec

\* The file is absent, no JSON or a list of entries, whatever the runs do to it.
THEOREM TypeCorrect == Spec => []TypeOK
  BY Inductive, PTL

\* Whatever overlaps or dies, what was not JSON at first is never replaced.
THEOREM Preserved == Spec => []UnreadableIsKept
  <1>1. Kept => UnreadableIsKept
    BY DEF Kept, UnreadableIsKept
  <1> QED BY Inductive, <1>1, PTL

\* Without overlap or death while writing, sources.json only grows, one recorded
\* entry at a time: no entry is lost, changed or added twice.
THEOREM OnlyAppends == Spec => AppendsOnly
  <1>1. TypeOK /\ InTurn /\ [Next]_vars =>
           [clean' /\ initial # Corrupt =>
              \/ Log' = Log
              \/ \E r \in Runs : pc'[r] = "recorded" /\ pc[r] # "recorded" /\ Log' = Append(Log, Entry(r))]_vars
    BY NextInTurn DEF Grows
  <1> QED BY Inductive, <1>1, PTL DEF Spec, AppendsOnly
-----------------------------------------------------------------------------
(* Where the entries come from.                                            *)

Permitted(e) == e.forced \/ e.host \in FetchAllowed

AllPermitted(log) == \A i \in DOMAIN log : Permitted(log[i])

\* Whatever record_source.py allows, the engine allows an approved fetch from.
AllowlistsAgree == \A url \in Urls : host_allowed(url) => host_of(url) \in FetchAllowed

\* What sources.json holds before the first of these runs is permitted too.
StartsPermitted == \A f \in InitialFiles : f \notin {Absent, Corrupt} => AllPermitted(f)

\* A run past its check was let through by the allowlist or by --force, and no
\* list of entries, in the file or read from it, holds any other.
Traced ==
    /\ file \notin {Absent, Corrupt} => AllPermitted(file)
    /\ \A r \in Runs : AllPermitted(entries[r])
    /\ \A r \in Runs : pc[r] \notin {"new", "refused"} => args[r].force \/ host_allowed(args[r].url)

\* The entry of a run that was let through is permitted.
LEMMA EntryPermitted ==
    ASSUME AllowlistsAgree, TypeOK, NEW r \in Runs, args[r].force \/ host_allowed(args[r].url)
    PROVE  Permitted(Entry(r))
  BY DEF AllowlistsAgree, TypeOK, Permitted, Entry

\* One permitted entry more leaves a list permitted.
LEMMA AppendPermitted ==
    ASSUME NEW log \in Seq(Entries), AllPermitted(log), NEW e \in Entries, Permitted(e)
    PROVE  AllPermitted(Append(log, e))
  <1>1. DOMAIN Append(log, e) = 1..(Len(log) + 1)
    OBVIOUS
  <1>2. ASSUME NEW i \in 1..(Len(log) + 1) PROVE Permitted(Append(log, e)[i])
    <2>1. CASE i \in DOMAIN log
      <3>1. Append(log, e)[i] = log[i]
        BY <2>1
      <3> QED BY <2>1, <3>1 DEF AllPermitted
    <2>2. CASE i = Len(log) + 1
      <3>1. Append(log, e)[i] = e
        BY <2>2
      <3> QED BY <3>1
    <2> QED BY <1>2, <2>1, <2>2
  <1> QED BY <1>1, <1>2 DEF AllPermitted

LEMMA InitTraced == ASSUME StartsPermitted PROVE Init => Traced
  BY DEF StartsPermitted, Init, Traced, AllPermitted

LEMMA NextTraced ==
    ASSUME AllowlistsAgree, TypeOK, Traced, [Next]_vars
    PROVE  Traced'
  <1> USE DEF TypeOK, Traced
  <1>1. ASSUME NEW r \in Runs, Start(r) PROVE Traced'
    <2>1. /\ pc' = [pc EXCEPT ![r] = IF host_allowed(args[r].url) \/ args[r].force THEN "reading" ELSE "refused"]
          /\ UNCHANGED <<file, args, entries>>
      BY <1>1 DEF Start, Step
    <2>2. \A s \in Runs : pc'[s] \notin {"new", "refused"} => args[s].force \/ host_allowed(args[s].url)
      BY <2>1
    <2> QED BY <2>1, <2>2 DEF AllPermitted, Permitted, host_allowed, host_of
  <1>2. ASSUME NEW r \in Runs, Read(r) PROVE Traced'
    <2>1. CASE file = Corrupt
      BY <1>2, <2>1 DEF Read, Step, AllPermitted, Permitted, host_allowed, host_of
    <2>2. CASE file # Corrupt
      <3>1. /\ pc[r] = "reading" /\ pc' = [pc EXCEPT ![r] = "ready"]
            /\ entries' = [entries EXCEPT ![r] = Append(EntriesIn(file), Entry(r))]
            /\ UNCHANGED <<file, args>>
        BY <1>2, <2>2 DEF Read, Step
      <3>2. EntriesIn(file) \in Seq(Entries) /\ Entry(r) \in Entries
        BY <2>2, EntriesTyped, EntryTyped
      <3>3. AllPermitted(EntriesIn(file))
        BY <2>2 DEF EntriesIn, AllPermitted
      <3>4. Permitted(Entry(r))
        BY <3>1, EntryPermitted
      <3>5. AllPermitted(Append(EntriesIn(file), Entry(r)))
        BY <3>2, <3>3, <3>4, AppendPermitted
      <3>6. \A s \in Runs : AllPermitted(entries'[s])
        BY <3>1, <3>5
      <3>7. \A s \in Runs : pc'[s] \notin {"new", "refused"} => args[s].force \/ host_allowed(args[s].url)
        BY <3>1
      <3> QED BY <3>1, <3>6, <3>7 DEF AllPermitted, Permitted, host_allowed, host_of
    <2> QED BY <2>1, <2>2
  <1>3. ASSUME NEW r \in Runs, Open(r) PROVE Traced'
    BY <1>3 DEF Open, Step, AllPermitted, Permitted, host_allowed, host_of
  <1>4. ASSUME NEW r \in Runs, Write(r) PROVE Traced'
    BY <1>4 DEF Write, Step, AllPermitted, Permitted, host_allowed, host_of
  <1>5. ASSUME NEW r \in Runs, Crash(r) PROVE Traced'
    BY <1>5 DEF Crash, AllPermitted, Permitted, host_allowed, host_of
  <1>6. CASE UNCHANGED vars
    BY <1>6 DEF vars, AllPermitted, Permitted, host_allowed, host_of
  <1> QED BY <1>1, <1>2, <1>3, <1>4, <1>5, <1>6 DEF Next

\* However the runs overlap or die, what is in sources.json came from a host the
\* Policy Engine allows an approved fetch from, or with --force.
THEOREM RecordsPermitted ==
    ASSUME AllowlistsAgree, StartsPermitted
    PROVE  Spec => []OnlyPermittedHosts
  <1>1. Init => TypeOK /\ Traced
    BY InitOK, InitTraced
  <1>2. TypeOK /\ Traced /\ [Next]_vars => (TypeOK /\ Traced)'
    BY NextTyped, NextTraced
  <1>3. Traced => OnlyPermittedHosts
    BY DEF Traced, OnlyPermittedHosts, AllPermitted, Permitted
  <1> QED BY <1>1, <1>2, <1>3, PTL DEF Spec

-----------------------------------------------------------------------------
(* The same with the Policy Engine itself.                                 *)

PE == INSTANCE PolicyEngineProofs WITH
        plan <- <<>>, Operations <- <<>>, Shapes <- {}, Vocabulary <- <<>>,
        Values <- [host |-> {}], Readings <- <<>>, MaxSnapshots <- 0

\* The engine looks at the end of a host as the recorder does.
LEMMA SameSuffix == \A s, t : PE!IsSuffix(s, t) <=> IsSuffix(s, t)
  BY DEF PE!IsSuffix, PE!IsPrefix, PE!Reverse, IsSuffix, IsPrefix, Reverse

\* record_source.py and rules.py match hosts with code of their own, and agree
\* on every url when the two copies of the allowlist do.
LEMMA EngineAgrees ==
    ASSUME Allowlist = PE!LICENSE_ALLOWLIST_HOSTS, \A url \in Urls : PE!IsList(url.host),
           FetchAllowed = {h \in {host_of(url) : url \in Urls} : PE!Evaluate(PE!Fetch(h)).decision = PE!ALLOW}
    PROVE  AllowlistsAgree
  <1>1. PE!AgentType
    BY DEF PE!AgentType, PE!Shape
  <1>2. ASSUME NEW url \in Urls, host_allowed(url)
        PROVE  PE!Evaluate(PE!Fetch(host_of(url))).decision = PE!ALLOW
    <2>1. CASE url.scheme = "file"
      <3>1. host_of(url) = <<"file">>
        BY <2>1 DEF host_of
      <3>2. PE!IsList(<<"file">>)
        <4>1. <<"file">> \in Seq({"file"})
          OBVIOUS
        <4> QED BY <1>1, <4>1, PE!ListOf
      <3> QED BY <1>1, <3>1, <3>2, PE!AllowlistFetched
    <2>2. CASE url.scheme # "file"
      <3>1. PE!IsList(host_of(url)) /\ \E site \in PE!LICENSE_ALLOWLIST_HOSTS : IsSuffix(site, host_of(url))
        BY <1>2, <2>2 DEF host_allowed, host_of
      <3>2. \E site \in PE!LICENSE_ALLOWLIST_HOSTS : PE!IsSuffix(site, host_of(url))
        BY <3>1, SameSuffix
      <3> QED BY <1>1, <3>1, <3>2, PE!AllowlistFetched
    <2> QED BY <2>1, <2>2
  <1> QED BY <1>2 DEF AllowlistsAgree

\* With the hosts of rules.py in license-allowlist.txt, and FetchAllowed the
\* engine's own answers, sources.json holds what the engine lets an agent fetch
\* once the user has approved, and what was forced: for any urls and runs.
THEOREM RecordsFollowEngine ==
    ASSUME Allowlist = PE!LICENSE_ALLOWLIST_HOSTS, \A url \in Urls : PE!IsList(url.host),
           FetchAllowed = {h \in {host_of(url) : url \in Urls} : PE!Evaluate(PE!Fetch(h)).decision = PE!ALLOW},
           StartsPermitted
    PROVE  Spec => []OnlyPermittedHosts
  <1>1. AllowlistsAgree
    BY EngineAgrees
  <1> QED BY <1>1, RecordsPermitted
=============================================================================
