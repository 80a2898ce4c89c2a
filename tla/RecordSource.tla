----------------------------- MODULE RecordSource -----------------------------
(***************************************************************************)
(* tools/record_source.py: each run reads sources.json, adds one entry and *)
(* writes the whole file back.  Runs are separate processes: nothing keeps *)
(* two of them apart, and one may die between truncating the file and      *)
(* writing it.                                                             *)
(*                                                                         *)
(* A host is the sequence of its labels, as in PolicyEngine.               *)
(***************************************************************************)
EXTENDS Naturals, Sequences, SequencesExt

CONSTANTS
    Runs,         \* the runs of the tool
    Urls,         \* [scheme, host], the host in lower case
    Allowlist,    \* the hosts in license-allowlist.txt
    FileListed,   \* whether it lists file://
    FetchAllowed, \* the hosts the Policy Engine allows an approved fetch from
    InitialFiles, \* what sources.json may be at first
    Absent,       \* no such file
    Corrupt       \* a file that is not JSON

VARIABLES
    file,     \* sources.json: Absent, Corrupt, or its entries (<<>> if truncated)
    pc,       \* where each run stands
    args,     \* its --url and --force
    entries,  \* the list it has read and extended
    clean,    \* history: no two runs overlapped, none died while writing
    initial   \* history: the file at first

vars == <<file, pc, args, entries, clean, initial>>

PCs == {"new", "reading", "ready", "opened", "recorded", "refused", "JSONDecodeError", "crashed"}

host_of(url) == IF url.scheme = "file" THEN <<"file">> ELSE url.host

\* Mutated: the site's name anywhere in the host will do.
host_allowed_anywhere(url) ==
    IF url.scheme = "file" THEN FileListed
    ELSE \E h \in Allowlist : \E i \in DOMAIN url.host : url.host[i] = h[1]

host_allowed(url) ==
    IF url.scheme = "file" THEN FileListed
    ELSE \E h \in Allowlist : IsSuffix(h, host_of(url))

Entries == [run : Runs, host : {host_of(u) : u \in Urls}, forced : BOOLEAN]

ASSUME FilesType == /\ Absent # Corrupt /\ Absent \notin Seq(Entries) /\ Corrupt \notin Seq(Entries)
                    /\ \A f \in InitialFiles : f \in {Absent, Corrupt} \/ f \in Seq(Entries)

Entry(r) == [run |-> r, host |-> host_of(args[r].url), forced |-> args[r].force]

Init ==
    /\ file \in InitialFiles /\ initial = file
    /\ pc = [r \in Runs |-> "new"]
    /\ args \in [Runs -> [url : Urls, force : BOOLEAN]]
    /\ entries = [r \in Runs |-> <<>>]
    /\ clean = TRUE

Step(r, from, to) == pc[r] = from /\ pc' = [pc EXCEPT ![r] = to]

Start(r) ==
    /\ Step(r, "new", IF host_allowed(args[r].url) \/ args[r].force THEN "reading" ELSE "refused")
    /\ UNCHANGED <<file, args, entries, clean, initial>>

EntriesIn(f) == IF f = Absent THEN <<>> ELSE f

\* Mutated: a file that is no JSON is taken for an empty one.
ReadOrStartOver(r) ==
    /\ Step(r, "reading", "ready")
    /\ entries' = [entries EXCEPT ![r] = Append(IF file = Corrupt THEN <<>> ELSE EntriesIn(file), Entry(r))]
    /\ UNCHANGED <<file, args, clean, initial>>

\* Mutated: what is in the file is read but not kept.
ReadForgetful(r) ==
    /\ file # Corrupt /\ Step(r, "reading", "ready")
    /\ entries' = [entries EXCEPT ![r] = <<Entry(r)>>]
    /\ UNCHANGED <<file, args, clean, initial>>

\* An absent or empty file is no entries; json.loads fails on any other non-JSON.
Read(r) ==
    /\ IF file = Corrupt
       THEN Step(r, "reading", "JSONDecodeError") /\ UNCHANGED entries
       ELSE /\ Step(r, "reading", "ready")
            /\ entries' = [entries EXCEPT ![r] = Append(EntriesIn(file), Entry(r))]
    /\ clean' = (clean /\ \A other \in Runs : pc[other] \notin {"ready", "opened"})
    /\ UNCHANGED <<file, args, initial>>

\* write_text opens the file with "w", which empties it ...
Open(r) ==
    /\ Step(r, "ready", "opened")
    /\ file' = <<>>
    /\ UNCHANGED <<args, entries, clean, initial>>

\* ... and writes from its start: over what another run has written meanwhile,
\* of which the end may remain.
Write(r) ==
    /\ Step(r, "opened", "recorded")
    /\ \/ file' = entries[r]
       \/ file # <<>> /\ file' = Corrupt
    /\ UNCHANGED <<args, entries, clean, initial>>

\* A run that dies while writing leaves what it has written so far, if anything.
Crash(r) ==
    /\ pc[r] \in {"reading", "ready", "opened"}
    /\ pc' = [pc EXCEPT ![r] = "crashed"]
    /\ file' \in IF pc[r] = "opened" THEN {file, Corrupt} ELSE {file}
    /\ clean' = (clean /\ pc[r] # "opened")
    /\ UNCHANGED <<args, entries, initial>>

Next == \E r \in Runs : Start(r) \/ Read(r) \/ Open(r) \/ Write(r) \/ Crash(r)

Spec == Init /\ [][Next]_vars

-----------------------------------------------------------------------------
(* Properties *)

TypeOK ==
    /\ file \in {Absent, Corrupt} \/ file \in Seq(Entries)
    /\ pc \in [Runs -> PCs]
    /\ args \in [Runs -> [url : Urls, force : BOOLEAN]]
    /\ entries \in [Runs -> Seq(Entries)]
    /\ clean \in BOOLEAN

\* The log a reader is owed: what is in the file, or, while a run has it
\* truncated, what that run found in it.
LogOf(f, p, e) ==
    IF \E r \in Runs : p[r] = "opened"
    THEN Front(e[CHOOSE r \in Runs : p[r] = "opened"])
    ELSE EntriesIn(f)

Log == LogOf(file, pc, entries)

\* The tool's docstring, "Append one entry": as long as runs do not overlap and
\* none dies while writing, the log only ever grows, by the entry of the run
\* that has just recorded, and is never unreadable.
AppendsOnly ==
    [][clean' /\ initial # Corrupt =>
          \/ Log' = Log
          \/ \E r \in Runs : pc'[r] = "recorded" /\ pc[r] # "recorded" /\ Log' = Append(Log, Entry(r))]_vars

\* Overlapping or dying, no run ever replaces a file it could not read: what was
\* not JSON at first stays as it is.
UnreadableIsKept == initial = Corrupt => file = Corrupt

\* Refusals included: what is in the file of these runs came from a host the
\* Policy Engine allows an approved fetch from, or with --force; and
\* record_source.py and rules.py agree on the allowlist.
OnlyPermittedHosts ==
    file \notin {Absent, Corrupt} =>
        \A i \in DOMAIN file : file[i].forced \/ file[i].host \in FetchAllowed
=============================================================================
