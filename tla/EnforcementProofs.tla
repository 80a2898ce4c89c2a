-------------------------- MODULE EnforcementProofs --------------------------
(***************************************************************************)
(* Proofs, for every set of calls, objects and contents and every decision *)
(* function, of the invariants MCEnforcement checks on a small instance.   *)
(*                                                                         *)
(* The invariants are not inductive one by one: that a refusal is final or *)
(* that an entry shows what was judged needs to know how every entry of    *)
(* the log relates to the call it belongs to, which is LogMatchesCalls.    *)
(***************************************************************************)
EXTENDS Enforcement, TLAPS

Passed  == {"cleared"} \cup Started
Refused == {"ToolDenied", "ApprovalRequired"}

\* A call past the check got there by its own verdict and approval.
CheckedBeforeRun == \A c \in Calls : pc[c] \in Passed => Permitted(c)

\* Every entry belongs to a call that has been answered, carries that call's
\* form, judged values and verdict, and says executed just when it was passed.
LogMatchesCalls ==
    \A i \in DOMAIN audit_log :
        LET e == audit_log[i] IN
        /\ e.call \in Calls
        /\ pc[e.call] \in Passed \cup Refused
        /\ e.executed <=> pc[e.call] \in Passed
        /\ e.form = call[e.call].form
        /\ e.copy = call[e.call].judged
        /\ e.decision = Decided(e.call)

OneEntryEach ==
    \A i, j \in DOMAIN audit_log : audit_log[i].call = audit_log[j].call => i = j

AnsweredAreLogged ==
    \A c \in Calls : pc[c] \in Passed \cup Refused /\ call[c].audited =>
        \E i \in DOMAIN audit_log : audit_log[i].call = c

IInv == TypeOK /\ CheckedBeforeRun /\ LogMatchesCalls /\ OneEntryEach /\ AnsweredAreLogged

-----------------------------------------------------------------------------

\* evaluate answers with one of its verdicts, so what _record appends is an entry.
LEMMA EntryType ==
  ASSUME NEW c \in Calls, call[c] \in CallRecord, NEW executed \in BOOLEAN
  PROVE  /\ Decided(c) \in Verdicts
         /\ EntryOf(c, executed) \in Entry
<1>1. Decided(c) \in Verdicts
  BY DecisionOfType DEF Decided, CallRecord
<1>. QED
  BY <1>1 DEF EntryOf, Entry, CallRecord

\* _record keeps the log a sequence of entries.
LEMMA RecordType ==
  ASSUME TypeOK, NEW c \in Calls, pc[c] = "decided", NEW executed \in BOOLEAN, _record(c, executed)
  PROVE  audit_log' \in Seq(Entry)
<1>1. EntryOf(c, executed) \in Entry
  BY EntryType DEF TypeOK
<1>. QED
  BY <1>1 DEF TypeOK, _record

\* Every reachable state is well typed.
THEOREM TypeCorrect == Spec => []TypeOK
<1>. USE DecisionOfType, FormsType
<1>1. Init => TypeOK
  BY DEF Init, TypeOK, PCs
<1>2. TypeOK /\ [Next]_vars => TypeOK'
  <2> SUFFICES ASSUME TypeOK, [Next]_vars PROVE TypeOK'
    OBVIOUS
  <2>1. ASSUME NEW c \in Calls, NEW o \in Objects, NEW form \in Forms,
               NEW approved \in BOOLEAN, NEW audited \in BOOLEAN,
               Enforce(c, o, form, approved, audited)
        PROVE  TypeOK'
    BY <2>1 DEF TypeOK, Enforce, CallRecord, PCs, Finished, Started
  <2>2. ASSUME NEW c \in Calls, Block(c) PROVE TypeOK'
    <3>1. audit_log' \in Seq(Entry)
      BY <2>2, RecordType DEF Block
    <3>. QED
      BY <2>2, <3>1 DEF TypeOK, Block, PCs, Finished
  <2>3. ASSUME NEW c \in Calls, Clear(c) PROVE TypeOK'
    <3>1. audit_log' \in Seq(Entry)
      BY <2>3, RecordType DEF Clear
    <3>. QED
      BY <2>3, <3>1 DEF TypeOK, Clear, PCs
  <2>4. ASSUME NEW c \in Calls, RunTool(c) PROVE TypeOK'
    BY <2>4 DEF TypeOK, RunTool, PCs, Finished, Started
  <2>5. ASSUME NEW c \in Calls, ToolEnds(c) PROVE TypeOK'
    BY <2>5 DEF TypeOK, ToolEnds, PCs, Finished, Started
  <2>6. ASSUME NEW o \in Objects, Rewrite(o) PROVE TypeOK'
    BY <2>6 DEF TypeOK, Rewrite
  <2>7. CASE UNCHANGED vars
    BY <2>7 DEF TypeOK, vars
  <2>. QED
    BY <2>1, <2>2, <2>3, <2>4, <2>5, <2>6, <2>7 DEF Next
<1>. QED
  BY <1>1, <1>2, PTL DEF Spec

-----------------------------------------------------------------------------

\* What _record does to the log: the old entries stay, a last one may be added.
LEMMA RecordEffect ==
  ASSUME TypeOK, NEW c \in Calls, pc[c] = "decided", NEW executed \in BOOLEAN, _record(c, executed)
  PROVE  /\ DOMAIN audit_log \subseteq DOMAIN audit_log'
         /\ \A i \in DOMAIN audit_log : audit_log'[i] = audit_log[i]
         /\ \A i \in DOMAIN audit_log' \ DOMAIN audit_log :
               i = Len(audit_log) + 1 /\ audit_log'[i] = EntryOf(c, executed)
         /\ call[c].audited =>
               /\ Len(audit_log) + 1 \in DOMAIN audit_log'
               /\ audit_log'[Len(audit_log) + 1] = EntryOf(c, executed)
<1>1. audit_log \in Seq(Entry) /\ EntryOf(c, executed) \in Entry
  BY EntryType DEF TypeOK
<1>2. CASE call[c].audited
  <2>1. audit_log' = Append(audit_log, EntryOf(c, executed))
    BY <1>2 DEF _record
  <2>. QED
    BY <1>1, <2>1
<1>3. CASE ~call[c].audited
  BY <1>3 DEF _record
<1>. QED
  BY <1>2, <1>3

\* One answered call: c is passed or refused, its entry is written, and no
\* other call and no Action is touched.  This is Block and Clear in one.
Answers(c, executed) ==
    /\ pc[c] = "decided"
    /\ executed <=> Permitted(c)
    /\ _record(c, executed)
    /\ \E new \in (IF executed THEN {"cleared"} ELSE Refused) : pc' = [pc EXCEPT ![c] = new]
    /\ UNCHANGED <<plain, nested, call>>

LEMMA AnswerPreserves ==
  ASSUME IInv, NEW c \in Calls, NEW executed \in BOOLEAN, Answers(c, executed)
  PROVE  CheckedBeforeRun' /\ LogMatchesCalls' /\ OneEntryEach' /\ AnsweredAreLogged'
<1>. DEFINE e == EntryOf(c, executed)
            n == Len(audit_log) + 1
<1>. USE DEF Passed, Refused, Started
<1>1. /\ \A i \in DOMAIN audit_log : i \in DOMAIN audit_log' /\ audit_log'[i] = audit_log[i]
      /\ \A i \in DOMAIN audit_log' : i \in DOMAIN audit_log \/ (i = n /\ audit_log'[i] = e)
      /\ call[c].audited => n \in DOMAIN audit_log' /\ audit_log'[n] = e
  BY RecordEffect DEF Answers, IInv
<1>2. PICK new \in (IF executed THEN {"cleared"} ELSE Refused) : pc' = [pc EXCEPT ![c] = new]
  BY DEF Answers
<1>3. /\ pc'[c] = new
      /\ \A d \in Calls : d # c => pc'[d] = pc[d]
      /\ call' = call
      /\ pc[c] = "decided"
  BY <1>2 DEF Answers, IInv, TypeOK
<1>4. new \in Passed <=> executed
  BY <1>2
<1>5. \A d \in Calls : (Permitted(d) <=> Permitted(d)') /\ Decided(d)' = Decided(d)
  BY <1>3 DEF Permitted, Decided
<1>6. \A i \in DOMAIN audit_log : audit_log[i].call # c
  BY <1>3 DEF IInv, LogMatchesCalls
<1>7. e.call = c /\ e.executed = executed /\ e.form = call[c].form
      /\ e.copy = call[c].judged /\ e.decision = Decided(c)
  BY DEF EntryOf
<1>8. CheckedBeforeRun'
  BY <1>3, <1>4, <1>5 DEF CheckedBeforeRun, IInv, Answers
<1>9. LogMatchesCalls'
  <2> SUFFICES ASSUME NEW i \in DOMAIN audit_log'
               PROVE  LET f == audit_log'[i] IN
                      /\ f.call \in Calls
                      /\ pc'[f.call] \in Passed \cup Refused
                      /\ f.executed <=> pc'[f.call] \in Passed
                      /\ f.form = call'[f.call].form
                      /\ f.copy = call'[f.call].judged
                      /\ f.decision = DecisionOf[call'[f.call].form][call'[f.call].judged]
    BY DEF LogMatchesCalls, Decided
  <2>1. CASE i \in DOMAIN audit_log
    BY <1>1, <1>3, <1>6, <2>1 DEF IInv, LogMatchesCalls, Decided
  <2>2. CASE i = n /\ audit_log'[i] = e
    BY <1>2, <1>3, <1>4, <1>7, <2>2 DEF Decided
  <2>. QED
    BY <1>1, <2>1, <2>2
<1>10. OneEntryEach'
  <2> SUFFICES ASSUME NEW i \in DOMAIN audit_log', NEW j \in DOMAIN audit_log',
                      audit_log'[i].call = audit_log'[j].call
               PROVE  i = j
    BY DEF OneEntryEach
  <2>. QED
    BY <1>1, <1>6, <1>7 DEF IInv, OneEntryEach
<1>11. AnsweredAreLogged'
  <2> SUFFICES ASSUME NEW d \in Calls, pc'[d] \in Passed \cup Refused, call'[d].audited
               PROVE  \E i \in DOMAIN audit_log' : audit_log'[i].call = d
    BY DEF AnsweredAreLogged
  <2>1. CASE d = c
    BY <1>1, <1>3, <1>7, <2>1
  <2>2. CASE d # c
    BY <1>1, <1>3, <2>2 DEF IInv, AnsweredAreLogged
  <2>. QED
    BY <2>1, <2>2
<1>. QED
  BY <1>8, <1>9, <1>10, <1>11

\* IInv holds of every reachable state.
THEOREM Inductive == Spec => []IInv
<1>. USE DEF Passed, Refused, Started
<1>1. Init => IInv
  <2> SUFFICES ASSUME Init PROVE IInv
    OBVIOUS
  <2>1. TypeOK
    BY DEF Init, TypeOK, PCs
  <2>2. CheckedBeforeRun /\ AnsweredAreLogged
    BY DEF Init, CheckedBeforeRun, AnsweredAreLogged
  <2>3. LogMatchesCalls /\ OneEntryEach
    BY DEF Init, LogMatchesCalls, OneEntryEach
  <2>. QED
    BY <2>1, <2>2, <2>3 DEF IInv
<1>2. IInv /\ [Next]_vars /\ TypeOK' => IInv'
  <2> SUFFICES ASSUME IInv, [Next]_vars, TypeOK' PROVE IInv'
    OBVIOUS
  <2>. USE DEF IInv
  <2>1. ASSUME NEW c \in Calls, NEW o \in Objects, NEW form \in Forms,
               NEW approved \in BOOLEAN, NEW audited \in BOOLEAN,
               Enforce(c, o, form, approved, audited)
        PROVE  IInv'
    <3>1. /\ pc[c] = "new" /\ pc'[c] \in {"raised", "decided"} /\ audit_log' = audit_log
          /\ \A d \in Calls : d # c => pc'[d] = pc[d] /\ call'[d] = call[d]
      BY <2>1 DEF Enforce, TypeOK
    <3>2. CheckedBeforeRun'
      BY <3>1 DEF CheckedBeforeRun, Permitted, Decided
    <3>3. LogMatchesCalls'
      <4>1. \A i \in DOMAIN audit_log : audit_log[i].call # c
        BY <3>1 DEF LogMatchesCalls
      <4>. QED
        BY <3>1, <4>1 DEF LogMatchesCalls, Decided
    <3>4. OneEntryEach' /\ AnsweredAreLogged'
      BY <3>1 DEF OneEntryEach, AnsweredAreLogged
    <3>. QED
      BY <3>2, <3>3, <3>4
  <2>2. ASSUME NEW c \in Calls, Block(c) PROVE IInv'
    <3>1. Answers(c, FALSE)
      BY <2>2 DEF Block, Answers
    <3>. QED
      BY <3>1, AnswerPreserves
  <2>3. ASSUME NEW c \in Calls, Clear(c) PROVE IInv'
    <3>1. Answers(c, TRUE)
      BY <2>3 DEF Clear, Answers
    <3>. QED
      BY <3>1, AnswerPreserves
  <2>4. ASSUME NEW c \in Calls, RunTool(c) \/ ToolEnds(c) PROVE IInv'
    <3>1. /\ pc[c] \in Passed /\ pc'[c] \in Passed /\ audit_log' = audit_log /\ call' = call
          /\ \A d \in Calls : d # c => pc'[d] = pc[d]
      BY <2>4 DEF RunTool, ToolEnds, TypeOK
    <3>2. \A d \in Calls : (pc'[d] \in Passed <=> pc[d] \in Passed)
                         /\ (pc'[d] \in Refused <=> pc[d] \in Refused)
      BY <3>1
    <3>. QED
      BY <3>1, <3>2
         DEF CheckedBeforeRun, Permitted, Decided, LogMatchesCalls, OneEntryEach, AnsweredAreLogged
  <2>5. ASSUME NEW o \in Objects, Rewrite(o) PROVE IInv'
    BY <2>5 DEF Rewrite, CheckedBeforeRun, Permitted, Decided, LogMatchesCalls,
                OneEntryEach, AnsweredAreLogged
  <2>6. CASE UNCHANGED vars
    BY <2>6 DEF vars, CheckedBeforeRun, Permitted, Decided, LogMatchesCalls,
                OneEntryEach, AnsweredAreLogged
  <2>. QED
    BY <2>1, <2>2, <2>3, <2>4, <2>5, <2>6 DEF Next
<1>. QED
  BY <1>1, <1>2, TypeCorrect, PTL DEF Spec

\* No DENY and no unapproved ASK ever runs its tool.
THEOREM CoreGuarantee == Spec => []RunsOnlyIfPermitted
<1>1. IInv => RunsOnlyIfPermitted
  BY DEF IInv, CheckedBeforeRun, Permitted, RunsOnlyIfPermitted, Passed
<1>. QED
  BY <1>1, Inductive, PTL

\* Every audited run was announced in the log, under a verdict that let it run.
THEOREM RunsRecorded == Spec => []RunsAreOnRecord
<1>1. IInv => RunsAreOnRecord
  <2> SUFFICES ASSUME IInv, NEW c \in Calls, pc[c] \in Started, call[c].audited
               PROVE  \E i \in DOMAIN audit_log :
                         /\ audit_log[i].call = c /\ audit_log[i].executed
                         /\ audit_log[i].decision \in {"ALLOW", "ASK"}
    BY DEF RunsAreOnRecord
  <2>1. pc[c] \in Passed
    BY DEF Passed
  <2>2. PICK i \in DOMAIN audit_log : audit_log[i].call = c
    BY <2>1 DEF IInv, AnsweredAreLogged
  <2>3. audit_log[i].executed /\ audit_log[i].decision = Decided(c)
    BY <2>1, <2>2 DEF IInv, LogMatchesCalls
  <2>4. Decided(c) \in {"ALLOW", "ASK"}
    BY <2>1 DEF IInv, CheckedBeforeRun, Permitted
  <2>. QED
    BY <2>2, <2>3, <2>4
<1>. QED
  BY <1>1, Inductive, PTL

\* A call logged as not executed is over, and its tool never ran.
THEOREM RefusalsFinal == Spec => []RefusalsAreFinal
<1>1. IInv => RefusalsAreFinal
  BY DEF IInv, LogMatchesCalls, RefusalsAreFinal, Refused
<1>. QED
  BY <1>1, Inductive, PTL

\* Every answered audited call has exactly one entry.
THEOREM OneEntry == Spec => []OneEntryPerCall
<1>1. IInv => OneEntryPerCall
  BY DEF IInv, OneEntryEach, AnsweredAreLogged, OneEntryPerCall, Passed, Refused, Finished, Started
<1>. QED
  BY <1>1, Inductive, PTL

\* What the log shows of a dict evaluate() parsed is immune to what happens to the
\* dict later; an entry of one it could not parse is of a call that was refused.
THEOREM LogFaithful == Spec => []LogShowsWhatWasJudged
<1>1. IInv => LogShowsWhatWasJudged
  <2> SUFFICES ASSUME IInv, NEW i \in DOMAIN audit_log, audit_log[i].form = "dict"
               PROVE  LET e == audit_log[i] IN
                      IF call[e.call].judged \in Unparsable
                      THEN e.decision = "DENY" /\ ~e.executed
                      ELSE /\ Shown(e).plain = call[e.call].judged
                           /\ e.decision = DecisionOf["dict"][Shown(e).plain]
    BY DEF LogShowsWhatWasJudged
  <2> DEFINE e == audit_log[i]
  <2>1. /\ e.copy = call[e.call].judged
        /\ e.decision = DecisionOf["dict"][call[e.call].judged]
    BY DEF IInv, LogMatchesCalls, Decided
  <2>2. CASE call[e.call].judged \in Unparsable
    <3>0. e \in Entry
      BY DEF IInv, TypeOK
    <3>1. "dict" \in Forms /\ Decided(e.call) = "DENY"
      <4>1. "dict" \in Forms /\ call[e.call].form = "dict"
        BY <3>0 DEF Entry, IInv, LogMatchesCalls
      <4>. QED
        BY <2>2, <4>1, UnparsableType DEF Decided
    <3>2. ~e.executed
      BY <3>1 DEF IInv, TypeOK, Entry, LogMatchesCalls, CheckedBeforeRun, Permitted
    <3>. QED
      BY <2>1, <2>2, <3>1, <3>2 DEF IInv, LogMatchesCalls
  <2>3. CASE call[e.call].judged \notin Unparsable
    BY <2>1, <2>3 DEF Shown, Shared
  <2>. QED
    BY <2>2, <2>3
<1>. QED
  BY <1>1, Inductive, PTL
=============================================================================
