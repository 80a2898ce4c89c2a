----------------------------- MODULE Enforcement -----------------------------
(***************************************************************************)
(* The enforcement boundary: enforce(action, tool, approved, audit_log)    *)
(* asks the Policy Engine, writes one audit entry, and runs the tool only  *)
(* if the Decision lets it.  Calls are made by threads of one process that *)
(* share the audit log and, possibly, the Action they pass: an Action      *)
(* instance is frozen but the attributes dict in it is not, and whoever    *)
(* holds it may change it at any moment, between two calls or during one.  *)
(*                                                                         *)
(* The contents of an attributes dict are its plain values, which are all  *)
(* a rule ever reads, and the containers nested in it (a daw_state         *)
(* snapshot), which are changed in place.                                  *)
(***************************************************************************)
EXTENDS Naturals, Sequences

CONSTANTS
    Calls,       \* the calls of enforce(), each made at most once
    Objects,     \* the Action objects / dicts the callers hold
    Contents,    \* what the plain values of an attributes dict can be
    Nested,      \* what the containers nested in it can be
    Forms,       \* "dict": parsed by Action.from_dict; "instance": used as it is
    Unparsable,  \* the contents of a dict that Action.from_dict refuses
    DecisionOf,  \* policy_engine.evaluate, on the form and the plain values
    NoCall       \* the arguments of a call not made yet

Verdicts == {"ALLOW", "ASK", "DENY", "RAISE"}

ASSUME DecisionOfType == DecisionOf \in [Forms -> [Contents -> Verdicts]]
ASSUME FormsType == Forms \subseteq {"dict", "instance"}
ASSUME UnparsableType == "dict" \in Forms => \A v \in Unparsable : DecisionOf["dict"][v] = "DENY"

VARIABLES
    plain,       \* the plain values in each object's attributes dict, now
    nested,      \* the containers nested in it, now
    pc,          \* where each call of enforce() stands
    call,        \* its arguments and the Decision it got
    audit_log    \* the list the callers share

vars == <<plain, nested, pc, call, audit_log>>

Finished == {"ToolDenied", "ApprovalRequired", "returned", "tool_failed", "raised"}
Started  == {"running", "returned", "tool_failed"}    \* the tool has been called
PCs      == {"new", "decided", "cleared"} \cup Started \cup Finished

CallRecord == [object : Objects, form : Forms, approved : BOOLEAN,
               audited : BOOLEAN, judged : Contents]

Entry == [call : Calls, object : Objects, form : Forms, copy : Contents,
          decision : Verdicts, executed : BOOLEAN]

Decided(c) == DecisionOf[call[c].form][call[c].judged]

\* Mutated: approval overrides the verdict.
PermittedByApproval(c) == Decided(c) = "ALLOW" \/ call[c].approved

Permitted(c) == \/ Decided(c) = "ALLOW"
                \/ Decided(c) = "ASK" /\ call[c].approved

\* Mutated: from_dict without its dict(...) copy.
ShownUncopied(e) == [plain |-> plain[e.object], nested |-> nested[e.object]]

\* What a reader of the log sees in an entry's attributes.  to_dict() stores the
\* Decision's own dict: the caller's for an instance and for a dict from_dict refused,
\* from_dict's shallow copy otherwise, which shares its nested containers.
Shared(e) == e.form = "instance" \/ e.copy \in Unparsable

Shown(e) == [plain  |-> IF Shared(e) THEN plain[e.object] ELSE e.copy,
             nested |-> nested[e.object]]

-----------------------------------------------------------------------------

Init ==
    /\ plain \in [Objects -> Contents]
    /\ nested \in [Objects -> Nested]
    /\ pc = [c \in Calls |-> "new"]
    /\ call = [c \in Calls |-> NoCall]
    /\ audit_log = <<>>

\* Mutated: the entry notes the call's progress where the verdict belongs.
EntryOfProgress(c, executed) ==
    [call |-> c, object |-> call[c].object, form |-> call[c].form, copy |-> call[c].judged,
     decision |-> pc[c], executed |-> executed]

EntryOf(c, executed) ==
    [call |-> c, object |-> call[c].object, form |-> call[c].form, copy |-> call[c].judged,
     decision |-> Decided(c), executed |-> executed]

\* Mutated: only refusals are logged.
_record_refusals(c, executed) ==
    audit_log' = IF call[c].audited /\ ~executed
                 THEN Append(audit_log, EntryOf(c, executed)) ELSE audit_log

_record(c, executed) ==
    audit_log' = IF call[c].audited THEN Append(audit_log, EntryOf(c, executed)) ELSE audit_log

\* evaluate(action) has returned: the Decision is made of what the dict held then.
Enforce(c, o, form, approved, audited) ==
    /\ pc[c] = "new"
    /\ call' = [call EXCEPT ![c] = [object |-> o, form |-> form, approved |-> approved,
                                    audited |-> audited, judged |-> plain[o]]]
    /\ pc' = [pc EXCEPT ![c] = IF DecisionOf[form][plain[o]] = "RAISE" THEN "raised" ELSE "decided"]
    /\ UNCHANGED <<plain, nested, audit_log>>

\* Mutated: ASK is logged as not executed, but nothing is raised.
BlockWithoutRaise(c) ==
    /\ pc[c] = "decided" /\ ~Permitted(c)
    /\ _record(c, FALSE)
    /\ pc' = [pc EXCEPT ![c] = IF Decided(c) = "DENY" THEN "ToolDenied" ELSE "cleared"]
    /\ UNCHANGED <<plain, nested, call>>

Block(c) ==
    /\ pc[c] = "decided" /\ ~Permitted(c)
    /\ _record(c, FALSE)
    /\ pc' = [pc EXCEPT ![c] = IF Decided(c) = "DENY" THEN "ToolDenied" ELSE "ApprovalRequired"]
    /\ UNCHANGED <<plain, nested, call>>

Clear(c) ==
    /\ pc[c] = "decided" /\ Permitted(c)
    /\ _record(c, TRUE)
    /\ pc' = [pc EXCEPT ![c] = "cleared"]
    /\ UNCHANGED <<plain, nested, call>>

RunTool(c) ==
    /\ pc[c] = "cleared"
    /\ pc' = [pc EXCEPT ![c] = "running"]
    /\ UNCHANGED <<plain, nested, call, audit_log>>

\* Mutated: a second entry once the tool is through.
ToolEndsAndRecords(c) ==
    /\ pc[c] = "running"
    /\ _record(c, TRUE)
    /\ \E end \in {"returned", "tool_failed"} : pc' = [pc EXCEPT ![c] = end]
    /\ UNCHANGED <<plain, nested, call>>

\* The tool's result, or its exception, goes straight to the caller.
ToolEnds(c) ==
    /\ pc[c] = "running"
    /\ \E end \in {"returned", "tool_failed"} : pc' = [pc EXCEPT ![c] = end]
    /\ UNCHANGED <<plain, nested, call, audit_log>>

Rewrite(o) ==
    /\ \/ \E v \in Contents : plain' = [plain EXCEPT ![o] = v] /\ UNCHANGED nested
       \/ \E n \in Nested : nested' = [nested EXCEPT ![o] = n] /\ UNCHANGED plain
    /\ UNCHANGED <<pc, call, audit_log>>

Next ==
    \/ \E c \in Calls :
          \/ \E o \in Objects, form \in Forms, approved, audited \in BOOLEAN :
                Enforce(c, o, form, approved, audited)
          \/ Block(c) \/ Clear(c) \/ RunTool(c) \/ ToolEnds(c)
    \/ \E o \in Objects : Rewrite(o)

Spec == Init /\ [][Next]_vars

-----------------------------------------------------------------------------
(* Properties *)

TypeOK ==
    /\ plain \in [Objects -> Contents]
    /\ nested \in [Objects -> Nested]
    /\ pc \in [Calls -> PCs]
    /\ call \in [Calls -> CallRecord \cup {NoCall}]
    /\ \A c \in Calls : pc[c] # "new" => call[c] \in CallRecord
    /\ audit_log \in Seq(Entry)

\* The core guarantee of boundary.py: a tool that was called was called under
\* ALLOW, or under ASK in a call that itself carried approved=True; no flag and
\* no concurrent change of the Action turns a DENY into a run.
RunsOnlyIfPermitted ==
    \A c \in Calls : pc[c] \in Started =>
        Decided(c) = "ALLOW" \/ (Decided(c) = "ASK" /\ call[c].approved)

\* No audited tool call without its entry: before the tool starts, the log
\* holds an entry of that call that says executed and names the verdict.
RunsAreOnRecord ==
    \A c \in Calls : pc[c] \in Started /\ call[c].audited =>
        \E i \in DOMAIN audit_log :
            audit_log[i].call = c /\ audit_log[i].executed /\ audit_log[i].decision \in {"ALLOW", "ASK"}

\* An entry that says the tool was not executed is never contradicted later.
RefusalsAreFinal ==
    \A i \in DOMAIN audit_log :
        ~audit_log[i].executed => pc[audit_log[i].call] \in {"ToolDenied", "ApprovalRequired"}

\* enforce's docstring, for calls evaluate() answered: a call that is over has
\* exactly one entry, one that is not decided has none.
OneEntryPerCall ==
    /\ \A i, j \in DOMAIN audit_log : audit_log[i].call = audit_log[j].call => i = j
    /\ \A c \in Calls : pc[c] \in Finished \ {"raised"} /\ call[c].audited =>
          \E i \in DOMAIN audit_log : audit_log[i].call = c

\* For callers that pass dicts: whatever is done to the dict later, the log
\* shows the plain values evaluate() judged, with the verdict they deserve; what
\* an entry shows of a dict that did not parse may change, but it is of a refusal.
LogShowsWhatWasJudged ==
    \A i \in DOMAIN audit_log :
        LET e == audit_log[i] IN
        e.form = "dict" =>
            IF call[e.call].judged \in Unparsable
            THEN e.decision = "DENY" /\ ~e.executed
            ELSE /\ Shown(e).plain = call[e.call].judged
                 /\ e.decision = DecisionOf["dict"][Shown(e).plain]
=============================================================================
