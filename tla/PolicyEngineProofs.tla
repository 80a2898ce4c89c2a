-------------------------- MODULE PolicyEngineProofs --------------------------
(***************************************************************************)
(* What the Policy Engine promises of any plan, over any vocabulary of the *)
(* agent's.  RULES is searched group by group: no group matches an Action  *)
(* of another's operations, so the verdict of an operation is a small      *)
(* decision table, stated once per group and cited by every theorem.  The  *)
(* invariant PlanOK says what a plan is made of.  Facts about lists and    *)
(* about the fold of worst_decision are proved by induction, each time as  *)
(* a least counterexample.                                                 *)
(***************************************************************************)
EXTENDS PolicyEngine, SequenceTheorems, WellFoundedInduction, TLAPS

\* A sequence, of whatever it holds.
IsList(s) == s \in Seq(Range(s))

\* No rule of a list matches.
NoneOf(rules) == \A i \in DOMAIN rules : ~ rules[i].matches

-----------------------------------------------------------------------------
(* Lists of rules *)

\* A set of naturals has a least element.
LEMMA LeastNat ==
    ASSUME NEW T \in SUBSET Nat, T # {}
    PROVE  \E m \in T : \A n \in T : m <= n
  <1>1. PICK m \in T : \A n \in T : <<n, m>> \notin OpToRel(<, Nat)
    BY NatLessThanWellFounded, WFMin
  <1>2. \A n \in T : ~ (n < m)
    BY <1>1 DEF OpToRel
  <1> QED BY <1>2

\* Any sequence is a list.
LEMMA ListOf ==
    ASSUME NEW S, NEW s \in Seq(S)
    PROVE  IsList(s)
  <1>1. s \in [1..Len(s) -> Range(s)] /\ Len(s) \in Nat
    BY LenProperties DEF Range
  <1> QED BY <1>1 DEF IsList

\* The positions of a list are 1 up to its length.
LEMMA ListLen ==
    ASSUME NEW s, IsList(s)
    PROVE  Len(s) \in Nat /\ DOMAIN s = 1..Len(s)
  BY LenProperties DEF IsList

\* Two lists one after the other.
LEMMA ListConcat ==
    ASSUME NEW s, IsList(s), NEW t, IsList(t)
    PROVE  /\ IsList(s \o t)
           /\ Len(s \o t) = Len(s) + Len(t)
           /\ \A i \in 1..Len(s) : (s \o t)[i] = s[i]
           /\ \A i \in 1..Len(t) : (s \o t)[Len(s) + i] = t[i]
  <1> DEFINE S == Range(s) \cup Range(t)
  <1>1. s \in Seq(S) /\ t \in Seq(S)
    BY SeqMonotonic DEF IsList
  <1>2. s \o t \in Seq(S) /\ Len(s \o t) = Len(s) + Len(t)
          /\ \A i \in 1..(Len(s) + Len(t)) :
                (s \o t)[i] = IF i <= Len(s) THEN s[i] ELSE t[i - Len(s)]
    BY <1>1, ConcatProperties
  <1>3. IsList(s \o t)
    BY <1>2, ListOf
  <1> QED BY <1>2, <1>3, ListLen

\* A rule that matches with none before it is the one that is applied.
LEMMA FirstIs ==
    ASSUME NEW s, IsList(s), NEW k \in 1..Len(s), s[k].matches,
           \A j \in 1..(k - 1) : ~ s[j].matches
    PROVE  FirstMatch(s) = s[k]
  <1> DEFINE hits == {i \in DOMAIN s : s[i].matches}
  <1>1. k \in hits /\ hits \subseteq Int /\ \A i \in hits : k <= i
    BY ListLen
  <1>2. Min(hits) = k
    BY <1>1 DEF Min
  <1> QED BY <1>1, <1>2 DEF FirstMatch

\* If any rule matches there is a first one.
LEMMA SomeFirst ==
    ASSUME NEW s, IsList(s), ~ NoneOf(s)
    PROVE  \E k \in 1..Len(s) : s[k].matches /\ \A j \in 1..(k - 1) : ~ s[j].matches
  <1> DEFINE hits == {i \in DOMAIN s : s[i].matches}
  <1>1. hits \in SUBSET Nat /\ hits # {}
    BY ListLen DEF NoneOf
  <1>2. PICK k \in hits : \A n \in hits : k <= n
    BY <1>1, LeastNat
  <1>3. k \in 1..Len(s) /\ s[k].matches /\ DOMAIN s = 1..Len(s) /\ Len(s) \in Nat
    BY ListLen
  <1>4. \A j \in 1..(k - 1) : ~ s[j].matches
    BY <1>2, <1>3
  <1> QED BY <1>3, <1>4

\* Where none matches, the answer is NO_MATCHING_RULE.
LEMMA NoneFirst ==
    ASSUME NEW s, NoneOf(s)
    PROVE  FirstMatch(s) = Rule("NO_MATCHING_RULE", DENY, TRUE)
  <1>1. {i \in DOMAIN s : s[i].matches} = {}
    BY DEF NoneOf
  <1> QED BY <1>1 DEF FirstMatch

\* A later list of rules is only searched when no rule of the earlier one matches.
LEMMA FirstOfConcat ==
    ASSUME NEW s, IsList(s), NEW t, IsList(t)
    PROVE  /\ IsList(s \o t)
           /\ NoneOf(s \o t) <=> NoneOf(s) /\ NoneOf(t)
           /\ FirstMatch(s \o t) = IF NoneOf(s) THEN FirstMatch(t) ELSE FirstMatch(s)
  <1> DEFINE st == s \o t
  <1>1. /\ IsList(st)
        /\ Len(st) = Len(s) + Len(t)
        /\ \A i \in 1..Len(s) : st[i] = s[i]
        /\ \A i \in 1..Len(t) : st[Len(s) + i] = t[i]
    BY ListConcat
  <1>2. /\ Len(s) \in Nat /\ DOMAIN s = 1..Len(s)
        /\ Len(t) \in Nat /\ DOMAIN t = 1..Len(t)
        /\ DOMAIN st = 1..Len(st)
    BY <1>1, ListLen
  <1> HIDE DEF st
  <1>3. \A i \in DOMAIN st : i \in 1..Len(s) \/ (i - Len(s) \in 1..Len(t) /\ i = Len(s) + (i - Len(s)))
    BY <1>1, <1>2
  <1>4. NoneOf(st) <=> NoneOf(s) /\ NoneOf(t)
    <2>1. ASSUME NoneOf(st) PROVE NoneOf(s) /\ NoneOf(t)
      BY <1>1, <1>2, <2>1 DEF NoneOf
    <2>2. ASSUME NoneOf(s), NoneOf(t) PROVE NoneOf(st)
      BY <1>1, <1>2, <1>3, <2>2 DEF NoneOf
    <2> QED BY <2>1, <2>2
  <1>5. CASE ~ NoneOf(s)
    <2>1. PICK k \in 1..Len(s) : s[k].matches /\ \A j \in 1..(k - 1) : ~ s[j].matches
      BY <1>5, SomeFirst
    <2>2. FirstMatch(s) = s[k]
      BY <2>1, FirstIs
    <2>3. k \in 1..Len(st) /\ st[k].matches /\ \A j \in 1..(k - 1) : ~ st[j].matches
      BY <1>1, <1>2, <2>1
    <2>4. FirstMatch(st) = st[k]
      BY <1>1, <2>3, FirstIs
    <2> QED BY <1>1, <1>4, <1>5, <2>2, <2>4 DEF st
  <1>6. CASE NoneOf(s) /\ ~ NoneOf(t)
    <2>1. PICK k \in 1..Len(t) : t[k].matches /\ \A j \in 1..(k - 1) : ~ t[j].matches
      BY <1>6, SomeFirst
    <2>2. FirstMatch(t) = t[k]
      BY <2>1, FirstIs
    <2> DEFINE n == Len(s) + k
    <2>3. n \in 1..Len(st) /\ st[n] = t[k]
      BY <1>1, <1>2, <2>1
    <2>4. ASSUME NEW j \in 1..(n - 1) PROVE ~ st[j].matches
      <3>1. CASE j \in 1..Len(s)
        BY <1>1, <1>2, <1>6, <3>1 DEF NoneOf
      <3>2. CASE j \notin 1..Len(s)
        <4>1. j - Len(s) \in 1..(k - 1) /\ j - Len(s) \in 1..Len(t) /\ j = Len(s) + (j - Len(s))
          BY <1>2, <3>2
        <4> QED BY <1>1, <2>1, <4>1
      <3> QED BY <3>1, <3>2
    <2>5. FirstMatch(st) = st[n]
      <3> HIDE DEF n
      <3> QED BY <1>1, <2>1, <2>3, <2>4, FirstIs
    <2> QED BY <1>1, <1>4, <1>6, <2>2, <2>3, <2>5 DEF st
  <1>7. CASE NoneOf(s) /\ NoneOf(t)
    <2>1. FirstMatch(st) = FirstMatch(t)
      BY <1>4, <1>7, NoneFirst
    <2> QED BY <1>1, <1>4, <1>7, <2>1 DEF st
  <1> QED BY <1>5, <1>6, <1>7

-----------------------------------------------------------------------------
(* The groups of RULES, each about its own operations *)

\* The groups are written out as tuples of three to eight rules.
LEMMA Tuples ==
    /\ \A r1, r2, r3 : IsList(<<r1, r2, r3>>)
    /\ \A r1, r2, r3, r4 : IsList(<<r1, r2, r3, r4>>)
    /\ \A r1, r2, r3, r4, r5, r6, r7 : IsList(<<r1, r2, r3, r4, r5, r6, r7>>)
    /\ \A r1, r2, r3, r4, r5, r6, r7, r8 : IsList(<<r1, r2, r3, r4, r5, r6, r7, r8>>)
  <1>1. ASSUME NEW r1, NEW r2, NEW r3 PROVE IsList(<<r1, r2, r3>>)
    <2>1. <<r1, r2, r3>> \in Seq({r1, r2, r3})
      OBVIOUS
    <2> QED BY <2>1, ListOf
  <1>2. ASSUME NEW r1, NEW r2, NEW r3, NEW r4 PROVE IsList(<<r1, r2, r3, r4>>)
    <2>1. <<r1, r2, r3, r4>> \in Seq({r1, r2, r3, r4})
      OBVIOUS
    <2> QED BY <2>1, ListOf
  <1>3. ASSUME NEW r1, NEW r2, NEW r3, NEW r4, NEW r5, NEW r6, NEW r7
        PROVE  IsList(<<r1, r2, r3, r4, r5, r6, r7>>)
    <2>1. <<r1, r2, r3, r4, r5, r6, r7>> \in Seq({r1, r2, r3, r4, r5, r6, r7})
      OBVIOUS
    <2> QED BY <2>1, ListOf
  <1>4. ASSUME NEW r1, NEW r2, NEW r3, NEW r4, NEW r5, NEW r6, NEW r7, NEW r8
        PROVE  IsList(<<r1, r2, r3, r4, r5, r6, r7, r8>>)
    <2>1. <<r1, r2, r3, r4, r5, r6, r7, r8>> \in Seq({r1, r2, r3, r4, r5, r6, r7, r8})
      OBVIOUS
    <2> QED BY <2>1, ListOf
  <1> QED BY <1>1, <1>2, <1>3, <1>4, Zenon

\* How many rules each group has, all lists.
LEMMA Groups ==
    ASSUME NEW a
    PROVE  /\ IsList(MidiFetchRules(a)) /\ Len(MidiFetchRules(a)) = 4
           /\ IsList(ProjectSaveRules(a)) /\ Len(ProjectSaveRules(a)) = 3
           /\ IsList(DawAndDataRules(a)) /\ Len(DawAndDataRules(a)) = 7
           /\ IsList(ComputerUseAndReadRules(a)) /\ Len(ComputerUseAndReadRules(a)) = 3
           /\ IsList(WriteRules(a)) /\ Len(WriteRules(a)) = 8
           /\ IsList(TransportAndTempoRules(a)) /\ Len(TransportAndTempoRules(a)) = 3
  <1>1. /\ IsList(MidiFetchRules(a)) /\ IsList(ProjectSaveRules(a)) /\ IsList(DawAndDataRules(a))
        /\ IsList(ComputerUseAndReadRules(a)) /\ IsList(WriteRules(a)) /\ IsList(TransportAndTempoRules(a))
    BY Tuples, Zenon
       DEF MidiFetchRules, ProjectSaveRules, DawAndDataRules, ComputerUseAndReadRules,
           WriteRules, TransportAndTempoRules
  <1>2. Len(MidiFetchRules(a)) = 4
    BY DEF MidiFetchRules
  <1>3. Len(ProjectSaveRules(a)) = 3
    BY DEF ProjectSaveRules
  <1>4. Len(DawAndDataRules(a)) = 7
    BY DEF DawAndDataRules
  <1>5. Len(ComputerUseAndReadRules(a)) = 3
    BY DEF ComputerUseAndReadRules
  <1>6. Len(WriteRules(a)) = 8
    BY DEF WriteRules
  <1>7. Len(TransportAndTempoRules(a)) = 3
    BY DEF TransportAndTempoRules
  <1> QED BY <1>1, <1>2, <1>3, <1>4, <1>5, <1>6, <1>7

\* The rule that answers an Action is the first of the first group with a match.
LEMMA RulesFirst ==
    ASSUME NEW a
    PROVE  FirstMatch(RULES(a)) =
              IF ~ NoneOf(MidiFetchRules(a)) THEN FirstMatch(MidiFetchRules(a))
              ELSE IF ~ NoneOf(ProjectSaveRules(a)) THEN FirstMatch(ProjectSaveRules(a))
              ELSE IF ~ NoneOf(DawAndDataRules(a)) THEN FirstMatch(DawAndDataRules(a))
              ELSE IF ~ NoneOf(ComputerUseAndReadRules(a)) THEN FirstMatch(ComputerUseAndReadRules(a))
              ELSE IF ~ NoneOf(WriteRules(a)) THEN FirstMatch(WriteRules(a))
              ELSE FirstMatch(TransportAndTempoRules(a))
  <1> DEFINE r1 == MidiFetchRules(a)
             r2 == r1 \o ProjectSaveRules(a)
             r3 == r2 \o DawAndDataRules(a)
             r4 == r3 \o ComputerUseAndReadRules(a)
             r5 == r4 \o WriteRules(a)
             r6 == r5 \o TransportAndTempoRules(a)
  <1>1. RULES(a) = r6
    BY DEF RULES
  <1>2. /\ IsList(r2)
        /\ NoneOf(r2) <=> NoneOf(r1) /\ NoneOf(ProjectSaveRules(a))
        /\ FirstMatch(r2) = IF NoneOf(r1) THEN FirstMatch(ProjectSaveRules(a)) ELSE FirstMatch(r1)
    BY Groups, FirstOfConcat
  <1> HIDE DEF r2
  <1>3. /\ IsList(r3)
        /\ NoneOf(r3) <=> NoneOf(r2) /\ NoneOf(DawAndDataRules(a))
        /\ FirstMatch(r3) = IF NoneOf(r2) THEN FirstMatch(DawAndDataRules(a)) ELSE FirstMatch(r2)
    BY <1>2, Groups, FirstOfConcat
  <1> HIDE DEF r3
  <1>4. /\ IsList(r4)
        /\ NoneOf(r4) <=> NoneOf(r3) /\ NoneOf(ComputerUseAndReadRules(a))
        /\ FirstMatch(r4) = IF NoneOf(r3) THEN FirstMatch(ComputerUseAndReadRules(a)) ELSE FirstMatch(r3)
    BY <1>3, Groups, FirstOfConcat
  <1> HIDE DEF r4
  <1>5. /\ IsList(r5)
        /\ NoneOf(r5) <=> NoneOf(r4) /\ NoneOf(WriteRules(a))
        /\ FirstMatch(r5) = IF NoneOf(r4) THEN FirstMatch(WriteRules(a)) ELSE FirstMatch(r4)
    BY <1>4, Groups, FirstOfConcat
  <1> HIDE DEF r5
  <1>6. FirstMatch(r6) = IF NoneOf(r5) THEN FirstMatch(TransportAndTempoRules(a)) ELSE FirstMatch(r5)
    BY <1>5, Groups, FirstOfConcat
  <1> QED BY <1>1, <1>2, <1>3, <1>4, <1>5, <1>6

DawAndDataOperations ==
    {"track.mix_sources", "daw.window_change", "daw.display_settings_change",
     "daw.plugin_install", "daw.license_dialog_respond", "data.send_external"}

WriteOperations ==
    {"midi.write", "track.create", "track.mixer_change", "device.param_change"}

\* No group has a rule about the operations of another.
LEMMA Elsewhere ==
    ASSUME NEW a
    PROVE  /\ a.operation # "midi.fetch" => NoneOf(MidiFetchRules(a))
           /\ a.operation # "project.save" => NoneOf(ProjectSaveRules(a))
           /\ a.operation \notin DawAndDataOperations => NoneOf(DawAndDataRules(a))
           /\ a.operation \notin {"computer_use.invoke"} \cup ReadOperations
                 => NoneOf(ComputerUseAndReadRules(a))
           /\ a.operation \notin WriteOperations => NoneOf(WriteRules(a))
           /\ a.operation \notin {"transport.control", "tempo.change"}
                 => NoneOf(TransportAndTempoRules(a))
  <1>1. ASSUME a.operation # "midi.fetch" PROVE NoneOf(MidiFetchRules(a))
    <2>1. LET s == MidiFetchRules(a) IN
          ~ s[1].matches /\ ~ s[2].matches /\ ~ s[3].matches /\ ~ s[4].matches
      BY <1>1 DEF MidiFetchRules, Rule
    <2>2. DOMAIN MidiFetchRules(a) = 1..4
      BY Groups, ListLen
    <2> QED BY <2>1, <2>2 DEF NoneOf
  <1>2. ASSUME a.operation # "project.save" PROVE NoneOf(ProjectSaveRules(a))
    <2>1. LET s == ProjectSaveRules(a) IN ~ s[1].matches /\ ~ s[2].matches /\ ~ s[3].matches
      BY <1>2 DEF ProjectSaveRules, Rule
    <2>2. DOMAIN ProjectSaveRules(a) = 1..3
      BY Groups, ListLen
    <2> QED BY <2>1, <2>2 DEF NoneOf
  <1>3. ASSUME a.operation \notin DawAndDataOperations PROVE NoneOf(DawAndDataRules(a))
    <2>1. LET s == DawAndDataRules(a) IN
          /\ ~ s[1].matches /\ ~ s[2].matches /\ ~ s[3].matches /\ ~ s[4].matches
          /\ ~ s[5].matches /\ ~ s[6].matches /\ ~ s[7].matches
      BY <1>3 DEF DawAndDataRules, Rule, DawAndDataOperations
    <2>2. DOMAIN DawAndDataRules(a) = 1..7
      BY Groups, ListLen
    <2> QED BY <2>1, <2>2 DEF NoneOf
  <1>4. ASSUME a.operation \notin {"computer_use.invoke"} \cup ReadOperations
        PROVE  NoneOf(ComputerUseAndReadRules(a))
    <2>1. LET s == ComputerUseAndReadRules(a) IN ~ s[1].matches /\ ~ s[2].matches /\ ~ s[3].matches
      BY <1>4 DEF ComputerUseAndReadRules, Rule
    <2>2. DOMAIN ComputerUseAndReadRules(a) = 1..3
      BY Groups, ListLen
    <2> QED BY <2>1, <2>2 DEF NoneOf
  <1>5. ASSUME a.operation \notin WriteOperations PROVE NoneOf(WriteRules(a))
    <2>1. LET s == WriteRules(a) IN
          /\ ~ s[1].matches /\ ~ s[2].matches /\ ~ s[3].matches /\ ~ s[4].matches
          /\ ~ s[5].matches /\ ~ s[6].matches /\ ~ s[7].matches /\ ~ s[8].matches
      BY <1>5 DEF WriteRules, Rule, WriteOperations
    <2>2. DOMAIN WriteRules(a) = 1..8
      BY Groups, ListLen
    <2> QED BY <2>1, <2>2 DEF NoneOf
  <1>6. ASSUME a.operation \notin {"transport.control", "tempo.change"}
        PROVE  NoneOf(TransportAndTempoRules(a))
    <2>1. LET s == TransportAndTempoRules(a) IN ~ s[1].matches /\ ~ s[2].matches /\ ~ s[3].matches
      BY <1>6 DEF TransportAndTempoRules, Rule
    <2>2. DOMAIN TransportAndTempoRules(a) = 1..3
      BY Groups, ListLen
    <2> QED BY <2>1, <2>2 DEF NoneOf
  <1> QED BY <1>1, <1>2, <1>3, <1>4, <1>5, <1>6

\* So the rules of its operation alone decide an Action.
LEMMA InGroup ==
    ASSUME NEW a
    PROVE  /\ a.operation = "midi.fetch" => FirstMatch(RULES(a)) = FirstMatch(MidiFetchRules(a))
           /\ a.operation = "project.save" => FirstMatch(RULES(a)) = FirstMatch(ProjectSaveRules(a))
           /\ a.operation \in DawAndDataOperations
                 => FirstMatch(RULES(a)) = FirstMatch(DawAndDataRules(a))
           /\ a.operation \in {"computer_use.invoke"} \cup ReadOperations
                 => FirstMatch(RULES(a)) = FirstMatch(ComputerUseAndReadRules(a))
           /\ a.operation \in WriteOperations => FirstMatch(RULES(a)) = FirstMatch(WriteRules(a))
           /\ a.operation \in {"transport.control", "tempo.change"}
                 => FirstMatch(RULES(a)) = FirstMatch(TransportAndTempoRules(a))
  <1>1. \A r, s : NoneOf(r) /\ NoneOf(s) => FirstMatch(r) = FirstMatch(s)
    BY NoneFirst
  <1>2. /\ a.operation = "midi.fetch" => a.operation \notin {"project.save"} \cup DawAndDataOperations
              \cup {"computer_use.invoke"} \cup ReadOperations \cup WriteOperations
              \cup {"transport.control", "tempo.change"}
        /\ a.operation = "project.save" => a.operation \notin {"midi.fetch"} \cup DawAndDataOperations
              \cup {"computer_use.invoke"} \cup ReadOperations \cup WriteOperations
              \cup {"transport.control", "tempo.change"}
        /\ a.operation \in DawAndDataOperations => a.operation \notin {"midi.fetch", "project.save"}
              \cup {"computer_use.invoke"} \cup ReadOperations \cup WriteOperations
              \cup {"transport.control", "tempo.change"}
        /\ a.operation \in {"computer_use.invoke"} \cup ReadOperations
              => a.operation \notin {"midi.fetch", "project.save"}
              \cup DawAndDataOperations \cup WriteOperations \cup {"transport.control", "tempo.change"}
        /\ a.operation \in WriteOperations => a.operation \notin {"midi.fetch", "project.save"}
              \cup DawAndDataOperations \cup {"computer_use.invoke"} \cup ReadOperations
              \cup {"transport.control", "tempo.change"}
        /\ a.operation \in {"transport.control", "tempo.change"}
              => a.operation \notin {"midi.fetch", "project.save"}
              \cup DawAndDataOperations \cup {"computer_use.invoke"} \cup ReadOperations \cup WriteOperations
    BY DEF DawAndDataOperations, WriteOperations, ReadOperations
  <1> QED BY <1>1, <1>2, Elsewhere, RulesFirst, Zenon

\* midi.fetch: a dump site or no approval is DENY, approval alone only ASK.
LEMMA MidiFetch ==
    ASSUME NEW a, a.operation = "midi.fetch"
    PROVE  LET host     == Attr(a, "host", <<>>)
               approved == IsTrue(Attr(a, "user_approved_this_turn", "None"))
               first    == FirstMatch(RULES(a))
           IN  /\ first.decision = IF HostIsDumpSite(host) \/ ~ approved THEN DENY
                                   ELSE IF HostOnLicenseAllowlist(host) THEN ALLOW ELSE ASK
               /\ first.rule_id = "MIDI_FETCH_NO_APPROVAL" <=> ~ HostIsDumpSite(host) /\ ~ approved
  <1> DEFINE s        == MidiFetchRules(a)
             dump     == HostIsDumpSite(Attr(a, "host", <<>>))
             listed   == HostOnLicenseAllowlist(Attr(a, "host", <<>>))
             approved == IsTrue(Attr(a, "user_approved_this_turn", "None"))
  <1>1. IsList(s) /\ Len(s) = 4 /\ FirstMatch(RULES(a)) = FirstMatch(s)
    BY Groups, InGroup
  <1>2. /\ s[1].matches <=> dump
        /\ s[2].matches <=> ~ approved
        /\ s[3].matches <=> approved /\ ~ listed
        /\ s[4].matches <=> approved /\ listed
    BY DEF MidiFetchRules, Rule
  <1>3. /\ s[1].decision = DENY /\ s[1].rule_id # "MIDI_FETCH_NO_APPROVAL"
        /\ s[2].decision = DENY /\ s[2].rule_id = "MIDI_FETCH_NO_APPROVAL"
        /\ s[3].decision = ASK /\ s[3].rule_id # "MIDI_FETCH_NO_APPROVAL"
        /\ s[4].decision = ALLOW /\ s[4].rule_id # "MIDI_FETCH_NO_APPROVAL"
    BY DEF MidiFetchRules, Rule
  <1> HIDE DEF s, dump, listed, approved
  <1>4. FirstMatch(s) = IF dump THEN s[1] ELSE IF ~ approved THEN s[2]
                        ELSE IF ~ listed THEN s[3] ELSE s[4]
    <2>1. CASE dump
      BY <1>1, <1>2, <2>1, FirstIs
    <2>2. CASE ~ dump /\ ~ approved
      BY <1>1, <1>2, <2>2, FirstIs
    <2>3. CASE ~ dump /\ approved /\ ~ listed
      BY <1>1, <1>2, <2>3, FirstIs
    <2>4. CASE ~ dump /\ approved /\ listed
      BY <1>1, <1>2, <2>4, FirstIs
    <2> QED BY <2>1, <2>2, <2>3, <2>4
  <1> QED BY <1>1, <1>3, <1>4 DEF dump, listed, approved

\* project.save: only save_as on request is ALLOW, an unknown mode is DENY.
LEMMA ProjectSave ==
    ASSUME NEW a, a.operation = "project.save"
    PROVE  LET mode      == Attr(a, "mode", "None")
               requested == IsTrue(Attr(a, "user_requested_this_turn", "None"))
           IN  FirstMatch(RULES(a)).decision =
                  IF mode # "save_as" THEN DENY ELSE IF requested THEN ALLOW ELSE ASK
  <1> DEFINE s         == ProjectSaveRules(a)
             mode      == Attr(a, "mode", "None")
             requested == IsTrue(Attr(a, "user_requested_this_turn", "None"))
  <1>1. IsList(s) /\ Len(s) = 3 /\ DOMAIN s = 1..3 /\ FirstMatch(RULES(a)) = FirstMatch(s)
    BY Groups, InGroup, ListLen
  <1>2. /\ s[1].matches <=> mode = "overwrite"
        /\ s[2].matches <=> mode = "save_as" /\ requested
        /\ s[3].matches <=> mode = "save_as"
        /\ s[1].decision = DENY /\ s[2].decision = ALLOW /\ s[3].decision = ASK
    BY DEF ProjectSaveRules, Rule
  <1> HIDE DEF s, mode, requested
  <1>3. CASE mode = "overwrite"
    <2>1. FirstMatch(s) = s[1]
      BY <1>1, <1>2, <1>3, FirstIs
    <2> QED BY <1>1, <1>2, <1>3, <2>1 DEF mode
  <1>4. CASE mode = "save_as" /\ requested
    <2>1. FirstMatch(s) = s[2]
      BY <1>1, <1>2, <1>4, FirstIs
    <2> QED BY <1>1, <1>2, <1>4, <2>1 DEF mode, requested
  <1>5. CASE mode = "save_as" /\ ~ requested
    <2>1. FirstMatch(s) = s[3]
      BY <1>1, <1>2, <1>5, FirstIs
    <2> QED BY <1>1, <1>2, <1>5, <2>1 DEF mode, requested
  <1>6. CASE mode \notin {"overwrite", "save_as"}
    <2>1. NoneOf(s)
      BY <1>1, <1>2, <1>6 DEF NoneOf
    <2>2. FirstMatch(s).decision = DENY
      BY <2>1, NoneFirst DEF Rule
    <2> QED BY <1>1, <1>6, <2>2 DEF mode
  <1> QED BY <1>3, <1>4, <1>5, <1>6

\* Window, display, plugin and licence changes are DENY, the rest goes by its flag.
LEMMA DawAndData ==
    ASSUME NEW a, a.operation \in DawAndDataOperations
    PROVE  FirstMatch(RULES(a)).decision =
              IF \/ a.operation = "track.mix_sources" /\ Truthy(Attr(a, "labeled", "False"))
                 \/ a.operation = "data.send_external" /\ Truthy(Attr(a, "is_model_api_in_use", "False"))
              THEN ALLOW ELSE DENY
  <1> DEFINE s       == DawAndDataRules(a)
             op      == a.operation
             labeled == Truthy(Attr(a, "labeled", "False"))
             inUse   == Truthy(Attr(a, "is_model_api_in_use", "False"))
  <1>1. IsList(s) /\ Len(s) = 7 /\ FirstMatch(RULES(a)) = FirstMatch(s)
    BY Groups, InGroup
  <1>2. /\ s[1].matches <=> op = "track.mix_sources" /\ ~ labeled
        /\ s[2].matches <=> op = "track.mix_sources" /\ labeled
        /\ s[3].matches <=> op = "daw.window_change"
        /\ s[4].matches <=> op = "daw.display_settings_change"
        /\ s[5].matches <=> op \in {"daw.plugin_install", "daw.license_dialog_respond"}
        /\ s[6].matches <=> op = "data.send_external" /\ ~ inUse
        /\ s[7].matches <=> op = "data.send_external" /\ inUse
    BY DEF DawAndDataRules, Rule
  <1>3. /\ s[1].decision = DENY /\ s[2].decision = ALLOW /\ s[3].decision = DENY
        /\ s[4].decision = DENY /\ s[5].decision = DENY /\ s[6].decision = DENY /\ s[7].decision = ALLOW
    BY DEF DawAndDataRules, Rule
  <1>4. \A k \in 1..7 : s[k].matches /\ (\A j \in 1..(k - 1) : ~ s[j].matches) => FirstMatch(s) = s[k]
    <2> HIDE DEF s
    <2> QED BY <1>1, FirstIs
  <1> HIDE DEF s, labeled, inUse
  <1>5. CASE op = "track.mix_sources" /\ labeled
    BY <1>1, <1>2, <1>3, <1>4, <1>5 DEF labeled
  <1>6. CASE op = "track.mix_sources" /\ ~ labeled
    BY <1>1, <1>2, <1>3, <1>4, <1>6 DEF labeled
  <1>7. CASE op = "data.send_external" /\ inUse
    BY <1>1, <1>2, <1>3, <1>4, <1>7 DEF inUse
  <1>8. CASE op = "data.send_external" /\ ~ inUse
    BY <1>1, <1>2, <1>3, <1>4, <1>8 DEF inUse
  <1>9. CASE op = "daw.window_change"
    BY <1>1, <1>2, <1>3, <1>4, <1>9
  <1>10. CASE op = "daw.display_settings_change"
    BY <1>1, <1>2, <1>3, <1>4, <1>10
  <1>11. CASE op \in {"daw.plugin_install", "daw.license_dialog_respond"}
    BY <1>1, <1>2, <1>3, <1>4, <1>11
  <1> QED BY <1>5, <1>6, <1>7, <1>8, <1>9, <1>10, <1>11 DEF DawAndDataOperations

\* Reads are ALLOW, computer use unless an adapter covers it.
LEMMA ComputerUseAndRead ==
    ASSUME NEW a, a.operation \in {"computer_use.invoke"} \cup ReadOperations
    PROVE  FirstMatch(RULES(a)).decision =
              IF /\ a.operation = "computer_use.invoke"
                 /\ mcp_supports(Attr(a, "daw", ""), Attr(a, "capability", ""))
              THEN DENY ELSE ALLOW
  <1> DEFINE s       == ComputerUseAndReadRules(a)
             use     == a.operation = "computer_use.invoke"
             covered == mcp_supports(Attr(a, "daw", ""), Attr(a, "capability", ""))
  <1>1. IsList(s) /\ Len(s) = 3 /\ FirstMatch(RULES(a)) = FirstMatch(s)
    BY Groups, InGroup
  <1>2. /\ s[1].matches <=> use /\ covered
        /\ s[2].matches <=> use /\ ~ covered
        /\ s[3].matches <=> a.operation \in ReadOperations
        /\ s[1].decision = DENY /\ s[2].decision = ALLOW /\ s[3].decision = ALLOW
    BY DEF ComputerUseAndReadRules, Rule
  <1>3. use \/ a.operation \in ReadOperations
    OBVIOUS
  <1> HIDE DEF s, use, covered
  <1>4. \A k \in 1..3 : s[k].matches /\ (\A j \in 1..(k - 1) : ~ s[j].matches) => FirstMatch(s) = s[k]
    BY <1>1, FirstIs
  <1>5. CASE use /\ covered
    <2>1. FirstMatch(s).decision = DENY
      BY <1>2, <1>4, <1>5
    <2> QED BY <1>1, <1>5, <2>1, Zenon DEF use, covered
  <1>6. CASE use /\ ~ covered
    <2>1. FirstMatch(s).decision = ALLOW
      BY <1>2, <1>4, <1>6
    <2> QED BY <1>1, <1>6, <2>1, Zenon DEF use, covered
  <1>7. CASE ~ use
    <2>1. FirstMatch(s).decision = ALLOW
      BY <1>2, <1>3, <1>4, <1>7
    <2> QED BY <1>1, <1>7, <2>1, Zenon DEF use
  <1> QED BY <1>5, <1>6, <1>7

\* Writes are ALLOW on a track (or a name) with the GEN prefix only.
LEMMA Writes ==
    ASSUME NEW a, a.operation \in WriteOperations
    PROVE  LET onGen == GenPrefixed(Attr(a, "track", <<>>))
               first == FirstMatch(RULES(a)).decision
           IN  /\ a.operation = "midi.write"
                     => first = IF Attr(a, "source", "None") = "generated" /\ onGen THEN ALLOW ELSE DENY
               /\ a.operation = "track.create"
                     => first = IF GenPrefixed(Attr(a, "name", <<>>)) THEN ALLOW ELSE ASK
               /\ a.operation \in {"track.mixer_change", "device.param_change"}
                     => first = IF onGen THEN ALLOW ELSE ASK
  <1> DEFINE s         == WriteRules(a)
             op        == a.operation
             generated == Attr(a, "source", "None") = "generated"
             onGen     == GenPrefixed(Attr(a, "track", <<>>))
             named     == GenPrefixed(Attr(a, "name", <<>>))
  <1>1. IsList(s) /\ Len(s) = 8 /\ DOMAIN s = 1..8 /\ FirstMatch(RULES(a)) = FirstMatch(s)
    BY Groups, InGroup, ListLen
  <1>2. /\ s[1].matches <=> op = "midi.write" /\ generated /\ onGen
        /\ s[2].matches <=> op = "midi.write" /\ generated
        /\ s[3].matches <=> op = "track.create" /\ named
        /\ s[4].matches <=> op = "track.create"
        /\ s[5].matches <=> op = "track.mixer_change" /\ onGen
        /\ s[6].matches <=> op = "track.mixer_change"
        /\ s[7].matches <=> op = "device.param_change" /\ onGen
        /\ s[8].matches <=> op = "device.param_change"
    BY DEF WriteRules, Rule
  <1>3. /\ s[1].decision = ALLOW /\ s[2].decision = DENY /\ s[3].decision = ALLOW
        /\ s[4].decision = ASK /\ s[5].decision = ALLOW /\ s[6].decision = ASK
        /\ s[7].decision = ALLOW /\ s[8].decision = ASK
    BY DEF WriteRules, Rule
  <1> HIDE DEF s, generated, onGen, named
  <1>4. \A k \in 1..8 : s[k].matches /\ (\A j \in 1..(k - 1) : ~ s[j].matches) => FirstMatch(s) = s[k]
    BY <1>1, FirstIs
  <1>5. CASE op = "midi.write"
    <2>1. CASE generated
      BY <1>1, <1>2, <1>3, <1>4, <1>5, <2>1 DEF generated, onGen
    <2>2. CASE ~ generated
      <3>1. NoneOf(s)
        BY <1>1, <1>2, <1>5, <2>2 DEF NoneOf
      <3>2. FirstMatch(s).decision = DENY
        BY <3>1, NoneFirst DEF Rule
      <3> QED BY <1>1, <1>5, <2>2, <3>2 DEF generated
    <2> QED BY <2>1, <2>2
  <1>6. CASE op = "track.create"
    BY <1>1, <1>2, <1>3, <1>4, <1>6 DEF named
  <1>7. CASE op = "track.mixer_change"
    BY <1>1, <1>2, <1>3, <1>4, <1>7 DEF onGen
  <1>8. CASE op = "device.param_change"
    BY <1>1, <1>2, <1>3, <1>4, <1>8 DEF onGen
  <1> QED BY <1>5, <1>6, <1>7, <1>8 DEF WriteOperations

\* transport.control is ALLOW, tempo.change on request.
LEMMA TransportAndTempo ==
    ASSUME NEW a, a.operation \in {"transport.control", "tempo.change"}
    PROVE  FirstMatch(RULES(a)).decision =
              IF a.operation = "transport.control" \/ IsTrue(Attr(a, "user_requested_this_turn", "None"))
              THEN ALLOW ELSE ASK
  <1> DEFINE s         == TransportAndTempoRules(a)
             tempo     == a.operation = "tempo.change"
             requested == IsTrue(Attr(a, "user_requested_this_turn", "None"))
  <1>1. IsList(s) /\ Len(s) = 3 /\ FirstMatch(RULES(a)) = FirstMatch(s)
    BY Groups, InGroup
  <1>2. /\ s[1].matches <=> a.operation = "transport.control"
        /\ s[2].matches <=> tempo /\ requested
        /\ s[3].matches <=> tempo
        /\ s[1].decision = ALLOW /\ s[2].decision = ALLOW /\ s[3].decision = ASK
    BY DEF TransportAndTempoRules, Rule
  <1> HIDE DEF s, requested
  <1>3. \A k \in 1..3 : s[k].matches /\ (\A j \in 1..(k - 1) : ~ s[j].matches) => FirstMatch(s) = s[k]
    BY <1>1, FirstIs
  <1>4. CASE ~ tempo
    BY <1>1, <1>2, <1>3, <1>4
  <1>5. CASE tempo
    BY <1>1, <1>2, <1>3, <1>5 DEF requested
  <1> QED BY <1>4, <1>5

\* What evaluate() answers to a malformed Action, by its shape and operation alone.
MalformedVerdict(shape, operation) ==
    CASE shape = "bad_operation" -> RAISE
      [] shape = "no_attributes" /\ operation \in KNOWN_OPERATIONS \ DecidedByName -> RAISE
      [] shape = "no_attributes" /\ operation = "transport.control" -> ALLOW
      [] OTHER -> DENY

\* evaluate() of a well-formed Action with a known operation is the rules' answer;
\* of a malformed one, that of the rules which do not look at the attributes.
LEMMA Evaluated ==
    ASSUME NEW a, a.shape \in Shape
    PROVE  /\ a.shape = "ok" /\ a.operation \in KNOWN_OPERATIONS
                 => Evaluate(a).decision = FirstMatch(RULES(a)).decision
                      /\ Evaluate(a).rule_id = FirstMatch(RULES(a)).rule_id
           /\ a.shape = "ok" /\ a.operation \notin KNOWN_OPERATIONS => Evaluate(a).decision = DENY
           /\ a.shape # "ok" => Evaluate(a).decision = MalformedVerdict(a.shape, a.operation)
  <1>1. CASE a.shape = "ok" /\ a.operation \in KNOWN_OPERATIONS
    BY <1>1 DEF Evaluate, Decision, Shape, Refused
  <1>2. CASE a.shape = "ok" /\ a.operation \notin KNOWN_OPERATIONS
    BY <1>2 DEF Evaluate, Decision, Shape, Refused
  <1>3. CASE a.shape = "no_attributes" /\ a.operation \in DecidedByName
    <2>1. a.operation \in KNOWN_OPERATIONS
      BY <1>3 DEF DecidedByName, KNOWN_OPERATIONS
    <2>2. Evaluate(a).decision = FirstMatch(RULES(a)).decision
      BY <1>3, <2>1 DEF Evaluate, Decision, Refused
    <2>3. CASE a.operation = "transport.control"
      <3>1. FirstMatch(RULES(a)).decision = ALLOW
        BY <2>3, TransportAndTempo
      <3>2. MalformedVerdict(a.shape, a.operation) = ALLOW
        BY <1>3, <2>3 DEF MalformedVerdict, DecidedByName
      <3> QED BY <1>3, <2>2, <3>1, <3>2
    <2>4. CASE a.operation # "transport.control"
      <3>1. a.operation \in DawAndDataOperations
               /\ a.operation \notin {"track.mix_sources", "data.send_external"}
        BY <1>3, <2>4 DEF DecidedByName, DawAndDataOperations
      <3>2. FirstMatch(RULES(a)).decision = DENY
        BY <3>1, DawAndData
      <3>3. MalformedVerdict(a.shape, a.operation) = DENY
        BY <1>3, <2>4 DEF MalformedVerdict
      <3> QED BY <1>3, <2>2, <3>2, <3>3
    <2> QED BY <2>3, <2>4
  <1>4. CASE a.shape # "ok" /\ ~ (a.shape = "no_attributes" /\ a.operation \in DecidedByName)
    <2>1. a.operation = "transport.control" => a.operation \in DecidedByName
      BY DEF DecidedByName
    <2>2. CASE a.shape = "bad_operation"
      <3>1. Evaluate(a).decision = RAISE
        BY <2>2 DEF Evaluate, Decision, Refused
      <3>2. MalformedVerdict(a.shape, a.operation) = RAISE
        BY <2>2 DEF MalformedVerdict
      <3> QED BY <2>2, <3>1, <3>2
    <2>3. CASE a.shape = "no_attributes"
      <3>1. CASE a.operation \in KNOWN_OPERATIONS
        <4>1. Evaluate(a).decision = RAISE
          BY <1>4, <2>3, <3>1 DEF Evaluate, Decision, Refused
        <4>2. MalformedVerdict(a.shape, a.operation) = RAISE
          BY <1>4, <2>1, <2>3, <3>1 DEF MalformedVerdict
        <4> QED BY <2>3, <4>1, <4>2
      <3>2. CASE a.operation \notin KNOWN_OPERATIONS
        <4>1. Evaluate(a).decision = DENY
          BY <2>3, <3>2 DEF Evaluate, Decision, Refused
        <4>2. MalformedVerdict(a.shape, a.operation) = DENY
          BY <1>4, <2>1, <2>3, <3>2 DEF MalformedVerdict
        <4> QED BY <2>3, <4>1, <4>2
      <3> QED BY <3>1, <3>2
    <2>4. CASE a.shape \in Refused
      BY <2>4 DEF Evaluate, Decision, MalformedVerdict, Refused
    <2> QED BY <1>4, <2>2, <2>3, <2>4 DEF Shape
  <1> QED BY <1>1, <1>2, <1>3, <1>4

-----------------------------------------------------------------------------
(* The plan *)

\* An Action: its three fields, hosts as labels, snapshots only from the DAW.
IsAction(a) ==
    /\ a = [shape |-> a.shape, operation |-> a.operation, attributes |-> a.attributes]
    /\ a.shape \in Shape
    /\ a.operation \in DOMAIN Vocabulary
    /\ "host" \in DOMAIN a.attributes => a.attributes["host"] \in Seq(STRING)
    /\ "daw_state" \in DOMAIN a.attributes => a.attributes["daw_state"] \in Snapshots

PlanOK == IsList(plan) /\ \A i \in DOMAIN plan : IsAction(plan[i])

\* Filling in attributes changes nothing else of an Action.
LEMMA Filled ==
    ASSUME NEW a, IsAction(a), NEW new
    PROVE  LET b == WithAttributes(a, new)
           IN  /\ b = [shape |-> a.shape, operation |-> a.operation, attributes |-> b.attributes]
               /\ DOMAIN b.attributes = DOMAIN a.attributes \cup DOMAIN new
               /\ \A n \in DOMAIN new : b.attributes[n] = new[n]
               /\ \A n \in DOMAIN a.attributes \ DOMAIN new : b.attributes[n] = a.attributes[n]
  BY DEF IsAction, WithAttributes

\* The empty plan is one.
LEMMA InitOK == Init => PlanOK
  <1> SUFFICES ASSUME Init PROVE PlanOK
    OBVIOUS
  <1>1. plan = <<>>
    BY DEF Init
  <1>2. plan \in Seq({}) /\ DOMAIN plan = {}
    BY <1>1
  <1> QED BY <1>2, ListOf DEF PlanOK

\* A step proposes a further Action or changes the attributes of one.
LEMMA Steps ==
    ASSUME PlanOK, Next
    PROVE  \/ \E a : IsAction(a) /\ plan' = Append(plan, a)
           \/ \E i \in DOMAIN plan : \E a :
                 /\ IsAction(a) /\ plan' = [plan EXCEPT ![i] = a]
                 /\ a.shape = plan[i].shape /\ a.operation = plan[i].operation
  <1>0. DOMAIN plan = 1..Len(plan) /\ Len(plan) \in Nat
    BY ListLen DEF PlanOK
  <1>1. ASSUME NEW shape \in Shapes, NEW op \in UNION Range(Operations), Propose(shape, op)
        PROVE  \E a : IsAction(a) /\ plan' = Append(plan, a)
    <2> DEFINE a == [shape |-> shape, operation |-> op, attributes |-> <<>>]
    <2>1. op \in DOMAIN Vocabulary
      <3>1. Len(plan) + 1 \in 1..Len(Operations) /\ op \in Operations[Len(plan) + 1]
        BY <1>0, <1>1, AgentType DEF Propose
      <3>2. Operations[Len(plan) + 1] \subseteq DOMAIN Vocabulary
        BY <3>1, AgentType, ElementOfSeq
      <3> QED BY <3>1, <3>2
    <2>2. a.shape = shape /\ a.operation = op /\ a.attributes = <<>> /\ shape \in Shape
      BY AgentType
    <2>3. "host" \notin DOMAIN a.attributes /\ "daw_state" \notin DOMAIN a.attributes
      OBVIOUS
    <2>4. IsAction(a)
      BY <2>1, <2>2, <2>3 DEF IsAction
    <2>5. plan' = Append(plan, a)
      BY <1>1 DEF Propose
    <2> QED BY <2>4, <2>5
  <1>2. ASSUME NEW i \in DOMAIN plan, NEW name \in Vocabulary[plan[i].operation],
               NEW v \in Values[name], SetAttribute(i, name, v)
        PROVE  \E a : /\ IsAction(a) /\ plan' = [plan EXCEPT ![i] = a]
                      /\ a.shape = plan[i].shape /\ a.operation = plan[i].operation
    <2> DEFINE new == [n \in {name} |-> v]
               a   == WithAttributes(plan[i], new)
    <2>1. IsAction(plan[i])
      BY DEF PlanOK
    <2>2. name # "daw_state" /\ (name = "host" => v \in Seq(STRING))
      BY <2>1, AgentType DEF IsAction
    <2>3. DOMAIN new = {name} /\ new[name] = v
      OBVIOUS
    <2> HIDE DEF new
    <2>4. /\ a = [shape |-> plan[i].shape, operation |-> plan[i].operation, attributes |-> a.attributes]
          /\ DOMAIN a.attributes = DOMAIN plan[i].attributes \cup {name}
          /\ a.attributes[name] = v
          /\ \A n \in DOMAIN plan[i].attributes \ {name} : a.attributes[n] = plan[i].attributes[n]
      BY <2>1, <2>3, Filled
    <2>5. plan' = [plan EXCEPT ![i] = a]
      BY <1>2 DEF SetAttribute, new
    <2> HIDE DEF a
    <2>6. a.shape = plan[i].shape /\ a.operation = plan[i].operation
      BY <2>4
    <2>7. IsAction(a)
      BY <2>1, <2>2, <2>4, <2>6 DEF IsAction
    <2> QED BY <2>5, <2>6, <2>7
  <1>3. ASSUME NEW i \in DOMAIN plan, NEW name \in Vocabulary[plan[i].operation],
               DropAttribute(i, name)
        PROVE  \E a : /\ IsAction(a) /\ plan' = [plan EXCEPT ![i] = a]
                      /\ a.shape = plan[i].shape /\ a.operation = plan[i].operation
    <2> DEFINE at == plan[i].attributes
               a  == [shape |-> plan[i].shape, operation |-> plan[i].operation,
                      attributes |-> [n \in DOMAIN at \ {name} |-> at[n]]]
    <2>1. IsAction(plan[i])
      BY DEF PlanOK
    <2>2. plan' = [plan EXCEPT ![i] = [plan[i] EXCEPT !.attributes = a.attributes]]
      BY <1>3 DEF DropAttribute
    <2>3. [plan[i] EXCEPT !.attributes = a.attributes] = a
      BY <2>1 DEF IsAction
    <2>4. IsAction(a) /\ a.shape = plan[i].shape /\ a.operation = plan[i].operation
      BY <2>1 DEF IsAction
    <2> HIDE DEF a
    <2> QED BY <2>2, <2>3, <2>4
  <1>4. ASSUME NEW i \in DOMAIN plan, NEW snapshot \in Snapshots, AttachState(i, snapshot)
        PROVE  \E a : /\ IsAction(a) /\ plan' = [plan EXCEPT ![i] = a]
                      /\ a.shape = plan[i].shape /\ a.operation = plan[i].operation
    <2> DEFINE new == SnapshotAttributes(snapshot)
               a   == WithAttributes(plan[i], new)
    <2>1. IsAction(plan[i])
      BY DEF PlanOK
    <2>2. DOMAIN new = {"daw_state"} /\ new["daw_state"] = snapshot
      BY DEF SnapshotAttributes
    <2> HIDE DEF new
    <2>3. /\ a = [shape |-> plan[i].shape, operation |-> plan[i].operation, attributes |-> a.attributes]
          /\ DOMAIN a.attributes = DOMAIN plan[i].attributes \cup {"daw_state"}
          /\ a.attributes["daw_state"] = snapshot
          /\ \A n \in DOMAIN plan[i].attributes \ {"daw_state"} : a.attributes[n] = plan[i].attributes[n]
      BY <2>1, <2>2, Filled
    <2>4. plan' = [plan EXCEPT ![i] = a]
      BY <1>4 DEF AttachState, new
    <2> HIDE DEF a
    <2>5. a.shape = plan[i].shape /\ a.operation = plan[i].operation
      BY <2>3
    <2>6. IsAction(a)
      BY <2>1, <2>3, <2>5 DEF IsAction
    <2> QED BY <2>4, <2>5, <2>6
  <1> QED BY <1>1, <1>2, <1>3, <1>4 DEF Next

\* Whatever the agent does to it, the plan stays a list of Actions.
LEMMA NextOK == PlanOK /\ [Next]_plan => PlanOK'
  <1> SUFFICES ASSUME PlanOK, [Next]_plan PROVE PlanOK'
    OBVIOUS
  <1>0. plan \in Seq(Range(plan)) /\ DOMAIN plan = 1..Len(plan) /\ Len(plan) \in Nat
    BY ListLen DEF PlanOK, IsList
  <1>1. ASSUME NEW a, IsAction(a), plan' = Append(plan, a) PROVE PlanOK'
    <2> DEFINE S == Range(plan) \cup {a}
    <2>1. plan \in Seq(S) /\ a \in S
      BY <1>0, SeqMonotonic
    <2>2. /\ plan' \in Seq(S) /\ Len(plan') = Len(plan) + 1
          /\ \A i \in 1..Len(plan) : plan'[i] = plan[i]
          /\ plan'[Len(plan) + 1] = a
      BY <1>1, <2>1, AppendProperties
    <2>3. IsList(plan') /\ DOMAIN plan' = 1..Len(plan')
      BY <2>2, ListOf, LenProperties
    <2>4. ASSUME NEW i \in DOMAIN plan' PROVE IsAction(plan'[i])
      <3>1. i \in 1..Len(plan) \/ i = Len(plan) + 1
        BY <1>0, <2>2, <2>3
      <3> QED BY <1>0, <1>1, <2>2, <3>1 DEF PlanOK
    <2> QED BY <2>3, <2>4 DEF PlanOK, IsList, IsAction
  <1>2. ASSUME NEW i \in DOMAIN plan, NEW a, IsAction(a), plan' = [plan EXCEPT ![i] = a] PROVE PlanOK'
    <2> DEFINE S == Range(plan) \cup {a}
    <2>1. plan \in Seq(S) /\ a \in S
      BY <1>0, SeqMonotonic
    <2>2. /\ plan' \in Seq(S) /\ Len(plan') = Len(plan)
          /\ \A j \in 1..Len(plan) : plan'[j] = IF j = i THEN a ELSE plan[j]
      BY <1>0, <1>2, <2>1, ExceptSeq
    <2>3. IsList(plan') /\ DOMAIN plan' = 1..Len(plan)
      BY <2>2, ListOf, LenProperties
    <2>4. ASSUME NEW j \in DOMAIN plan' PROVE IsAction(plan'[j])
      BY <1>0, <1>2, <2>2, <2>3 DEF PlanOK
    <2> QED BY <2>3, <2>4 DEF PlanOK, IsList, IsAction
  <1>3. CASE UNCHANGED plan
    BY <1>3 DEF PlanOK, IsList, IsAction, Snapshots
  <1> QED BY <1>1, <1>2, <1>3, Steps

\* The plan handed to evaluate_plan is always a list of such Actions: what
\* attach_to_attributes put in is a snapshot of some DAW, whatever else is filled
\* in or retracted around it.
THEOREM Typed == Spec => []PlanOK
  BY InitOK, NextOK, PTL DEF Spec

-----------------------------------------------------------------------------
(* Snapshots *)

\* No rule reads "daw_state", and the capability note does not either.
LEMMA SnapshotHarmless ==
    ASSUME NEW a, IsAction(a), NEW snapshot
    PROVE  Evaluate(WithAttributes(a, SnapshotAttributes(snapshot))) = Evaluate(a)
  <1> DEFINE new == SnapshotAttributes(snapshot)
             b   == WithAttributes(a, new)
  <1>1. DOMAIN new = {"daw_state"}
    BY DEF SnapshotAttributes
  <1>2. /\ b = [shape |-> a.shape, operation |-> a.operation, attributes |-> b.attributes]
        /\ DOMAIN b.attributes = DOMAIN a.attributes \cup {"daw_state"}
        /\ \A n \in DOMAIN a.attributes \ {"daw_state"} : b.attributes[n] = a.attributes[n]
    <2> HIDE DEF new
    <2> QED BY <1>1, Filled
  <1> HIDE DEF b
  <1>3. b.shape = a.shape /\ b.operation = a.operation
    BY <1>2
  <1>4. \A n, default : n # "daw_state" => Attr(b, n, default) = Attr(a, n, default)
    BY <1>2 DEF Attr
  <1>5. /\ Attr(b, "host", <<>>) = Attr(a, "host", <<>>)
        /\ Attr(b, "user_approved_this_turn", "None") = Attr(a, "user_approved_this_turn", "None")
        /\ Attr(b, "user_requested_this_turn", "None") = Attr(a, "user_requested_this_turn", "None")
        /\ Attr(b, "mode", "None") = Attr(a, "mode", "None")
        /\ Attr(b, "labeled", "False") = Attr(a, "labeled", "False")
        /\ Attr(b, "is_model_api_in_use", "False") = Attr(a, "is_model_api_in_use", "False")
        /\ Attr(b, "daw", "") = Attr(a, "daw", "")
        /\ Attr(b, "capability", "") = Attr(a, "capability", "")
        /\ Attr(b, "source", "None") = Attr(a, "source", "None")
        /\ Attr(b, "track", <<>>) = Attr(a, "track", <<>>)
        /\ Attr(b, "name", <<>>) = Attr(a, "name", <<>>)
    BY <1>4
  <1>6. RULES(b) = RULES(a)
    <2>1. MidiFetchRules(b) = MidiFetchRules(a)
      BY <1>3, <1>5 DEF MidiFetchRules
    <2>2. ProjectSaveRules(b) = ProjectSaveRules(a)
      BY <1>3, <1>5 DEF ProjectSaveRules
    <2>3. DawAndDataRules(b) = DawAndDataRules(a)
      BY <1>3, <1>5 DEF DawAndDataRules
    <2>4. ComputerUseAndReadRules(b) = ComputerUseAndReadRules(a)
      BY <1>3, <1>5 DEF ComputerUseAndReadRules
    <2>5. WriteRules(b) = WriteRules(a)
      BY <1>3, <1>5 DEF WriteRules
    <2>6. TransportAndTempoRules(b) = TransportAndTempoRules(a)
      BY <1>3, <1>5 DEF TransportAndTempoRules
    <2> QED BY <2>1, <2>2, <2>3, <2>4, <2>5, <2>6 DEF RULES
  <1>7. CapabilityNote(b) = CapabilityNote(a)
    BY <1>3, <1>5 DEF CapabilityNote
  <1>8. Evaluate(b) = Evaluate(a)
    BY <1>3, <1>6, <1>7 DEF Evaluate
  <1> QED BY <1>8 DEF b

\* daw_state.py "changes NO Decision": attaching any snapshot to any Action of a
\* plan leaves the whole Decision of evaluate() as it was.
THEOREM SnapshotsDecideNothing == Spec => []SnapshotChangesNoVerdict
  <1>1. PlanOK => SnapshotChangesNoVerdict
    BY SnapshotHarmless DEF PlanOK, SnapshotChangesNoVerdict
  <1> QED BY <1>1, Typed, PTL

\* The adapters each snapshot is taken from answer what it reports.
LEMMA SnapshotReadable ==
    ASSUME NEW s \in Snapshots
    PROVE  /\ s.tempo_bpm # {} => mcp_supports(s.daw, "read.tempo")
           /\ s.tracks # {} => mcp_supports(s.daw, "read.tracks")
           /\ s.transport # {} => mcp_supports(s.daw, "read.transport")
           /\ s.project # {} => \/ mcp_supports(s.daw, "read.project_info")
                                \/ mcp_supports(s.daw, "read.song_info")
           /\ s.track_count # {} => s.tracks # {} \/ s.project # {}
  <1>1. \A daw \in {"reaper", "ableton", "ardour"} : Lower(daw) = daw
    BY DEF Lower, LowerCase
  <1>2. /\ mcp_supports("reaper", "read.tempo") /\ mcp_supports("reaper", "read.tracks")
        /\ mcp_supports("reaper", "read.project_info")
        /\ mcp_supports("ableton", "read.tempo") /\ mcp_supports("ableton", "read.tracks")
        /\ mcp_supports("ableton", "read.song_info")
        /\ mcp_supports("ardour", "read.tracks") /\ mcp_supports("ardour", "read.transport")
    BY <1>1 DEF mcp_supports, CAPABILITY_MATRIX, ReadOperations
  <1>3. Get({}, "bpm") = {}
    BY DEF Get
  <1>4. \A project, tracks : TrackCount(project, tracks) # {} => tracks # {} \/ project # {}
    BY DEF TrackCount
  <1>5. ASSUME NEW tempo, NEW tracks, NEW info, s = from_reaper(tempo, tracks, info)
        PROVE  /\ s.daw = "reaper" /\ s.tracks = tracks /\ s.transport = {} /\ s.project = info
               /\ s.track_count = TrackCount(info, tracks)
    BY <1>5 DEF from_reaper, Snapshot
  <1>6. ASSUME NEW info, NEW tracks, s = from_ableton(info, tracks)
        PROVE  /\ s.daw = "ableton" /\ s.tracks = tracks /\ s.transport = {} /\ s.project = info
               /\ s.track_count = TrackCount(info, tracks)
    BY <1>6 DEF from_ableton, Snapshot
  <1>7. ASSUME NEW tracks, NEW transport, s = from_ardour(tracks, transport)
        PROVE  /\ s.daw = "ardour" /\ s.tempo_bpm = Get({}, "bpm") /\ s.tracks = tracks
               /\ s.project = {} /\ s.track_count = TrackCount({}, tracks)
    BY <1>7 DEF from_ardour, Snapshot
  <1> QED BY <1>2, <1>3, <1>4, <1>5, <1>6, <1>7 DEF Snapshots

\* from_reaper, from_ableton and from_ardour report nothing CAPABILITY_MATRIX does
\* not say can be read of that DAW, whatever the reads returned.
THEOREM SnapshotsAreReadable == Spec => []SnapshotsWithinCapabilities
  <1>1. PlanOK => SnapshotsWithinCapabilities
    <2> SUFFICES ASSUME PlanOK, NEW i \in DOMAIN plan, Carries(i)
                 PROVE  plan[i].attributes["daw_state"] \in Snapshots
      BY SnapshotReadable DEF SnapshotsWithinCapabilities
    <2> QED BY DEF PlanOK, IsAction, Carries
  <1> QED BY <1>1, Typed, PTL

-----------------------------------------------------------------------------
(* Hosts *)

Lowered(host) == [i \in DOMAIN host |-> Lower(host[i])]

\* A host under a site has the site's labels at its end, said in three ways.
LEMMA Ending ==
    ASSUME NEW site, IsList(site), NEW host, IsList(host)
    PROVE  LET n == Len(site)
               m == Len(host)
               ends == n <= m /\ \A i \in 1..n : site[i] = host[m - n + i]
           IN  (IsSuffix(site, host) <=> ends) /\ (InDomain(host, site) <=> ends)
  <1> DEFINE n == Len(site)
             m == Len(host)
             s == Reverse(site)
             h == Reverse(host)
  <1>1. n \in Nat /\ m \in Nat /\ DOMAIN site = 1..n /\ DOMAIN host = 1..m
    BY ListLen
  <1>2. /\ DOMAIN s = 1..n /\ \A i \in 1..n : s[i] = site[n - i + 1]
        /\ DOMAIN h = 1..m /\ \A i \in 1..m : h[i] = host[m - i + 1]
    BY <1>1 DEF Reverse
  <1>3. s \in Seq(Range(site)) /\ Len(s) = n /\ h \in Seq(Range(host)) /\ Len(h) = m
    <2>1. s \in [1..n -> Range(site)] /\ h \in [1..m -> Range(host)]
      BY <1>1, <1>2 DEF Range, Reverse
    <2> QED BY <1>1, <2>1
  <1> HIDE DEF s, h
  <1>4. IsSuffix(site, host) <=> n <= m /\ \A i \in 1..n : site[n - i + 1] = host[m - i + 1]
    <2>1. IsSuffix(site, host) <=> n <= m /\ SubSeq(s, 1, n) = SubSeq(h, 1, n)
      BY <1>3 DEF IsSuffix, IsPrefix, s, h
    <2>2. ASSUME n <= m
          PROVE  SubSeq(s, 1, n) = SubSeq(h, 1, n) <=> \A i \in 1..n : s[i] = h[i]
      BY <1>1, <1>3, <2>2
    <2> QED BY <1>1, <1>2, <2>1, <2>2
  <1>5. InDomain(host, site) <=> n <= m /\ \A i \in 1..n : site[i] = host[m - n + i]
    <2>1. ASSUME NEW sub \in 0..m, SubSeq(host, sub + 1, m) = site
          PROVE  n <= m /\ \A i \in 1..n : site[i] = host[m - n + i]
      <3>1. sub + 1 \in Int /\ m \in Int /\ \A i \in (sub + 1)..m : host[i] \in Range(host)
        BY <1>1 DEF Range
      <3>2. n = IF sub + 1 <= m THEN m - (sub + 1) + 1 ELSE 0
        BY <2>1, <3>1, SubSeqProperties
      <3>3. n = m - sub
        <4> HIDE DEF n, m
        <4> QED BY <1>1, <2>1, <3>2
      <3> QED BY <1>1, <2>1, <3>3
    <2>2. ASSUME n <= m, \A i \in 1..n : site[i] = host[m - n + i]
          PROVE  SubSeq(host, (m - n) + 1, m) = site
      <3> DEFINE t == SubSeq(host, (m - n) + 1, m)
                 S == Range(host) \cup Range(site)
      <3>1. (m - n) + 1 \in Int /\ m \in Int /\ \A i \in ((m - n) + 1)..m : host[i] \in S
        BY <1>1, <2>2 DEF Range
      <3>2. /\ t \in Seq(S)
            /\ Len(t) = IF (m - n) + 1 <= m THEN m - ((m - n) + 1) + 1 ELSE 0
            /\ \A i \in 1..(m - ((m - n) + 1) + 1) : t[i] = host[((m - n) + 1) + i - 1]
        BY <3>1, SubSeqProperties
      <3>3. site \in Seq(S)
        BY SeqMonotonic DEF IsList
      <3> HIDE DEF t, S
      <3>4. Len(t) = n /\ \A i \in 1..n : t[i] = site[i]
        BY <1>1, <2>2, <3>2
      <3> QED BY <3>2, <3>3, <3>4, SeqEqual DEF t
    <2>3. n <= m => m - n \in 0..m
      BY <1>1
    <2> QED BY <2>1, <2>2, <2>3 DEF InDomain
  <1>6. (\A i \in 1..n : site[n - i + 1] = host[m - i + 1])
           <=> \A i \in 1..n : site[i] = host[m - n + i]
    <2>1. \A i \in 1..n : n - i + 1 \in 1..n /\ n - (n - i + 1) + 1 = i
             /\ m - n + (n - i + 1) = m - i + 1 /\ m - (n - i + 1) + 1 = m - n + i
      BY <1>1
    <2> QED BY <2>1
  <1> QED BY <1>4, <1>5, <1>6

LEMMA Under ==
    ASSUME NEW site, IsList(site), NEW host, IsList(host)
    PROVE  IsSuffix(site, host) <=> InDomain(host, site)
  BY Ending

\* The sites are lists of labels, so is every host an Action names.
LEMMA HostRead ==
    ASSUME NEW a, IsAction(a)
    PROVE  LET host == Attr(a, "host", <<>>)
           IN  /\ IsList(host) /\ Host(a) = Lowered(host) /\ IsList(Host(a)) /\ Len(Host(a)) = Len(host)
               /\ HostIsDumpSite(host) <=> \E s \in DUMP_SITE_HOSTS : InDomain(Host(a), s)
               /\ HostOnLicenseAllowlist(host)
                     => \E s \in LICENSE_ALLOWLIST_HOSTS \cup {<<"file">>} : InDomain(Host(a), s)
  <1> DEFINE host == Attr(a, "host", <<>>)
  <1>1. IsList(host)
    <2>1. CASE "host" \in DOMAIN a.attributes
      BY <2>1, ListOf DEF Attr, IsAction
    <2>2. CASE "host" \notin DOMAIN a.attributes
      <3>1. host = <<>> /\ <<>> \in Seq(STRING)
        BY <2>2 DEF Attr
      <3> QED BY <3>1, ListOf
    <2> QED BY <2>1, <2>2
  <1>2. Host(a) = Lowered(host)
    <2>1. CASE Silent(a, "host")
      <3>1. host = <<>> /\ Host(a) = <<>>
        BY <2>1 DEF Host, Silent, Attr
      <3>2. Lowered(<<>>) = <<>>
        BY DEF Lowered
      <3> QED BY <3>1, <3>2
    <2>2. CASE ~ Silent(a, "host")
      BY <2>2 DEF Host, Silent, Attr, Lowered
    <2> QED BY <2>1, <2>2
  <1> HIDE DEF host
  <1>3. IsList(Lowered(host)) /\ Len(Lowered(host)) = Len(host)
    <2>1. Lowered(host) \in [1..Len(host) -> Range(Lowered(host))] /\ Len(host) \in Nat
      BY <1>1, ListLen DEF Lowered, Range
    <2>2. Lowered(host) \in Seq(Range(Lowered(host))) /\ DOMAIN Lowered(host) = 1..Len(host)
      BY <2>1
    <2> QED BY <2>1, <2>2, ListLen DEF IsList
  <1>4. \A s \in DUMP_SITE_HOSTS \cup LICENSE_ALLOWLIST_HOSTS : IsList(s)
    <2>1. ASSUME NEW x, NEW y PROVE IsList(<<x, y>>)
      <3>1. <<x, y>> \in Seq({x, y})
        OBVIOUS
      <3> QED BY <3>1, ListOf
    <2> QED BY <2>1, Zenon DEF DUMP_SITE_HOSTS, LICENSE_ALLOWLIST_HOSTS
  <1>5. \A s \in DUMP_SITE_HOSTS \cup LICENSE_ALLOWLIST_HOSTS :
            IsSuffix(s, Lowered(host)) <=> InDomain(Lowered(host), s)
    BY <1>3, <1>4, Under
  <1>6. HostIsDumpSite(host) <=> \E s \in DUMP_SITE_HOSTS : InDomain(Lowered(host), s)
    BY <1>5 DEF HostIsDumpSite, UnderAny, Lowered
  <1>7. ASSUME HostOnLicenseAllowlist(host)
        PROVE  \E s \in LICENSE_ALLOWLIST_HOSTS \cup {<<"file">>} : InDomain(Lowered(host), s)
    <2>1. CASE UnderAny(host, LICENSE_ALLOWLIST_HOSTS)
      BY <1>5, <2>1 DEF UnderAny, Lowered
    <2>2. CASE Len(host) = 1 /\ Lower(host[1]) = "file"
      <3> DEFINE h == Lowered(host)
      <3>1. Len(h) = 1 /\ h[1] = "file" /\ h \in Seq(Range(h))
        BY <1>1, <1>3, <2>2, ListLen DEF Lowered, IsList
      <3> HIDE DEF h
      <3>2. SubSeq(h, 0 + 1, Len(h)) = h
        BY <3>1, SubSeqFull
      <3>3. h = <<"file">>
        BY <3>1
      <3>4. InDomain(h, <<"file">>)
        BY <3>1, <3>2, <3>3 DEF InDomain
      <3> QED BY <3>4 DEF h
    <2> QED BY <1>7, <2>1, <2>2 DEF HostOnLicenseAllowlist
  <1> QED BY <1>1, <1>2, <1>3, <1>6, <1>7 DEF host

\* The operations evaluate() knows are those the groups are about.
LEMMA Known ==
    KNOWN_OPERATIONS = {"midi.fetch", "project.save"} \cup DawAndDataOperations
        \cup ({"computer_use.invoke"} \cup ReadOperations) \cup WriteOperations
        \cup {"transport.control", "tempo.change"}
  BY DEF KNOWN_OPERATIONS, DawAndDataOperations, WriteOperations

-----------------------------------------------------------------------------
(* deny.txt and allow.txt *)

\* An Action deny.txt forbids meets a DENY rule before any other of its group.
LEMMA Forbidden ==
    ASSUME NEW a, IsAction(a), a.shape = "ok", DenyTextForbids(a)
    PROVE  Evaluate(a).decision = DENY
  <1>1. CASE a.operation \notin KNOWN_OPERATIONS
    BY <1>1, Evaluated DEF IsAction
  <1>2. SUFFICES ASSUME a.operation \in KNOWN_OPERATIONS PROVE FirstMatch(RULES(a)).decision = DENY
    BY <1>1, Evaluated DEF IsAction
  <1>3. CASE a.operation = "midi.fetch"
    <2>1. \/ ~ Says(a, "user_approved_this_turn", "True")
          \/ \E s \in DUMP_SITE_HOSTS : InDomain(Host(a), s)
      BY <1>3 DEF DenyTextForbids
    <2>2. ~ Says(a, "user_approved_this_turn", "True")
             => ~ IsTrue(Attr(a, "user_approved_this_turn", "None"))
      BY DEF Says, IsTrue, Attr
    <2> QED BY <1>3, <2>1, <2>2, HostRead, MidiFetch
  <1>4. CASE a.operation = "project.save"
    <2>1. Attr(a, "mode", "None") = "overwrite"
      BY <1>4 DEF DenyTextForbids, Says, Attr
    <2> QED BY <1>4, <2>1, ProjectSave
  <1>5. CASE a.operation \in DawAndDataOperations
    <2>1. a.operation = "track.mix_sources" => ~ Truthy(Attr(a, "labeled", "False"))
      BY <1>5 DEF DenyTextForbids, Denies, Silent, Truthy, Attr
    <2>2. a.operation = "data.send_external" => ~ Truthy(Attr(a, "is_model_api_in_use", "False"))
      BY <1>5 DEF DenyTextForbids, Denies, Silent, Truthy, Attr
    <2> QED BY <1>5, <2>1, <2>2, DawAndData
  <1>6. CASE a.operation = "computer_use.invoke"
    <2>1. /\ "daw" \in DOMAIN a.attributes /\ "capability" \in DOMAIN a.attributes
          /\ Lower(a.attributes["daw"]) \in Adapters(a.attributes["capability"])
      BY <1>6 DEF DenyTextForbids, Silent
    <2>2. \A op : Adapters(op) # {} => op \in ReadOperations /\ Adapters(op) \subseteq CAPABILITY_MATRIX[op]
      BY DEF Adapters, ReadOperations, CAPABILITY_MATRIX
    <2>3. mcp_supports(Attr(a, "daw", ""), Attr(a, "capability", ""))
      BY <2>1, <2>2 DEF mcp_supports, Attr
    <2> QED BY <1>6, <2>3, ComputerUseAndRead
  <1>7. a.operation \notin ReadOperations \cup WriteOperations \cup {"transport.control", "tempo.change"}
    BY DEF DenyTextForbids, ReadOperations, WriteOperations
  <1> QED BY <1>2, <1>3, <1>4, <1>5, <1>6, <1>7, Known

\* An Action deny.txt leaves to the user meets an ASK or a DENY rule.
LEMMA Reserved ==
    ASSUME NEW a, IsAction(a), a.shape = "ok", DenyTextReserves(a)
    PROVE  Evaluate(a).decision \in {ASK, DENY}
  <1>1. Evaluate(a).decision = FirstMatch(RULES(a)).decision
    BY Evaluated DEF IsAction, DenyTextReserves, KNOWN_OPERATIONS
  <1>2. CASE a.operation = "midi.fetch"
    <2>1. ~ HostOnLicenseAllowlist(Attr(a, "host", <<>>))
      BY <1>2, HostRead DEF DenyTextReserves
    <2> QED BY <1>1, <1>2, <2>1, MidiFetch
  <1>3. CASE a.operation = "project.save"
    <2>1. ~ (Attr(a, "mode", "None") = "save_as" /\ IsTrue(Attr(a, "user_requested_this_turn", "None")))
      BY <1>3 DEF DenyTextReserves, Says, Attr, IsTrue
    <2> QED BY <1>1, <1>3, <2>1, ProjectSave
  <1> QED BY <1>2, <1>3 DEF DenyTextReserves

\* evaluate() answers DENY to every well-formed Action policy/deny.txt bans, and ASK
\* or DENY to those it leaves to the user, for any attribute values; a computer use
\* only a write tool could stand in for is not counted as banned.
THEOREM DenyTextAlwaysWins == Spec => []DenyTextWins
  <1>1. PlanOK => DenyTextWins
    BY Forbidden, Reserved DEF PlanOK, DenyTextWins
  <1> QED BY <1>1, Typed, PTL

\* Of the malformed Actions only one is answered with ALLOW.
LEMMA MalformedAllowed ==
    ASSUME NEW a, a.shape \in Shape, a.shape # "ok", Evaluate(a).decision = ALLOW
    PROVE  a.shape = "no_attributes" /\ a.operation = "transport.control"
  <1>1. MalformedVerdict(a.shape, a.operation) = ALLOW
    BY Evaluated
  <1> QED BY <1>1 DEF MalformedVerdict, ALLOW, DENY, RAISE

\* What an Action must say for the rules to answer ALLOW.
LEMMA Allowed ==
    ASSUME NEW a, IsAction(a), Evaluate(a).decision = ALLOW
    PROVE  /\ AllowTextPermits(a)
           /\ \/ a.shape = "ok"
              \/ a.shape = "no_attributes" /\ a.operation = "transport.control"
  <1>0. CASE a.shape # "ok"
    <2>1. a.shape = "no_attributes" /\ a.operation = "transport.control"
      BY <1>0, MalformedAllowed DEF IsAction
    <2> QED BY <2>1 DEF AllowTextPermits
  <1> SUFFICES ASSUME a.shape = "ok" PROVE AllowTextPermits(a)
    BY <1>0
  <1>1. a.operation \in KNOWN_OPERATIONS /\ FirstMatch(RULES(a)).decision = ALLOW
    BY Evaluated DEF IsAction, ALLOW, DENY
  <1>2. ALLOW # DENY /\ ALLOW # ASK
    BY DEF ALLOW, DENY, ASK
  <1>3. CASE a.operation = "midi.fetch"
    <2>1. /\ IsTrue(Attr(a, "user_approved_this_turn", "None"))
          /\ HostOnLicenseAllowlist(Attr(a, "host", <<>>))
      BY <1>1, <1>2, <1>3, MidiFetch
    <2>2. Says(a, "user_approved_this_turn", "True")
      BY <2>1 DEF IsTrue, Attr, Says
    <2> QED BY <1>1, <1>3, <2>1, <2>2, HostRead DEF AllowTextPermits
  <1>4. CASE a.operation = "project.save"
    <2>1. Attr(a, "mode", "None") = "save_as" /\ IsTrue(Attr(a, "user_requested_this_turn", "None"))
      BY <1>1, <1>2, <1>4, ProjectSave
    <2>2. Says(a, "mode", "save_as") /\ Says(a, "user_requested_this_turn", "True")
      BY <2>1 DEF IsTrue, Attr, Says
    <2> QED BY <1>1, <1>4, <2>2 DEF AllowTextPermits
  <1>5. CASE a.operation \in DawAndDataOperations
    <2>1. \/ a.operation = "track.mix_sources" /\ Truthy(Attr(a, "labeled", "False"))
          \/ a.operation = "data.send_external" /\ Truthy(Attr(a, "is_model_api_in_use", "False"))
      BY <1>1, <1>2, <1>5, DawAndData
    <2>2. \A n : Truthy(Attr(a, n, "False")) => ~ Denies(a, n)
      BY DEF Truthy, Attr, Denies, Silent
    <2> QED BY <1>1, <2>1, <2>2 DEF AllowTextPermits
  <1>6. CASE a.operation \in {"computer_use.invoke"} \cup ReadOperations
    BY <1>1, <1>6 DEF AllowTextPermits
  <1>7. CASE a.operation \in WriteOperations
    <2>1. \A n : GenPrefixed(Attr(a, n, <<>>))
             => ~ Silent(a, n) /\ Len(a.attributes[n]) > 1 /\ a.attributes[n][1] = "GEN"
      BY DEF GenPrefixed, Attr, Silent
    <2>2. CASE a.operation = "midi.write"
      <3>1. Attr(a, "source", "None") = "generated" /\ GenPrefixed(Attr(a, "track", <<>>))
        BY <1>1, <1>2, <1>7, <2>2, Writes
      <3>2. Says(a, "source", "generated")
        BY <3>1 DEF Attr, Says
      <3> QED BY <1>1, <2>1, <2>2, <3>1, <3>2 DEF AllowTextPermits
    <2>3. CASE a.operation = "track.create"
      <3>1. GenPrefixed(Attr(a, "name", <<>>))
        BY <1>1, <1>2, <1>7, <2>3, Writes
      <3> QED BY <1>1, <2>1, <2>3, <3>1 DEF AllowTextPermits
    <2>4. CASE a.operation \in {"track.mixer_change", "device.param_change"}
      <3>1. GenPrefixed(Attr(a, "track", <<>>))
        BY <1>1, <1>2, <1>7, <2>4, Writes
      <3> QED BY <1>1, <2>1, <2>4, <3>1 DEF AllowTextPermits
    <2> QED BY <1>7, <2>2, <2>3, <2>4 DEF WriteOperations
  <1>8. CASE a.operation = "transport.control"
    BY <1>1, <1>8 DEF AllowTextPermits
  <1>9. CASE a.operation = "tempo.change"
    <2>1. IsTrue(Attr(a, "user_requested_this_turn", "None"))
      BY <1>1, <1>2, <1>9, TransportAndTempo
    <2>2. Says(a, "user_requested_this_turn", "True")
      BY <2>1 DEF IsTrue, Attr, Says
    <2> QED BY <1>1, <1>9, <2>2 DEF AllowTextPermits
  <1> QED BY <1>1, <1>3, <1>4, <1>5, <1>6, <1>7, <1>8, <1>9, Known

\* evaluate() answers ALLOW to nothing but what policy/allow.txt permits: it fails
\* closed on unknown operations, missing facts and whatever from_dict refuses; of
\* the Actions built in-process without attributes only a transport.control passes.
THEOREM OnlyListedAllowed == Spec => []AllowIsListed
  <1>1. PlanOK => AllowIsListed
    BY Allowed DEF PlanOK, AllowIsListed
  <1> QED BY <1>1, Typed, PTL

\* An approved fetch from host, as the Action reads.
Fetch(host) == [shape |-> "ok", operation |-> "midi.fetch",
                attributes |-> [n \in {"host", "user_approved_this_turn"} |->
                                   IF n = "host" THEN host ELSE "True"]]

\* rules.py mirrors license-allowlist.txt: a fetch the user approved is allowed
\* from the user's own machine and from every host at or under a listed site;
\* no dump site stands in the way.
THEOREM AllowlistFetched ==
    ASSUME NEW host, IsList(host),
           host = <<"file">> \/ \E site \in LICENSE_ALLOWLIST_HOSTS : IsSuffix(site, host)
    PROVE  Evaluate(Fetch(host)).decision = ALLOW
  <1> DEFINE h == Lowered(host)
             m == Len(host)
  <1>1. IsList(host) /\ m \in Nat /\ DOMAIN host = 1..m /\ \A i \in 1..m : h[i] = Lower(host[i])
    BY ListLen DEF Lowered
  <1>2. IsList(h) /\ Len(h) = m
    <2>1. h \in [1..m -> Range(h)]
      BY <1>1 DEF Lowered, Range
    <2>2. h \in Seq(Range(h)) /\ DOMAIN h = 1..m
      BY <1>1, <2>1
    <2> QED BY <1>1, <2>2, ListLen DEF IsList
  <1>3. \A x, y : IsList(<<x, y>>) /\ Len(<<x, y>>) = 2
    <2>1. ASSUME NEW x, NEW y PROVE IsList(<<x, y>>)
      <3>1. <<x, y>> \in Seq({x, y})
        OBVIOUS
      <3> QED BY <3>1, ListOf
    <2> QED BY <2>1
  <1> HIDE DEF h, m
  <1>4. ASSUME NEW s, IsList(s), Len(s) = 2
        PROVE  /\ IsSuffix(s, host) <=> 2 <= m /\ s[1] = host[m - 1] /\ s[2] = host[m]
               /\ IsSuffix(s, h) <=> 2 <= m /\ s[1] = h[m - 1] /\ s[2] = h[m]
    <2>1. \A g : (\A i \in 1..2 : s[i] = g[m - 2 + i]) <=> s[1] = g[m - 1] /\ s[2] = g[m]
      <3>1. m - 2 + 1 = m - 1 /\ m - 2 + 2 = m /\ \A i : i \in 1..2 <=> i = 1 \/ i = 2
        BY <1>1
      <3> QED BY <3>1
    <2>2. ASSUME NEW g, IsList(g), Len(g) = m
          PROVE  IsSuffix(s, g) <=> 2 <= m /\ \A i \in 1..2 : s[i] = g[m - 2 + i]
      <3>1. IsSuffix(s, g) <=> Len(s) <= Len(g) /\ \A i \in 1..Len(s) : s[i] = g[Len(g) - Len(s) + i]
        BY <1>4, <2>2, Ending, Zenon
      <3> QED BY <1>4, <2>2, <3>1
    <2>3. Len(host) = m
      BY DEF m
    <2> QED BY <1>1, <1>2, <2>1, <2>2, <2>3
  <1>s. ASSUME NEW x, NEW y
        PROVE  /\ IsSuffix(<<x, y>>, host) <=> 2 <= m /\ x = host[m - 1] /\ y = host[m]
               /\ IsSuffix(<<x, y>>, h) <=> 2 <= m /\ x = h[m - 1] /\ y = h[m]
    <2> DEFINE s == <<x, y>>
    <2>1. IsList(s) /\ Len(s) = 2 /\ s[1] = x /\ s[2] = y
      BY <1>3
    <2> HIDE DEF s
    <2>2. /\ IsSuffix(s, host) <=> 2 <= m /\ s[1] = host[m - 1] /\ s[2] = host[m]
          /\ IsSuffix(s, h) <=> 2 <= m /\ s[1] = h[m - 1] /\ s[2] = h[m]
      BY <1>4, <2>1
    <2>3. /\ IsSuffix(s, host) <=> 2 <= m /\ x = host[m - 1] /\ y = host[m]
          /\ IsSuffix(s, h) <=> 2 <= m /\ x = h[m - 1] /\ y = h[m]
      BY <2>1, <2>2
    <2> QED BY <2>3 DEF s
  <1>5. ~ HostIsDumpSite(host) /\ HostOnLicenseAllowlist(host)
    <2>1. CASE host = <<"file">>
      <3>1. m = 1 /\ Lower(host[1]) = "file"
        BY <2>1 DEF m, Lower, LowerCase
      <3>2. \A site \in DUMP_SITE_HOSTS : ~ IsSuffix(site, h)
        BY <1>s, <3>1, SMT DEF DUMP_SITE_HOSTS
      <3> QED BY <3>1, <3>2 DEF HostOnLicenseAllowlist, HostIsDumpSite, UnderAny, h, Lowered, m
    <2>2. CASE \E site \in LICENSE_ALLOWLIST_HOSTS : IsSuffix(site, host)
      <3>1. /\ 2 <= m /\ host[m] = "org"
            /\ host[m - 1] \in {"mutopiaproject", "freesound"}
            /\ <<host[m - 1], host[m]>> \in LICENSE_ALLOWLIST_HOSTS
        BY <1>s, <2>2, Zenon DEF LICENSE_ALLOWLIST_HOSTS
      <3>2. h[m] = host[m] /\ h[m - 1] = host[m - 1]
        <4>1. m \in 1..m /\ m - 1 \in 1..m
          BY <1>1, <3>1
        <4>2. \A s \in {"org", "mutopiaproject", "freesound"} : Lower(s) = s
          BY DEF Lower, LowerCase
        <4> QED BY <1>1, <3>1, <4>1, <4>2
      <3>3. \A site \in DUMP_SITE_HOSTS : ~ IsSuffix(site, h)
        BY <1>s, <3>1, <3>2, SMT DEF DUMP_SITE_HOSTS
      <3>4. \E site \in LICENSE_ALLOWLIST_HOSTS : IsSuffix(site, h)
        BY <1>s, <3>1, <3>2
      <3> QED BY <3>3, <3>4 DEF HostOnLicenseAllowlist, HostIsDumpSite, UnderAny, h, Lowered
    <2> QED BY <2>1, <2>2
  <1>6. LET a == Fetch(host)
        IN  /\ a.shape = "ok" /\ a.operation = "midi.fetch"
            /\ Attr(a, "host", <<>>) = host /\ IsTrue(Attr(a, "user_approved_this_turn", "None"))
    BY DEF Fetch, Attr, IsTrue
  <1>7. FirstMatch(RULES(Fetch(host))).decision = ALLOW
    BY <1>5, <1>6, MidiFetch
  <1>8. Fetch(host).shape \in Shape /\ Fetch(host).operation \in KNOWN_OPERATIONS
    BY <1>6 DEF Shape, KNOWN_OPERATIONS
  <1> QED BY <1>6, <1>7, <1>8, Evaluated

-----------------------------------------------------------------------------
(* The Actions of the MCP tools *)

\* What the write tools of mcp-reaper and mcp-ableton rely on (GatePolicy in
\* ReaperTools and AbletonTools), for every track name and whatever else their
\* Actions say: off the GEN- tracks nothing is ALLOW and generated MIDI is DENY,
\* and without the user's request no tempo change and no save is ALLOW.
THEOREM ToolsAreGated ==
    ASSUME NEW a, a.shape = "ok", NEW track
    PROVE  LET verdict   == Evaluate(a).decision
               requested == Says(a, "user_requested_this_turn", "True")
           IN  /\ a.operation = "track.create" /\ Says(a, "name", track)
                     => verdict = IF GenPrefixed(track) THEN ALLOW ELSE ASK
               /\ a.operation = "midi.write" /\ Says(a, "source", "generated") /\ Says(a, "track", track)
                     => verdict = IF GenPrefixed(track) THEN ALLOW ELSE DENY
               /\ a.operation \in {"track.mixer_change", "device.param_change"} /\ Says(a, "track", track)
                     => verdict = IF GenPrefixed(track) THEN ALLOW ELSE ASK
               /\ a.operation = "project.save" /\ Says(a, "mode", "save_as")
                     => verdict = IF requested THEN ALLOW ELSE ASK
               /\ a.operation = "tempo.change" => verdict = IF requested THEN ALLOW ELSE ASK
  <1> DEFINE verdict   == Evaluate(a).decision
             requested == Says(a, "user_requested_this_turn", "True")
             first     == FirstMatch(RULES(a)).decision
  <1>1. a.operation \in WriteOperations \cup {"project.save", "tempo.change"} => verdict = first
    BY Evaluated DEF Shape, KNOWN_OPERATIONS, WriteOperations
  <1>2. \A n, v, default : Says(a, n, v) => Attr(a, n, default) = v
    BY DEF Says, Attr
  <1>3. IsTrue(Attr(a, "user_requested_this_turn", "None")) <=> requested
    BY DEF Says, Attr, IsTrue
  <1> HIDE DEF requested
  <1>4. ASSUME a.operation = "track.create", Says(a, "name", track)
        PROVE  verdict = IF GenPrefixed(track) THEN ALLOW ELSE ASK
    <2>1. Attr(a, "name", <<>>) = track /\ a.operation \in WriteOperations
      BY <1>2, <1>4 DEF WriteOperations
    <2>2. first = IF GenPrefixed(Attr(a, "name", <<>>)) THEN ALLOW ELSE ASK
      BY <1>4, <2>1, Writes
    <2> QED BY <1>1, <2>1, <2>2
  <1>5. ASSUME a.operation = "midi.write", Says(a, "source", "generated"), Says(a, "track", track)
        PROVE  verdict = IF GenPrefixed(track) THEN ALLOW ELSE DENY
    <2>1. Attr(a, "track", <<>>) = track /\ Attr(a, "source", "None") = "generated" /\ a.operation \in WriteOperations
      BY <1>2, <1>5 DEF WriteOperations
    <2>2. first = IF Attr(a, "source", "None") = "generated" /\ GenPrefixed(Attr(a, "track", <<>>)) THEN ALLOW ELSE DENY
      BY <1>5, <2>1, Writes
    <2> QED BY <1>1, <2>1, <2>2
  <1>6. ASSUME a.operation \in {"track.mixer_change", "device.param_change"}, Says(a, "track", track)
        PROVE  verdict = IF GenPrefixed(track) THEN ALLOW ELSE ASK
    <2>1. Attr(a, "track", <<>>) = track /\ a.operation \in WriteOperations
      BY <1>2, <1>6 DEF WriteOperations
    <2>2. first = IF GenPrefixed(Attr(a, "track", <<>>)) THEN ALLOW ELSE ASK
      BY <1>6, <2>1, Writes
    <2> QED BY <1>1, <2>1, <2>2
  <1>7. ASSUME a.operation = "project.save", Says(a, "mode", "save_as")
        PROVE  verdict = IF requested THEN ALLOW ELSE ASK
    <2>1. Attr(a, "mode", "None") = "save_as"
      BY <1>2, <1>7
    <2>2. first = IF IsTrue(Attr(a, "user_requested_this_turn", "None")) THEN ALLOW ELSE ASK
      BY <1>7, <2>1, ProjectSave
    <2> QED BY <1>1, <1>3, <1>7, <2>2
  <1>8. ASSUME a.operation = "tempo.change"
        PROVE  verdict = IF requested THEN ALLOW ELSE ASK
    <2>1. first = IF IsTrue(Attr(a, "user_requested_this_turn", "None")) THEN ALLOW ELSE ASK
      BY <1>8, TransportAndTempo
    <2> QED BY <1>1, <1>3, <1>8, <2>1
  <1> QED BY <1>4, <1>5, <1>6, <1>7, <1>8 DEF requested

-----------------------------------------------------------------------------
(* Retracting facts, recording approvals *)

\* An Action answered with ALLOW keeps that answer when it says more.
LEMMA SayingMore ==
    ASSUME NEW a, IsAction(a), NEW b, IsAction(b),
           b.shape = a.shape, b.operation = a.operation, a.operation # "computer_use.invoke",
           DOMAIN b.attributes \subseteq DOMAIN a.attributes,
           \A n \in DOMAIN b.attributes : b.attributes[n] = a.attributes[n],
           Evaluate(b).decision = ALLOW
    PROVE  Evaluate(a).decision = ALLOW
  <1>0. CASE a.shape # "ok"
    BY <1>0, Evaluated DEF IsAction
  <1> SUFFICES ASSUME a.shape = "ok" PROVE Evaluate(a).decision = ALLOW
    BY <1>0
  <1>1. b.shape = "ok" /\ b.operation \in KNOWN_OPERATIONS /\ FirstMatch(RULES(b)).decision = ALLOW
    BY Evaluated DEF IsAction, ALLOW, DENY
  <1>2. SUFFICES FirstMatch(RULES(a)).decision = ALLOW
    BY <1>1, Evaluated DEF IsAction
  <1>3. ALLOW # DENY /\ ALLOW # ASK
    BY DEF ALLOW, DENY, ASK
  <1>4. \A n, default : Attr(b, n, default) # default => Attr(a, n, default) = Attr(b, n, default)
    BY DEF Attr
  <1>5. \A n : IsTrue(Attr(b, n, "None")) => IsTrue(Attr(a, n, "None"))
    BY <1>4 DEF IsTrue
  <1>6. \A n : GenPrefixed(Attr(b, n, <<>>)) => GenPrefixed(Attr(a, n, <<>>))
    BY DEF GenPrefixed, Attr
  <1>7. CASE a.operation = "midi.fetch"
    <2> DEFINE hostA == Attr(a, "host", <<>>)
               hostB == Attr(b, "host", <<>>)
    <2>1. /\ IsTrue(Attr(b, "user_approved_this_turn", "None"))
          /\ ~ HostIsDumpSite(hostB) /\ HostOnLicenseAllowlist(hostB)
      BY <1>1, <1>3, <1>7, MidiFetch
    <2>2. hostB # <<>>
      <3>1. PICK site \in LICENSE_ALLOWLIST_HOSTS \cup {<<"file">>} : InDomain(Host(b), site)
        BY <2>1, HostRead
      <3>2. Len(Host(b)) = Len(hostB) /\ IsList(Host(b))
        BY HostRead
      <3>3. ASSUME hostB = <<>> PROVE FALSE
        <4>1. Len(Host(b)) = 0 /\ \A sub \in 0..0 : SubSeq(Host(b), sub + 1, 0) = <<>>
          BY <3>2, <3>3, SubSeqEmpty
        <4>2. site = <<>>
          BY <3>1, <4>1 DEF InDomain
        <4> QED BY <3>1, <4>2 DEF LICENSE_ALLOWLIST_HOSTS
      <3> QED BY <3>3
    <2>3. hostA = hostB
      BY <1>4, <2>2
    <2> QED BY <1>5, <1>7, <2>1, <2>3, MidiFetch
  <1>8. CASE a.operation = "project.save"
    <2>1. Attr(b, "mode", "None") = "save_as" /\ IsTrue(Attr(b, "user_requested_this_turn", "None"))
      BY <1>1, <1>3, <1>8, ProjectSave
    <2>2. Attr(a, "mode", "None") = "save_as"
      BY <1>4, <2>1
    <2> QED BY <1>5, <1>8, <2>1, <2>2, ProjectSave
  <1>9. CASE a.operation \in DawAndDataOperations
    <2>1. \A n : Truthy(Attr(b, n, "False")) => Truthy(Attr(a, n, "False"))
      BY DEF Truthy, Attr
    <2> QED BY <1>1, <1>3, <1>9, <2>1, DawAndData
  <1>10. CASE a.operation \in ReadOperations
    BY <1>10, ComputerUseAndRead DEF ReadOperations
  <1>11. CASE a.operation = "midi.write"
    <2>1. Attr(b, "source", "None") = "generated" /\ GenPrefixed(Attr(b, "track", <<>>))
      BY <1>1, <1>3, <1>11, Writes DEF WriteOperations
    <2>2. Attr(a, "source", "None") = "generated"
      BY <1>4, <2>1
    <2> QED BY <1>6, <1>11, <2>1, <2>2, Writes DEF WriteOperations
  <1>12. CASE a.operation = "track.create"
    <2>1. GenPrefixed(Attr(b, "name", <<>>))
      BY <1>1, <1>3, <1>12, Writes DEF WriteOperations
    <2> QED BY <1>6, <1>12, <2>1, Writes DEF WriteOperations
  <1>13. CASE a.operation \in {"track.mixer_change", "device.param_change"}
    <2>1. GenPrefixed(Attr(b, "track", <<>>))
      BY <1>1, <1>3, <1>13, Writes DEF WriteOperations
    <2> QED BY <1>6, <1>13, <2>1, Writes DEF WriteOperations
  <1>14. CASE a.operation \in {"transport.control", "tempo.change"}
    <2>1. a.operation = "tempo.change" => IsTrue(Attr(b, "user_requested_this_turn", "None"))
      BY <1>1, <1>3, <1>14, TransportAndTempo
    <2> QED BY <1>5, <1>14, <2>1, TransportAndTempo
  <1> QED BY <1>1, <1>7, <1>8, <1>9, <1>10, <1>11, <1>12, <1>13, <1>14, Known DEF WriteOperations

\* A step leaves the shape and the operation of every proposed Action as they are.
LEMMA StepKeeps ==
    ASSUME PlanOK, Next, NEW i \in DOMAIN plan
    PROVE  /\ i \in DOMAIN plan'
           /\ plan'[i].shape = plan[i].shape /\ plan'[i].operation = plan[i].operation
           /\ IsAction(plan[i]) /\ IsAction(plan'[i])
  <1>0. plan \in Seq(Range(plan)) /\ DOMAIN plan = 1..Len(plan) /\ Len(plan) \in Nat
    BY ListLen DEF PlanOK, IsList
  <1>1. IsAction(plan[i])
    BY DEF PlanOK
  <1>2. ASSUME NEW a, plan' = Append(plan, a) PROVE i \in DOMAIN plan' /\ plan'[i] = plan[i]
    <2> DEFINE S == Range(plan) \cup {a}
    <2>1. plan \in Seq(S) /\ a \in S
      BY <1>0, SeqMonotonic
    <2>2. /\ plan' \in Seq(S) /\ Len(plan') = Len(plan) + 1
          /\ \A j \in 1..Len(plan) : plan'[j] = plan[j]
      BY <1>2, <2>1, AppendProperties
    <2> QED BY <1>0, <2>2, LenProperties
  <1>3. ASSUME NEW j \in DOMAIN plan, NEW a, plan' = [plan EXCEPT ![j] = a]
        PROVE  i \in DOMAIN plan' /\ plan'[i] = IF i = j THEN a ELSE plan[i]
    BY <1>3
  <1> QED BY <1>1, <1>2, <1>3, Steps

\* Leaving facts out of an Action never gains it an ALLOW from evaluate(), for every
\* operation but computer_use.invoke.
THEOREM RetractionAllowsOnlyComputerUse == Spec => RetractionNeverAllowsElsewhere
  <1>1. ASSUME PlanOK, [Next]_plan, NEW i \in DOMAIN plan,
               Retracts(i), plan[i].operation # "computer_use.invoke",
               Evaluate(plan'[i]).decision = ALLOW
        PROVE  Evaluate(plan[i]).decision = ALLOW
    <2>1. Next
      BY <1>1 DEF Retracts
    <2>2. /\ plan'[i].shape = plan[i].shape /\ plan'[i].operation = plan[i].operation
          /\ IsAction(plan[i]) /\ IsAction(plan'[i])
      BY <1>1, <2>1, StepKeeps
    <2>3. /\ DOMAIN plan'[i].attributes \subseteq DOMAIN plan[i].attributes
          /\ \A n \in DOMAIN plan'[i].attributes : plan'[i].attributes[n] = plan[i].attributes[n]
      BY <1>1 DEF Retracts
    <2> QED BY <1>1, <2>2, <2>3, SayingMore
  <1>2. PlanOK /\ [Next]_plan =>
           [\A i \in DOMAIN plan :
               Retracts(i) /\ plan[i].operation # "computer_use.invoke"
                 /\ Evaluate(plan'[i]).decision = ALLOW
                 => Evaluate(plan[i]).decision = ALLOW]_plan
    BY <1>1
  <1> QED BY <1>2, Typed, PTL DEF Spec, RetractionNeverAllowsElsewhere

\* An Action refused for anything but a missing approval stays refused with one.
LEMMA Approval ==
    ASSUME NEW a, IsAction(a), NEW n \in Approvals, NEW v,
           Evaluate(a).decision = DENY, Evaluate(a).rule_id # "MIDI_FETCH_NO_APPROVAL"
    PROVE  Evaluate(WithAttributes(a, [m \in {n} |-> v])).decision = DENY
  <1> DEFINE new == [m \in {n} |-> v]
             b   == WithAttributes(a, new)
  <1>1. DOMAIN new = {n}
    OBVIOUS
  <1>2. /\ b = [shape |-> a.shape, operation |-> a.operation, attributes |-> b.attributes]
        /\ DOMAIN b.attributes = DOMAIN a.attributes \cup {n}
        /\ \A m \in DOMAIN a.attributes \ {n} : b.attributes[m] = a.attributes[m]
    <2> HIDE DEF new
    <2> QED BY <1>1, Filled
  <1> HIDE DEF b
  <1>3. b.shape = a.shape /\ b.operation = a.operation /\ b.shape \in Shape
    BY <1>2 DEF IsAction
  <1>4. \A m, default : m \notin Approvals => Attr(b, m, default) = Attr(a, m, default)
    BY <1>2 DEF Attr
  <1>5. Approvals = {"user_approved_this_turn", "user_requested_this_turn"}
    BY DEF Approvals
  <1>6. ALLOW # DENY /\ ALLOW # ASK /\ ASK # DENY /\ RAISE # DENY
    BY DEF ALLOW, DENY, ASK, RAISE
  <1>7. CASE a.shape # "ok"
    BY <1>3, <1>7, Evaluated DEF b
  <1>8. CASE a.shape = "ok" /\ a.operation \notin KNOWN_OPERATIONS
    BY <1>3, <1>8, Evaluated DEF b
  <1>9. CASE a.shape = "ok" /\ a.operation \in KNOWN_OPERATIONS
    <2>1. /\ FirstMatch(RULES(a)).decision = DENY
          /\ FirstMatch(RULES(a)).rule_id # "MIDI_FETCH_NO_APPROVAL"
      BY <1>9, Evaluated DEF IsAction
    <2>2. SUFFICES FirstMatch(RULES(b)).decision = DENY
      BY <1>3, <1>9, Evaluated DEF b
    <2>3. CASE a.operation = "midi.fetch"
      <3>1. HostIsDumpSite(Attr(a, "host", <<>>))
        BY <1>6, <2>1, <2>3, MidiFetch
      <3>2. Attr(b, "host", <<>>) = Attr(a, "host", <<>>)
        BY <1>4, <1>5
      <3> QED BY <1>3, <2>3, <3>1, <3>2, MidiFetch
    <2>4. CASE a.operation = "project.save"
      <3>1. Attr(a, "mode", "None") # "save_as"
        BY <1>6, <2>1, <2>4, ProjectSave
      <3>2. Attr(b, "mode", "None") = Attr(a, "mode", "None")
        BY <1>4, <1>5
      <3> QED BY <1>3, <2>4, <3>1, <3>2, ProjectSave
    <2>5. CASE a.operation \in DawAndDataOperations
      <3>1. /\ Attr(b, "labeled", "False") = Attr(a, "labeled", "False")
            /\ Attr(b, "is_model_api_in_use", "False") = Attr(a, "is_model_api_in_use", "False")
        BY <1>4, <1>5
      <3> QED BY <1>3, <1>6, <2>1, <2>5, <3>1, DawAndData
    <2>6. CASE a.operation \in {"computer_use.invoke"} \cup ReadOperations
      <3>1. /\ Attr(b, "daw", "") = Attr(a, "daw", "")
            /\ Attr(b, "capability", "") = Attr(a, "capability", "")
        BY <1>4, <1>5
      <3> QED BY <1>3, <1>6, <2>1, <2>6, <3>1, ComputerUseAndRead
    <2>7. CASE a.operation \in WriteOperations
      <3>1. /\ Attr(b, "source", "None") = Attr(a, "source", "None")
            /\ Attr(b, "track", <<>>) = Attr(a, "track", <<>>)
            /\ Attr(b, "name", <<>>) = Attr(a, "name", <<>>)
        BY <1>4, <1>5
      <3> QED BY <1>3, <1>6, <2>1, <2>7, <3>1, Writes DEF WriteOperations
    <2>8. CASE a.operation \in {"transport.control", "tempo.change"}
      BY <1>6, <2>1, <2>8, TransportAndTempo
    <2> QED BY <1>9, <2>3, <2>4, <2>5, <2>6, <2>7, <2>8, Known
  <1> QED BY <1>7, <1>8, <1>9

\* "Never allowed, regardless of approval": recording an approval in an Action turns
\* no DENY of evaluate() into anything else, but for MIDI_FETCH_NO_APPROVAL's.
THEOREM ApprovalOnlyLiftsItsOwnDeny == Spec => ApprovalLiftsNoDeny
  <1>1. ASSUME PlanOK, NEW i \in DOMAIN plan, NEW n \in Approvals, NEW v \in {"True", "1"},
               plan'[i] = WithAttributes(plan[i], [m \in {n} |-> v]),
               Evaluate(plan[i]).decision = DENY,
               Evaluate(plan[i]).rule_id # "MIDI_FETCH_NO_APPROVAL"
        PROVE  Evaluate(plan'[i]).decision = DENY
    <2>1. IsAction(plan[i])
      BY <1>1 DEF PlanOK
    <2>2. Evaluate(WithAttributes(plan[i], [m \in {n} |-> v])).decision = DENY
      BY <1>1, <2>1, Approval
    <2> QED BY <1>1, <2>2
  <1>2. PlanOK /\ [Next]_plan =>
           [\A i \in DOMAIN plan : \A n \in Approvals, v \in {"True", "1"} :
              /\ i \in DOMAIN plan' /\ plan'[i] = WithAttributes(plan[i], [m \in {n} |-> v])
              /\ Evaluate(plan[i]).decision = DENY
              /\ Evaluate(plan[i]).rule_id # "MIDI_FETCH_NO_APPROVAL"
              => Evaluate(plan'[i]).decision = DENY]_plan
    BY <1>1, Zenon
  <1> QED BY <1>2, Typed, PTL DEF Spec, ApprovalLiftsNoDeny

-----------------------------------------------------------------------------
(* The worst decision of a plan *)

Verdicts == {ALLOW, ASK, DENY}

Worse(worst, d) == IF Severity[d.decision] > Severity[worst] THEN d.decision ELSE worst

\* The equation the fold of worst_decision is defined by, for the sets of
\* positions within `within`.
Folds(f, within, ds) ==
    \A s \in SUBSET within :
        f[s] = IF s = {} THEN ALLOW ELSE Worse(f[s \ {Max(s)}], ds[Max(s)])

\* Max finds a greatest element where there is one.
LEMMA MaxIs ==
    ASSUME NEW S, S \subseteq Int, NEW x \in S, \A y \in S : x >= y
    PROVE  Max(S) = x
  <1> DEFINE y == CHOOSE z \in S : \A v \in S : z >= v
  <1>1. y \in S /\ \A v \in S : y >= v
    OBVIOUS
  <1>2. y >= x /\ x >= y /\ x \in Int /\ y \in Int
    BY <1>1
  <1>3. y = x
    <2> HIDE DEF y
    <2> QED BY <1>2
  <1> QED BY <1>3 DEF Max

\* The equation has a solution, for any number of positions.
LEMMA FoldExists ==
    ASSUME NEW ds, NEW n \in Nat
    PROVE  \E f : f = [s \in SUBSET (1..n) |-> f[s]] /\ Folds(f, 1..n, ds)
  <1> DEFINE P(m) == \E f : f = [s \in SUBSET (1..m) |-> f[s]] /\ Folds(f, 1..m, ds)
             T    == {m \in Nat : ~ P(m)}
  <1>1. P(0)
    <2> DEFINE f == [s \in SUBSET (1..0) |-> ALLOW]
    <2>1. \A s \in SUBSET (1..0) : s = {} /\ f[s] = ALLOW
      OBVIOUS
    <2> HIDE DEF f
    <2>2. Folds(f, 1..0, ds)
      BY <2>1 DEF Folds
    <2>3. f = [s \in SUBSET (1..0) |-> f[s]]
      BY DEF f
    <2> QED BY <2>2, <2>3
  <1>2. ASSUME NEW m \in Nat, P(m) PROVE P(m + 1)
    <2>1. PICK f : f = [s \in SUBSET (1..m) |-> f[s]] /\ Folds(f, 1..m, ds)
      BY <1>2
    <2> DEFINE g == [s \in SUBSET (1..(m + 1)) |->
                        IF s \in SUBSET (1..m) THEN f[s] ELSE Worse(f[s \ {Max(s)}], ds[Max(s)])]
    <2>2. ASSUME NEW s \in SUBSET (1..(m + 1)), s \notin SUBSET (1..m)
          PROVE  Max(s) = m + 1 /\ s \ {Max(s)} \in SUBSET (1..m) /\ s # {}
      <3>1. m + 1 \in s
        BY <2>2
      <3>2. Max(s) = m + 1
        <4>1. s \subseteq Int /\ \A y \in s : m + 1 >= y
          OBVIOUS
        <4> QED BY <3>1, <4>1, MaxIs
      <3> QED BY <3>1, <3>2
    <2>3. /\ g = [s \in SUBSET (1..(m + 1)) |-> g[s]]
          /\ \A s \in SUBSET (1..m) : g[s] = f[s]
          /\ \A s \in SUBSET (1..(m + 1)) :
                s \notin SUBSET (1..m) => g[s] = Worse(f[s \ {Max(s)}], ds[Max(s)])
      OBVIOUS
    <2> HIDE DEF g
    <2>4. ASSUME NEW s \in SUBSET (1..(m + 1))
          PROVE  g[s] = IF s = {} THEN ALLOW ELSE Worse(g[s \ {Max(s)}], ds[Max(s)])
      <3>1. CASE s \in SUBSET (1..m)
        <4>1. f[s] = IF s = {} THEN ALLOW ELSE Worse(f[s \ {Max(s)}], ds[Max(s)])
          BY <2>1, <3>1 DEF Folds
        <4>2. g[s] = f[s] /\ g[s \ {Max(s)}] = f[s \ {Max(s)}]
          BY <2>3, <3>1
        <4> QED BY <4>1, <4>2
      <3>2. CASE s \notin SUBSET (1..m)
        <4>1. s # {} /\ g[s \ {Max(s)}] = f[s \ {Max(s)}]
          BY <2>2, <2>3, <3>2
        <4> QED BY <2>3, <3>2, <4>1
      <3> QED BY <3>1, <3>2
    <2>5. Folds(g, 1..(m + 1), ds)
      BY <2>4 DEF Folds
    <2> QED BY <2>3, <2>5
  <1> HIDE DEF P
  <1>3. T = {}
    <2> SUFFICES ASSUME T # {} PROVE FALSE
      OBVIOUS
    <2>1. PICK m \in T : \A k \in T : m <= k
      BY LeastNat
    <2>2. m # 0 /\ m - 1 \in Nat /\ (m - 1) \notin T
      BY <1>1, <2>1
    <2>3. P((m - 1) + 1)
      BY <1>2, <2>2
    <2> QED BY <2>1, <2>2, <2>3
  <1>4. P(n)
    BY <1>3
  <1> QED BY <1>4 DEF P

\* The recursive function worst_decision folds with.
FoldOf(ds) ==
    CHOOSE f : f = [s \in SUBSET DOMAIN ds |->
                       IF s = {} THEN ALLOW ELSE Worse(f[s \ {Max(s)}], ds[Max(s)])]

\* So the fold of worst_decision is that solution, at all the positions.
LEMMA FoldIs ==
    ASSUME NEW ds, NEW n \in Nat, DOMAIN ds = 1..n
    PROVE  worst_decision(ds) = FoldOf(ds)[1..n] /\ Folds(FoldOf(ds), 1..n, ds)
  <1>1. worst_decision(ds) = FoldOf(ds)[1..n]
    BY DEF worst_decision, FoldLeft, MapThenFoldSet, FoldOf, Worse
  <1>2. PICK f : f = [s \in SUBSET (1..n) |-> f[s]] /\ Folds(f, 1..n, ds)
    BY FoldExists
  <1>3. f = [s \in SUBSET DOMAIN ds |->
                IF s = {} THEN ALLOW ELSE Worse(f[s \ {Max(s)}], ds[Max(s)])]
    BY <1>2 DEF Folds
  <1>4. FoldOf(ds) = [s \in SUBSET DOMAIN ds |->
                IF s = {} THEN ALLOW ELSE Worse(FoldOf(ds)[s \ {Max(s)}], ds[Max(s)])]
    BY <1>3 DEF FoldOf
  <1> QED BY <1>1, <1>4 DEF Folds

\* worst_decision is one of the decisions, and none is worse.
LEMMA WorstIsWorst ==
    ASSUME NEW ds, NEW n \in Nat, DOMAIN ds = 1..n, \A i \in 1..n : ds[i].decision \in Verdicts
    PROVE  LET worst == worst_decision(ds)
           IN  /\ worst \in Verdicts
               /\ \A i \in 1..n : Severity[ds[i].decision] <= Severity[worst]
               /\ worst = ALLOW \/ \E i \in 1..n : worst = ds[i].decision
  <1> DEFINE W(m) == FoldOf(ds)[1..m]
             P(m) == /\ W(m) \in Verdicts
                     /\ \A i \in 1..m : Severity[ds[i].decision] <= Severity[W(m)]
                     /\ W(m) = ALLOW \/ \E i \in 1..m : W(m) = ds[i].decision
             T    == {m \in 0..n : ~ P(m)}
  <1>0. /\ worst_decision(ds) = W(n)
        /\ \A s \in SUBSET (1..n) : FoldOf(ds)[s] =
              IF s = {} THEN ALLOW ELSE Worse(FoldOf(ds)[s \ {Max(s)}], ds[Max(s)])
    BY FoldIs DEF Folds
  <1>1. W(0) = ALLOW
    <2>1. 1..0 = {} /\ 1..0 \in SUBSET (1..n)
      OBVIOUS
    <2> QED BY <1>0, <2>1
  <1>2. ASSUME NEW m \in 0..(n - 1) PROVE W(m + 1) = Worse(W(m), ds[m + 1])
    <2>1. Max(1..(m + 1)) = m + 1
      <3>1. 1..(m + 1) \subseteq Int /\ m + 1 \in 1..(m + 1) /\ \A y \in 1..(m + 1) : m + 1 >= y
        OBVIOUS
      <3> QED BY <3>1, MaxIs
    <2>2. (1..(m + 1)) \ {m + 1} = 1..m /\ 1..(m + 1) # {} /\ 1..(m + 1) \in SUBSET (1..n)
      OBVIOUS
    <2> QED BY <1>0, <2>1, <2>2
  <1>3. /\ \A v \in Verdicts : Severity[v] \in 0..2
        /\ ALLOW \in Verdicts
    BY DEF Verdicts, Severity, ALLOW, ASK, DENY
  <1> HIDE DEF W
  <1>4. P(0)
    BY <1>1, <1>3
  <1>5. ASSUME NEW m \in 0..(n - 1), P(m) PROVE P(m + 1)
    <2>1. ds[m + 1].decision \in Verdicts /\ W(m) \in Verdicts
      BY <1>5
    <2>2. CASE Severity[ds[m + 1].decision] > Severity[W(m)]
      <3>1. W(m + 1) = ds[m + 1].decision
        BY <1>2, <2>2 DEF Worse
      <3>2. \A i \in 1..(m + 1) : Severity[ds[i].decision] <= Severity[W(m + 1)]
        <4> TAKE i \in 1..(m + 1)
        <4>1. CASE i = m + 1
          BY <1>3, <2>1, <3>1, <4>1
        <4>2. CASE i \in 1..m
          BY <1>3, <1>5, <2>1, <2>2, <3>1, <4>2
        <4> QED BY <4>1, <4>2
      <3> QED BY <2>1, <3>1, <3>2
    <2>3. CASE ~ (Severity[ds[m + 1].decision] > Severity[W(m)])
      <3>1. W(m + 1) = W(m)
        BY <1>2, <2>3 DEF Worse
      <3>2. \A i \in 1..(m + 1) : Severity[ds[i].decision] <= Severity[W(m + 1)]
        <4> TAKE i \in 1..(m + 1)
        <4>1. CASE i = m + 1
          BY <1>3, <2>1, <2>3, <3>1, <4>1
        <4>2. CASE i \in 1..m
          BY <1>5, <3>1, <4>2
        <4> QED BY <4>1, <4>2
      <3> QED BY <1>5, <3>1, <3>2
    <2> QED BY <2>2, <2>3
  <1>6. P(n)
    <2> HIDE DEF P
    <2> SUFFICES ASSUME T # {} PROVE FALSE
      OBVIOUS
    <2>1. T \in SUBSET Nat
      OBVIOUS
    <2>2. PICK m \in T : \A k \in T : m <= k
      BY <2>1, LeastNat
    <2>3. m # 0 /\ m - 1 \in 0..(n - 1) /\ (m - 1) \notin T
      BY <1>4, <2>2
    <2>4. P((m - 1) + 1)
      BY <1>5, <2>3
    <2> QED BY <2>2, <2>3, <2>4
  <1> QED BY <1>0, <1>6

\* Every Action is decided, or raises.
LEMMA Decided ==
    ASSUME NEW a, IsAction(a)
    PROVE  Evaluate(a).decision \in Verdicts \cup {RAISE}
  <1>1. a.shape \in Shape /\ ALLOW \in Verdicts /\ ASK \in Verdicts /\ DENY \in Verdicts
    BY DEF IsAction, Verdicts
  <1>2. CASE a.shape # "ok" \/ a.operation \notin KNOWN_OPERATIONS
    <2>1. \A shape, operation : MalformedVerdict(shape, operation) \in {ALLOW, DENY, RAISE}
      BY DEF MalformedVerdict
    <2> QED BY <1>1, <1>2, <2>1, Evaluated
  <1>3. CASE a.shape = "ok" /\ a.operation \in KNOWN_OPERATIONS
    <2>1. SUFFICES FirstMatch(RULES(a)).decision \in Verdicts
      BY <1>1, <1>3, Evaluated
    <2>2. CASE a.operation = "midi.fetch"
      BY <1>1, <2>2, MidiFetch
    <2>3. CASE a.operation = "project.save"
      BY <1>1, <2>3, ProjectSave
    <2>4. CASE a.operation \in DawAndDataOperations
      BY <1>1, <2>4, DawAndData
    <2>5. CASE a.operation \in {"computer_use.invoke"} \cup ReadOperations
      BY <1>1, <2>5, ComputerUseAndRead
    <2>6. CASE a.operation \in WriteOperations
      BY <1>1, <2>6, Writes DEF WriteOperations
    <2>7. CASE a.operation \in {"transport.control", "tempo.change"}
      BY <1>1, <2>7, TransportAndTempo
    <2> QED BY <1>3, <2>2, <2>3, <2>4, <2>5, <2>6, <2>7, Known
  <1> QED BY <1>2, <1>3

\* What the CLI exits with.
LEMMA Exits ==
    /\ \A p : cli_main(TRUE, Array(p)) = Severity[worst_decision(evaluate_plan(p))]
    /\ \A p : cli_main(FALSE, Array(p)) = 2
    /\ \A a : cli_main(FALSE, Single(a)) = Severity[Evaluate(a).decision]
    /\ \A a : cli_main(TRUE, Single(a)) = 2
    /\ \A planFlag \in BOOLEAN : cli_main(planFlag, NoJson) = 2
  <1>1. Severity[DENY] = 2
    BY DEF Severity, DENY
  <1>2. Evaluate(AsAnArray).decision = DENY
    BY DEF Evaluate, AsAnArray, Refused, Decision
  <1>3. \A p : cli_main(TRUE, Array(p)) = Severity[worst_decision(evaluate_plan(p))]
    BY DEF cli_main, Array
  <1>4. \A p : cli_main(FALSE, Array(p)) = 2
    BY <1>1, <1>2 DEF cli_main, Array
  <1>5. \A a : cli_main(FALSE, Single(a)) = Severity[Evaluate(a).decision]
    BY DEF cli_main, Single
  <1>6. \A a : cli_main(TRUE, Single(a)) = 2
    BY <1>1 DEF cli_main, Single
  <1>7. \A planFlag \in BOOLEAN : cli_main(planFlag, NoJson) = 2
    BY <1>1 DEF cli_main, NoJson
  <1> QED BY <1>3, <1>4, <1>5, <1>6, <1>7

\* For plans of any length the CLI exits with the worst of the exit codes its steps
\* get one by one, plan_is_clear says exactly that all are ALLOW, and input given in
\* the wrong mode, or no JSON at all, exits 2.
THEOREM PlanAsBadAsItsWorst == Spec => []PlanVerdictIsWorst
  <1>1. ASSUME PlanOK, ~ Raises(plan) PROVE PlanVerdictIsWorst
    <2> DEFINE n     == Len(plan)
               ds    == evaluate_plan(plan)
               exits == {cli_main(FALSE, Single(plan[i])) : i \in DOMAIN plan}
               worst == worst_decision(ds)
    <2>1. n \in Nat /\ DOMAIN plan = 1..n /\ DOMAIN ds = 1..n
      BY <1>1, ListLen DEF PlanOK, evaluate_plan
    <2>2. \A i \in 1..n : ds[i].decision = Evaluate(plan[i]).decision /\ ds[i].decision \in Verdicts
      BY <1>1, <2>1, Decided DEF PlanOK, evaluate_plan, Raises
    <2> HIDE DEF ds
    <2>3. /\ worst \in Verdicts
          /\ \A i \in 1..n : Severity[ds[i].decision] <= Severity[worst]
          /\ worst = ALLOW \/ \E i \in 1..n : worst = ds[i].decision
      BY <2>1, <2>2, WorstIsWorst
    <2> HIDE DEF worst
    <2>4. /\ \A v \in Verdicts : Severity[v] \in 0..2 /\ (Severity[v] = 0 <=> v = ALLOW)
          /\ ALLOW \in Verdicts
      BY DEF Verdicts, Severity, ALLOW, ASK, DENY
    <2>5. \A i \in DOMAIN plan : cli_main(FALSE, Single(plan[i])) = Severity[ds[i].decision]
      BY <2>1, <2>2, Exits
    <2>6. Max({0} \cup exits) = Severity[worst]
      <3>1. ASSUME NEW y \in {0} \cup exits PROVE y \in Int /\ Severity[worst] >= y
        <4>1. CASE y = 0
          BY <2>3, <2>4, <4>1
        <4>2. CASE y \in exits
          <5>1. PICK i \in DOMAIN plan : y = cli_main(FALSE, Single(plan[i]))
            BY <4>2
          <5>2. i \in 1..n /\ y = Severity[ds[i].decision]
            BY <2>1, <2>5, <5>1
          <5> QED BY <2>2, <2>3, <2>4, <5>2
        <4> QED BY <4>1, <4>2
      <3>2. Severity[worst] \in {0} \cup exits
        <4>1. CASE worst = ALLOW
          BY <2>4, <4>1
        <4>2. ASSUME NEW i \in 1..n, worst = ds[i].decision PROVE Severity[worst] \in exits
          BY <2>1, <2>5, <4>2
        <4> QED BY <2>3, <4>1, <4>2
      <3> HIDE DEF exits
      <3> QED BY <3>1, <3>2, MaxIs
    <2>7. cli_main(TRUE, Array(plan)) = Severity[worst]
      BY Exits DEF worst, ds
    <2>8. plan_is_clear(evaluate_plan(plan)) <=>
             \A i \in DOMAIN plan : Evaluate(plan[i]).decision = ALLOW
      <3>1. plan_is_clear(evaluate_plan(plan)) <=> worst = ALLOW
        BY DEF plan_is_clear, worst, ds
      <3>2. worst = ALLOW => \A i \in 1..n : ds[i].decision = ALLOW
        BY <2>2, <2>3, <2>4
      <3>3. (\A i \in 1..n : ds[i].decision = ALLOW) => worst = ALLOW
        BY <2>3
      <3> QED BY <2>1, <2>2, <3>1, <3>2, <3>3
    <2> QED BY <2>6, <2>7, <2>8, Exits DEF PlanVerdictIsWorst
  <1>2. PlanOK => PlanVerdictIsWorst
    BY <1>1 DEF PlanVerdictIsWorst
  <1> QED BY <1>2, Typed, PTL
=============================================================================
