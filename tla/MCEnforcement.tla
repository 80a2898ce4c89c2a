---------------------------- MODULE MCEnforcement ----------------------------
(* The enforcement boundary on top of the Policy Engine itself: a fetch with *)
(* attributes the engine answers in three different ways.  "broken" is a     *)
(* malformed one: a schema error in a dict (its target is no string),        *)
(* unforeseen in an Action instance (its attributes are no dict).            *)
EXTENDS Enforcement

PE == INSTANCE PolicyEngine WITH
        plan <- <<>>, Operations <- <<>>, Shapes <- {}, Vocabulary <- <<>>,
        Values <- <<>>, Readings <- <<>>, MaxSnapshots <- 0

Raw(shape, op, attributes) == [shape |-> shape, operation |-> op, attributes |-> attributes]

ActionOf(form, content) ==
    LET Fetch(shape, attributes) == Raw(shape, "midi.fetch", attributes) IN
    CASE content = "listed"     -> Fetch("ok", [host |-> <<"freesound", "org">>,
                                                user_approved_this_turn |-> "True"])
      [] content = "unlisted"   -> Fetch("ok", [host |-> <<"example", "com">>,
                                                user_approved_this_turn |-> "True"])
      [] content = "unapproved" -> Fetch("ok", [host |-> <<"freesound", "org">>])
      [] content = "broken"     -> Fetch(IF form = "dict" THEN "bad_target" ELSE "no_attributes", <<>>)

MCUnparsable == {content \in Contents : ActionOf("dict", content).shape \in PE!Refused}

MCDecisionOf ==
    [form \in Forms |-> [content \in Contents |-> PE!Evaluate(ActionOf(form, content)).decision]]
=============================================================================
