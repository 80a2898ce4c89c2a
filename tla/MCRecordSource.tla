---------------------------- MODULE MCRecordSource ----------------------------
(* RecordSource for TLC, compared with the Policy Engine's midi.fetch rules. *)
EXTENDS RecordSource

PE == INSTANCE PolicyEngine WITH
        plan <- <<>>, Operations <- <<>>, Shapes <- {}, Vocabulary <- <<>>,
        Values <- <<>>, Readings <- <<>>, MaxSnapshots <- 0

Url(scheme, host) == [scheme |-> scheme, host |-> host]

MCUrls == {Url("file", <<>>), Url("https", <<"www", "mutopiaproject", "org">>),
           Url("https", <<"freesound", "org">>), Url("https", <<"freesound", "org", "evil">>)}

MCAllowlist == {<<"mutopiaproject", "org">>, <<"freesound", "org">>}

Fetch(host) == [shape |-> "ok", operation |-> "midi.fetch",
                attributes |-> [host |-> host, user_approved_this_turn |-> "True"]]

MCFetchAllowed == {h \in {host_of(u) : u \in Urls} : PE!Evaluate(Fetch(h)).decision = "ALLOW"}

MCInitialFiles == {Absent, <<>>, Corrupt}
=============================================================================
