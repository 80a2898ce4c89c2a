---------------------------- MODULE MCAbletonTools ----------------------------
(* AbletonTools for TLC, gated by the Policy Engine itself.                  *)
EXTENDS AbletonTools

PE == INSTANCE PolicyEngine WITH
        plan <- <<>>, Operations <- <<>>, Shapes <- {}, Vocabulary <- <<>>,
        Values <- <<>>, Readings <- <<>>, MaxSnapshots <- 0

\* The host and name labels the engine compares.
Label(name) == IF name \in GenNames THEN <<"GEN", "bass">> ELSE <<"vocals">>

Flag(b) == IF b THEN "True" ELSE "False"

ActionOf(tool, track, requested) ==
    LET Raw(op, attributes) == [shape |-> "ok", operation |-> op, attributes |-> attributes] IN
    CASE tool = "create_track"         -> Raw("track.create", [name |-> Label(track)])
      [] tool = "write_generated_midi" -> Raw("midi.write", [source |-> "generated", track |-> Label(track)])
      [] tool = "set_mixer_property"   -> Raw("track.mixer_change", [track |-> Label(track)])
      [] tool = "set_device_parameter" -> Raw("device.param_change", [track |-> Label(track)])
      [] tool = "control_transport"    -> Raw("transport.control", <<>>)
      [] tool = "set_tempo"            -> Raw("tempo.change", [user_requested_this_turn |-> Flag(requested)])

MCVerdictOf ==
    [tool \in Tools |-> [track \in Names |-> [requested \in BOOLEAN |->
        PE!Evaluate(ActionOf(tool, track, requested)).decision]]]

MCTunes == {<<"e">>}

\* An empty set, and one with a track of the user's and a GEN- track in use.
MCInitialTracks ==
    {<<>>,
     <<Track("vocals"), [Track("GEN-bass") EXCEPT !.clip = <<"c">>]>>}
=============================================================================
