---------------------------- MODULE MCReaperTools ----------------------------
(* ReaperTools for TLC, gated by the Policy Engine itself.                   *)
EXTENDS ReaperTools, TLC

PE == INSTANCE PolicyEngine WITH
        plan <- <<>>, Operations <- <<>>, Shapes <- {}, Vocabulary <- <<>>,
        Values <- <<>>, Readings <- <<>>, MaxSnapshots <- 0

\* The labels of a track name, as the engine compares them.
Label(track) == IF track \in GenNames THEN <<"GEN", "bass">> ELSE <<"vocals">>

ActionOf(tool, track, requested) ==
    LET Raw(op, attributes) == [shape |-> "ok", operation |-> op, attributes |-> attributes] IN
    CASE tool = "create_track"         -> Raw("track.create", [name |-> Label(track)])
      [] tool = "write_generated_midi" -> Raw("midi.write", [source |-> "generated", track |-> Label(track)])
      [] tool = "save_project_as"      ->
            Raw("project.save", [mode |-> "save_as",
                                 user_requested_this_turn |-> IF requested THEN "True" ELSE "False"])

MCVerdictOf ==
    [tool \in Tools |-> [track \in Names |-> [requested \in BOOLEAN |->
        PE!Evaluate(ActionOf(tool, track, requested)).decision]]]

\* Notes that can all be written, and some of which one cannot.
MCTunes == {<<"c", "e">>, <<"c", NoPitch, "e">>, <<"c", NoEnd>>}

\* A track of the user's and a GEN- track, and one that is not there yet.
MCInitialOrder == <<"mine", "gen">>
MCInitialName  == [t \in UserTracks |-> IF t = "gen" THEN "GEN-bass" ELSE "vocals"]

CallSymmetry == Permutations(Calls)
=============================================================================
