--------------------------- MODULE MCPolicyEngine ---------------------------
(* Instances of PolicyEngine for TLC: every operation with the attributes    *)
(* its rules read, each at the values the rules tell apart.                  *)
EXTENDS PolicyEngine

AllOperations == KNOWN_OPERATIONS \cup {"track.delete"}

\* A second step of each severity is enough to tell the worst from the first or last.
MCOperations == <<AllOperations, {"tempo.change", "daw.window_change"}>>

MCOneStep == <<AllOperations>>

Vocab(op) ==
    CASE op = "midi.fetch"          -> {"host", "user_approved_this_turn"}
      [] op = "project.save"        -> {"mode", "user_requested_this_turn"}
      [] op = "track.mix_sources"   -> {"labeled"}
      [] op = "data.send_external"  -> {"is_model_api_in_use"}
      [] op = "computer_use.invoke" -> {"daw", "capability"}
      [] op \in ReadOperations      -> {"daw"}
      [] op = "midi.write"          -> {"source", "track"}
      [] op = "track.create"        -> {"name"}
      [] op = "tempo.change"        -> {"user_requested_this_turn"}
      [] op \in {"track.mixer_change", "device.param_change"} -> {"track"}
      [] op = "track.delete"        -> {"name", "user_requested_this_turn"}
      [] op = "daw.plugin_install"  -> {"user_approved_this_turn"}
      [] OTHER                      -> {}

MCVocabulary == [op \in AllOperations |-> Vocab(op)]

Flags == {"True", "False", "1"}
Names == {<<"GEN", "bass">>, <<"GEN">>, <<"gen", "bass">>, <<"vocals">>}

MCValues ==
    [host |-> {<<"bitmidi", "com">>, <<"www", "BitMidi", "com">>, <<"notbitmidi", "com">>,
               <<"mutopiaproject", "org">>, <<"ftp", "freesound", "org">>,
               <<"freesound", "org", "evil">>, <<"FILE">>, <<"example", "com">>},
     user_approved_this_turn |-> Flags, user_requested_this_turn |-> Flags,
     labeled |-> Flags \cup {"None"}, is_model_api_in_use |-> Flags \cup {"None"},
     mode |-> {"overwrite", "save_as", "save"},
     daw |-> {"reaper", "Ableton", "ardour", "bitwig", ""},
     capability |-> {"read.tempo", "read.tracks", "read.clips", "tempo.change"},
     source |-> {"generated", "imported"},
     track |-> Names, name |-> Names]

\* A project read with and without its number of tracks.
MCReadings ==
    [get_tempo        |-> {[bpm |-> "120"]},
     get_tracks       |-> {<<"vocals">>},
     get_project_info |-> {[track_count |-> 2], [name |-> "song"]},
     get_song_info    |-> {[bpm |-> "90", track_count |-> 2], <<>>},
     get_transport    |-> {[speed |-> "0"]}]
=============================================================================
