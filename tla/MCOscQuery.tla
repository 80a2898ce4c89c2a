------------------------------ MODULE MCOscQuery ------------------------------
(* Instances of OscQuery for TLC.                                            *)
EXTENDS OscQuery

\* Each thread has an address of its own, and they share one.
MCUses == [c \in Callers |-> IF c = "main" THEN {"tempo", "name"} ELSE {"tempo", "num_tracks"}]

MCSharedAddresses == [c \in Callers |-> Addresses]
=============================================================================
