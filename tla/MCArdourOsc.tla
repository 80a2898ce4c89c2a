----------------------------- MODULE MCArdourOsc -----------------------------
(* ArdourOsc for TLC: the constants are numbers and flags, given in the cfgs. *)
EXTENDS ArdourOsc
=============================================================================
