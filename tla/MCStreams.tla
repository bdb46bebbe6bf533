------------------------------ MODULE MCStreams ------------------------------
(* Two entries, two files, texts of up to two chars, among them lines without an end. *)
EXTENDS Streams, TLC

CONSTANTS a, G

MCDefault == (0 :> "REFAL0.DAT") @@ (1 :> "REFAL1.DAT")
MCNames   == {"REFAL0.DAT", "REFAL1.DAT"}
MCInput   == <<a, NL>>
MCExprs   == {<<>>, <<[tag |-> "char", info |-> a]>>}
=============================================================================
