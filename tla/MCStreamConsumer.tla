-------------------------- MODULE MCStreamConsumer ---------------------------
(* Small instances of StreamConsumer for TLC. *)
EXTENDS StreamConsumer

CONSTANTS w1, w2

==============================================================================
