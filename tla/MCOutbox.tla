------------------------------ MODULE MCOutbox -------------------------------
(* A small instance of Outbox for TLC. *)
EXTENDS Outbox

CONSTANTS w1, w2

MCEvents == 1..2
==============================================================================
