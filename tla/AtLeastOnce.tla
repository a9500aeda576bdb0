----------------------------- MODULE AtLeastOnce -----------------------------
(***************************************************************************)
(* What each hop of the platform promises to the next, with no workers,    *)
(* rows, locks, pending lists or retries: whatever a hop has accepted      *)
(* stays outstanding, in durable storage that somebody will look at again, *)
(* until it has been delivered at least once or visibly abandoned in a     *)
(* dead-letter store.  Outbox.tla (table to stream) and StreamConsumer.tla *)
(* (stream to table) are shown to implement this module.                   *)
(***************************************************************************)
CONSTANT Events

VARIABLES
    accepted,     \* events the hop has taken responsibility for
    outstanding,  \* those it still holds
    delivered,    \* events that have arrived at least once
    abandoned     \* events given up on, in a dead-letter store

vars == <<accepted, outstanding, delivered, abandoned>>

Init ==
    /\ accepted = {}
    /\ outstanding = {}
    /\ delivered = {}
    /\ abandoned = {}

Accept(e) ==
    /\ e \notin accepted
    /\ accepted' = accepted \cup {e}
    /\ outstanding' = outstanding \cup {e}
    /\ UNCHANGED <<delivered, abandoned>>

\* A delivery may be repeated, even after the event was settled.
Deliver(e) ==
    /\ e \in accepted
    /\ delivered' = delivered \cup {e}
    /\ UNCHANGED <<accepted, outstanding, abandoned>>

\* The hop gives up on A and lets go of S, which it may only do with what
\* has been delivered or abandoned.
Settle(A, S) ==
    /\ A \subseteq accepted
    /\ abandoned' = abandoned \cup A
    /\ S \subseteq delivered \cup abandoned'
    /\ outstanding' = outstanding \ S
    /\ UNCHANGED <<accepted, delivered>>

Next ==
    \/ \E e \in Events : Accept(e) \/ Deliver(e)
    \/ \E A, S \in SUBSET Events : Settle(A, S)

Spec == Init /\ [][Next]_vars
==============================================================================
