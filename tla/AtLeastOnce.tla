---------------------------- MODULE AtLeastOnce ----------------------------
(***************************************************************************)
(* What the outbox promises (README.md, "Delivery and current operational  *)
(* limits"): an event that was queued stays until it was delivered.  A     *)
(* repeated delivery is a stuttering step.                                 *)
(***************************************************************************)
CONSTANT Events

VARIABLES
    queued,     \* events whose transaction has committed
    outbox,     \* of these, the ones not removed yet
    delivered   \* events that reached a consumer's queue

abstractVars == <<queued, outbox, delivered>>

AbstractInit == queued = {} /\ outbox = {} /\ delivered = {}

Accepts(e) ==
    /\ e \notin queued
    /\ queued' = queued \cup {e}
    /\ outbox' = outbox \cup {e}
    /\ UNCHANGED delivered

Delivers(e) ==
    /\ e \in queued
    /\ delivered' = delivered \cup {e}
    /\ UNCHANGED <<queued, outbox>>

Removes(e) ==
    /\ e \in outbox \cap delivered
    /\ outbox' = outbox \ {e}
    /\ UNCHANGED <<queued, delivered>>

AbstractNext == \E e \in Events : Accepts(e) \/ Delivers(e) \/ Removes(e)

AbstractSpec == AbstractInit /\ [][AbstractNext]_abstractVars
=============================================================================
