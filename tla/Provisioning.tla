---------------------------- MODULE Provisioning ----------------------------
(***************************************************************************)
(* What the sidecar promises, whatever happens on the way: a Stripe        *)
(* customer or subscription is linked at most once, to something that was  *)
(* made in Metronome for it and for nothing else, after the customer it is *)
(* billed to; and an event is done only when what it needs is linked.      *)
(*                                                                         *)
(* The abstract specification of CustomerSync, SubscriptionSync and their  *)
(* composition Sidecar.                                                    *)
(***************************************************************************)
CONSTANTS
    Subjects,    \* Stripe customers and subscriptions
    Events,      \* Stripe events
    Nothing,     \* no subject
    Unlinked,    \* no Metronome id
    Parent,      \* subject -> the subject it hangs on, or Nothing
    Needs        \* event -> the subject it provisions, or Nothing

VARIABLES
    made,      \* subject -> the ids of what has been made for it in Metronome
    linked,    \* subject -> the id in its mapping row, or Unlinked
    done       \* the events that count as processed

vars == <<made, linked, done>>

Init ==
    /\ made = [s \in Subjects |-> {}]
    /\ linked = [s \in Subjects |-> Unlinked]
    /\ done = {}

Linked(s) == linked[s] # Unlinked

\* Metronome makes something for a subject, linked or not, under a new id.
Make(s) ==
    /\ \E id \in made'[s] :
          /\ \A t \in Subjects : id \notin made[t]
          /\ made' = [made EXCEPT ![s] = @ \cup {id}]
    /\ UNCHANGED <<linked, done>>

\* The mapping row is committed with the event that asked for it.
Link(e) ==
    /\ Needs[e] # Nothing
    /\ ~ Linked(Needs[e])
    /\ Parent[Needs[e]] # Nothing => Linked(Parent[Needs[e]])
    /\ \E id \in made[Needs[e]] : linked' = [linked EXCEPT ![Needs[e]] = id]
    /\ done' = done \cup {e}
    /\ UNCHANGED made

\* An event with nothing left to do.
Finish(e) ==
    /\ Needs[e] # Nothing => Linked(Needs[e])
    /\ done' = done \cup {e}
    /\ UNCHANGED <<made, linked>>

Next == \/ \E s \in Subjects : Make(s)
        \/ \E e \in Events : Link(e) \/ Finish(e)

Spec == Init /\ [][Next]_vars
=============================================================================
