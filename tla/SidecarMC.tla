----------------------------- MODULE SidecarMC -----------------------------
(* Sidecar on a customer with two events and two subscriptions with a        *)
(* created event each.                                                      *)
EXTENDS Sidecar, TLC

CONSTANTS c1, s1, s2, new1, upd1, made1, made2

MCCustomer == [e \in CustomerEvents |-> c1]

MCVersion == [e \in CustomerEvents |-> IF e = new1 THEN 1 ELSE 2]

MCSubscription == [e \in SubscriptionEvents |-> IF e = made1 THEN s1 ELSE s2]

MCCustomerOf == [s \in Subscriptions |-> c1]

MCTerms == [e \in SubscriptionEvents |-> 1]
=============================================================================
