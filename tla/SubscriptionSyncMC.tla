------------------------- MODULE SubscriptionSyncMC -------------------------
(* SubscriptionSync on two customers: a pair of created events of s1, which *)
(* SameTerms makes equal, events of s2 on the same customer as s1, and s3   *)
(* on a customer of its own.                                                *)
EXTENDS SubscriptionSync, TLC

CONSTANTS c1, c2, s1, s2, s3, made1, made1b, made3, cut2, many3, odd2, upd2,
          SameTerms    \* do the two created events of s1 agree?

MCSubscription == [e \in Events |-> CASE e \in {made1, made1b} -> s1
                                      [] e \in {cut2, odd2, upd2} -> s2
                                      [] OTHER -> s3]

MCCustomerOf == [s \in Subscriptions |-> IF s = s3 THEN c2 ELSE c1]

MCTerms == [e \in Events |-> IF e = made1b /\ ~ SameTerms THEN 2 ELSE 1]

MCShape == [e \in Events |-> CASE e = odd2 -> "terms"
                               [] e = many3 -> "items"
                               [] e = cut2 -> "broken"
                               [] OTHER -> "ok"]

WorkerSymmetry == Permutations(Workers)
=============================================================================
