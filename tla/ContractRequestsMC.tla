-------------------------- MODULE ContractRequestsMC --------------------------
(* ContractRequests on two subscriptions of a customer: payloads of two       *)
(* prices and three starts (two in one hour, of four seconds, and the first  *)
(* of the next), in the old layout, the new one and both, and every way to be *)
(* malformed.                                                                *)
EXTENDS ContractRequests

CONSTANTS sub, other, cus, p1, p2, small, large, card, card2

ItemWith(price, start) == [price |-> price, start |-> start]

Old(price, start) == [id |-> sub, customer |-> cus, start |-> start,
                      items |-> <<ItemWith(price, Missing)>>]

New(price, start) == [Old(price, Missing) EXCEPT !.items = <<ItemWith(price, start)>>]

Malformed ==
    {[Old(p1, 5) EXCEPT !.id = Missing],
     [Old(p1, 5) EXCEPT !.customer = Missing],
     [Old(p1, 5) EXCEPT !.items = Missing],
     [Old(p1, 5) EXCEPT !.items = << >>],
     [Old(p1, 5) EXCEPT !.items = <<Missing>>],
     [Old(p1, 5) EXCEPT !.items = <<ItemWith(p1, 5), ItemWith(p2, 5)>>],
     Old(Missing, 5),
     Old(p1, Missing)}

WellFormed == {Old(p1, 5), New(p1, 5), New(p1, 7), Old(p1, 8), New(p2, 5),
               [New(p1, 8) EXCEPT !.start = 5],
               [New(p1, 5) EXCEPT !.id = other]}

MCPayloads == WellFormed \cup Malformed

Table == [p \in {p1, p2} |-> IF p = p1 THEN small ELSE large]

\* Deployments with another tier for p1 and none for p2, and another rate card.
MCConfigs == {[tiers |-> Table, rateCard |-> card],
              [tiers |-> [p \in {p1} |-> large], rateCard |-> card],
              [tiers |-> Table, rateCard |-> card2]}
=============================================================================
