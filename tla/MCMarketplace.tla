---------------------------- MODULE MCMarketplace ----------------------------
(* A small market: one buyer, one seller, an agent and a publisher, and the *)
(* committee account, which refers the seller.                             *)
EXTENDS Marketplace

MCAccounts == {"buyer", "seller", "agent", "publisher", "committee"}
MCReferrer == [a \in MCAccounts |-> IF a = "seller" THEN "committee" ELSE "publisher"]
MCAcceptedEscrows == [a \in MCAccounts |-> IF a \in {"buyer", "seller"} THEN {"agent"} ELSE {}]
MCEscrowFee == [a \in MCAccounts |-> IF a = "agent" THEN 1 ELSE 0]
MCPublisherFee == [a \in MCAccounts |-> 1]
MCPublisherFeeRange == <<0, 1>>
MCPopScore == [a \in MCAccounts |-> IF a \in {"buyer", "seller"} THEN 1 ELSE 0]
MCSupply == [buyer |-> 6, seller |-> 2, agent |-> 0, publisher |-> 0, committee |-> 0]
MCListingForms == {[publisher |-> p, price |-> 2, hash |-> 1, quantity |-> 2, priority_fee |-> 1] :
                     p \in {"seller", "publisher"}}
Fee(o, e, b, s) == [omnibazaar |-> o, escrow |-> e, referrer_buyer |-> b, referrer_seller |-> s]
MCFeeOffers == {Fee(0, 0, 0, 0), Fee(0, 1, 0, 0), Fee(1, 0, 0, 1), Fee(1, 1, 0, 1)}
NoChange == [publisher |-> Keep, price |-> Keep, hash |-> Keep, quantity |-> Keep,
             priority_fee |-> Keep]
MCUpdates == {[NoChange EXCEPT !.publisher = "publisher", !.hash = 2],
              [NoChange EXCEPT !.publisher = "seller", !.quantity = 3, !.price = 3]}
=============================================================================
