---------------------------- MODULE MCMarketRelay ---------------------------
(* The bond, the receipts and the flights beside a revocation, and the     *)
(* auction share the clock and the wall: each is explored with them alone. *)
(* The relay shares nothing with them: it starts when the clock has run    *)
(* out, so that no state is met twice for the time it is.                  *)
EXTENDS Market, MCRelay, TLC

VARIABLE part

CONSTANTS zero, shop, desk, other

Mandate(amount, rate, expiry, rails, dests, count) ==
    NewMandate(amount, rate, expiry, {"audit"}, rails, dests, count)

MCMandates ==
    {Mandate(4, 2, 3, {"A"}, <<shop, desk>>, 2),
     Mandate(4, 4, 5, {"A", "B"}, <<shop, zero>>, 1),
     Mandate(3, 3, 3, {}, <<zero, zero>>, 0),
     Mandate(3, 4, 3, {}, <<shop, zero>>, 1),
     Mandate(9, 3, 3, {}, <<shop, zero>>, 1),
     Mandate(3, 3, 3, {"C"}, <<shop, zero>>, 1),
     Mandate(3, 3, 3, {}, <<shop, shop>>, 2),
     Mandate(3, 3, 3, {}, <<shop, zero>>, 2),
     Mandate(3, 3, 3, {}, <<zero, shop>>, 1),
     Mandate(3, 3, 3, {}, <<shop, desk>>, 3)}

To(dest, amount) == [dest |-> dest, amount |-> amount]

MCBatches ==
    {<< >>, <<To(shop, 1), To(desk, 1)>>, <<To(shop, 1), To(other, 1)>>,
     <<To(shop, 0), To(shop, 1)>>, <<To(shop, 2), To(shop, 1)>>,
     <<To(desk, 1), To(desk, 1), To(shop, 1)>>}

Job(bounty, bond, deadline, class, acceptance, reviewers) ==
    NewJob("audit", class, bounty, bond, deadline, acceptance, reviewers)

MCJobs ==
    <<Job(5, 3, 6, 2, "reviewers", 2), Job(4, 2, 1, 1, "auto_tests", 0),
      Job(4, 2, 4, 0, "reviewers", 6), Job(7, 2, 4, 0, "auto_tests", 0),
      [Job(4, 2, 4, 0, "auto_tests", 0) EXCEPT !.kind = "proof"]>>

MCFactorSets ==
    {[quality |-> 3, uniqueness |-> 4, efficiency |-> 8, diversity |-> 5, slash |-> 8],
     [quality |-> 5, uniqueness |-> 4, efficiency |-> 4, diversity |-> 4, slash |-> 0]}

Offer(bidder, price, efficiency, class) ==
    [bidder |-> bidder, price |-> price, efficiency |-> efficiency, class |-> class]

MCOffers ==
    {Offer(b, p, e, 2) : b \in {1, 2}, p \in {3, 4}, e \in {5, 6}}
        \cup {Offer(1, 3, 6, 1)}

MCInit ==
    /\ Init
    /\ RelayInit
    /\ part \in {"bond", "receipts", "flights", "auction", "relay"}
    /\ part = "bond" \/ mandate.dest_count = 2
    /\ part = "relay" \/ held = [kind |-> "authority", value |-> 5]

MarketNext ==
    \/ Time
    \/ part = "bond" /\ Account /\ receipts' = receipts
    \/ part = "receipts" /\ Account /\ UNCHANGED <<moved, closed>>
    \/ part = "flights" /\ Account /\ UNCHANGED <<moved, closed, receiptVars>>
    \/ part = "flights" /\ Board /\ bids' = bids
    \/ part = "auction" /\ \E bid \in Offers : PlaceBid(bid)

MCNext ==
    /\ \/ MarketNext /\ UNCHANGED relayVars
       \/ part = "relay" /\ now = TickMax /\ RelayNext /\ UNCHANGED vars
    /\ UNCHANGED part

MCSpec == MCInit /\ [][MCNext]_<<vars, relayVars, part>> /\ Fairness
=============================================================================
