------------------------------- MODULE Market -------------------------------
(***************************************************************************)
(* The jobs market (antumbra-jobs/src) beside the warrant of one of its    *)
(* workers: certifications that expire, the inverse auction, submissions   *)
(* with their contest window, and the pay for a result.                    *)
(*                                                                         *)
(* The crate is a set of functions without a caller: the board that calls  *)
(* them, and what it keeps, are the environment.  One clock stands for the *)
(* ticks of the windows and for the heights of the deadlines.              *)
(***************************************************************************)
EXTENDS Warrant

CONSTANTS
    Jobs,            \* job -> what it asks and offers, with the kind of work
    BountyCeiling,   \* JOB_BOUNTY_MAX_ATOMIC
    BondCeiling,     \* JOB_BOND_MAX_ATOMIC
    MaxReviewers,    \* ACCEPTANCE_MAX_REVIEWERS
    ContestWindow,   \* CONTEST_WINDOW_TICKS
    Unit,            \* the thousand of per mille
    SlashFraction,   \* SLASH_FRACTION_PM
    CertExpiry,      \* CERT_EXPIRY_TICKS
    Scores,          \* bound: the scores a harness reveals, per mille
    FactorSets,      \* bound: the factors of a payout, valid or not
    Offers,          \* bound: the bids made
    MaxBids          \* bound: the bids of one auction

VARIABLES
    cert,            \* the worker's certification
    flight,          \* job -> its submission: where it stands and its tick
    payout,          \* job -> what was paid for it and what was slashed
    bids             \* the bids of one auction, in the order they came

boardVars == <<cert, flight, payout, bids>>
vars == <<warrantVars, boardVars>>

----------------------------------------------------------------------------
(* Classes, C0 to C3 as 0 to 3.                                            *)

Classes == 0 .. 3

FromHarnessScore(score) ==
    CASE score >= 900 -> 3
      [] score \in 700 .. 899 -> 2
      [] score \in 400 .. 699 -> 1
      [] OTHER -> 0

Descend(class) == IF class = 0 THEN 0 ELSE class - 1

ValidAt(tick) == tick < Later(cert.issued_tick, CertExpiry)

\* A failure descends from the class held, expired or not.
Recertify(score) ==
    /\ cert' = [class |-> IF score < 400 THEN Descend(cert.class)
                          ELSE FromHarnessScore(score),
                issued_tick |-> now]
    /\ UNCHANGED <<warrantVars, flight, payout, bids>>

----------------------------------------------------------------------------
(* Jobs and the inverse auction.                                           *)

Acceptances == {"auto_tests", "reviewers", "employer_sign"}

\* The hash, the seal and the mode of a job decide nothing here.
NewJob(kind, class, bounty, bond, deadline, acceptance, reviewers) ==
    [kind |-> kind, class_min |-> class, bounty |-> bounty, bond |-> bond,
     deadline |-> deadline, acceptance |-> acceptance, reviewers |-> reviewers]

ValidJob(job) ==
    /\ job.bounty <= BountyCeiling
    /\ job.bond <= BondCeiling
    /\ job.deadline # 0
    /\ job.acceptance = "reviewers" => job.reviewers \in 1 .. MaxReviewers

OpenAt(job, height) == height <= job.deadline

\* Mutant: the last of two equal offers replaces.
ReplacesOnATie(bid, best) ==
    \/ bid.price < best.price
    \/ bid.price = best.price /\ bid.efficiency >= best.efficiency

Replaces(bid, best) ==
    \/ bid.price < best.price
    \/ bid.price = best.price /\ bid.efficiency > best.efficiency
    \/ /\ bid.price = best.price /\ bid.efficiency = best.efficiency
       /\ bid.bidder < best.bidder

\* The winner of a sequence of bids, none when there is no bid, or a refusal.
AuctionWinner(offered, classMin) ==
    IF \E i \in DOMAIN offered : offered[i].class < classMin
    THEN "under_qualified"
    ELSE IF offered = << >> THEN "none"
    ELSE FoldLeft(LAMBDA best, bid : IF Replaces(bid, best) THEN bid ELSE best,
                  offered[1], offered)

PlaceBid(bid) ==
    /\ Len(bids) < MaxBids
    /\ bids' = Append(bids, bid)
    /\ UNCHANGED <<warrantVars, cert, flight, payout>>

----------------------------------------------------------------------------
(* Submissions, contests and pay.                                          *)

Submit(j) ==
    /\ flight[j].at = "none"
    /\ ValidJob(Jobs[j]) /\ OpenAt(Jobs[j], now)
    /\ ValidAt(now) /\ cert.class >= Jobs[j].class_min
    /\ PermitsJob(mandate, Jobs[j].kind)
    /\ flight' = [flight EXCEPT ![j] = [at |-> "live", tick |-> now]]
    /\ UNCHANGED <<warrantVars, cert, payout, bids>>

ContestOutcome(submitted, tick, proven) ==
    IF tick > Later(submitted, ContestWindow) THEN "settled"
    ELSE IF proven THEN "slashed" ELSE "live"

SlashOf(bond) == (bond * SlashFraction) \div Unit

\* In per mille, the slash in atomic units.
Factors == [quality : Nat, uniqueness : Nat, efficiency : Nat, diversity : Nat, slash : Nat]

ValidFactors(f) ==
    /\ f.quality <= Unit
    /\ f.uniqueness \in Unit \div 4 .. Unit
    /\ f.efficiency \in Unit \div 2 .. 2 * Unit
    /\ f.diversity \in Unit .. Unit + Unit \div 4

\* One floor, after the four products.
Pay(bounty, f) ==
    LET gross == (bounty * f.quality * f.uniqueness * f.efficiency * f.diversity)
                     \div (Unit * Unit * Unit * Unit)
    IN IF gross >= f.slash THEN gross - f.slash ELSE 0

\* The board asks for the outcome of a submission it still holds, pays the
\* worker of one that settled, and hands the bounty of a false one to the
\* auditor.
Contest(j, proven) ==
    LET outcome == ContestOutcome(flight[j].tick, now, proven)
    IN  /\ flight[j].at = "live"
        /\ outcome # "live"
        /\ flight' = [flight EXCEPT ![j].at = outcome]
        /\ IF outcome = "slashed"
           THEN payout' = [payout EXCEPT ![j] =
                    [worker |-> 0, auditor |-> Jobs[j].bounty,
                     slash |-> SlashOf(Jobs[j].bond)]]
           ELSE \E f \in FactorSets :
                    /\ ValidFactors(f)
                    /\ payout' = [payout EXCEPT ![j].worker = Pay(Jobs[j].bounty, f)]
        /\ UNCHANGED <<warrantVars, cert, bids>>

----------------------------------------------------------------------------

\* Both windows are 288 ticks: a settlement gets the time its contest takes.
ASSUME MarketAssumption ==
    /\ ContestWindow \in Nat /\ CertExpiry \in Nat
    /\ ContestWindow <= DrainDelay
    /\ Unit \in Nat /\ Unit % 4 = 0 /\ Unit > 0
    /\ FactorSets \subseteq Factors
    /\ Offers \subseteq [bidder : Nat, price : Nat, efficiency : Nat, class : Classes]
    /\ \A j \in DOMAIN Jobs : /\ Jobs[j].class_min \in Classes
                             /\ Jobs[j].acceptance \in Acceptances

Init ==
    /\ WarrantInit
    /\ cert = [class |-> 0, issued_tick |-> 0]
    /\ flight = [j \in DOMAIN Jobs |-> [at |-> "none", tick |-> 0]]
    /\ payout = [j \in DOMAIN Jobs |-> [worker |-> 0, auditor |-> 0, slash |-> 0]]
    /\ bids = << >>

Time == Tick /\ UNCHANGED boardVars

Account == WarrantNext /\ UNCHANGED boardVars

Board ==
    \/ \E score \in Scores : Recertify(score)
    \/ \E bid \in Offers : PlaceBid(bid)
    \/ \E j \in DOMAIN Jobs : Submit(j) \/ \E proven \in BOOLEAN : Contest(j, proven)

Next == Time \/ Account \/ Board

\* Time passes, the sponsor collects what is ready, and the board closes a
\* submission whose window is over.
Fairness ==
    /\ WF_vars(Time)
    /\ WF_vars(Drain /\ UNCHANGED boardVars)
    /\ \A j \in DOMAIN Jobs : WF_vars(Contest(j, FALSE))

Spec == Init /\ [][Next]_vars /\ Fairness

----------------------------------------------------------------------------

\* Every variable has its type.
TypeOK ==
    /\ WarrantTypeOK
    /\ cert \in [class : Classes, issued_tick : Nat]
    /\ flight \in [DOMAIN Jobs -> [at : {"none", "live", "settled", "slashed"}, tick : Nat]]
    /\ bids \in Seq(Offers)

\* The drain gives a settlement in flight the time to land: when the sponsor
\* may collect, every submission made before the tick of the revocation is
\* past its contest.  A submission of that very tick is not, for one tick,
\* and at the end of the clock the drain does not wait (warrant.rs
\* drain_ready, submission.rs contest).
FlightsLandFirst ==
    \A j \in DOMAIN Jobs, proven \in BOOLEAN :
        /\ DrainReady /\ now < TickMax
        /\ flight[j].at = "live" /\ flight[j].tick < revocationTick
        => ContestOutcome(flight[j].tick, now, proven) = "settled"

Beats(a, b) ==
    \/ a.price < b.price
    \/ a.price = b.price /\ a.efficiency > b.efficiency
    \/ a.price = b.price /\ a.efficiency = b.efficiency /\ a.bidder <= b.bidder

\* The winner is the bid no other beats, so that its price, efficiency and
\* bidder depend on the set of bids and not on their order, and one bid under
\* the class refuses the auction wherever it stands (job.rs auction_winner).
AuctionIsOrderFree ==
    \A classMin \in Classes :
        LET winner == AuctionWinner(bids, classMin)
            made == {bids[i] : i \in DOMAIN bids}
        IN  IF \E bid \in made : bid.class < classMin THEN winner = "under_qualified"
            ELSE made # {} => winner \in made /\ \A bid \in made : Beats(winner, bid)

\* What is revoked is collected in the end, though the delay may pass the
\* last tick, and a submission whose window ends before the last tick is
\* settled or slashed (warrant.rs drain_ready, submission.rs contest).
EverythingSettles ==
    /\ revoked ~> drained
    /\ \A j \in DOMAIN Jobs :
           flight[j].at = "live" /\ flight[j].tick + ContestWindow < TickMax
               ~> flight[j].at \in {"settled", "slashed"}

=============================================================================
