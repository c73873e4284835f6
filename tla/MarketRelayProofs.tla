-------------------------- MODULE MarketRelayProofs --------------------------
(***************************************************************************)
(* Theorems about the market, for any mandates, payments, jobs, delays and *)
(* nonce width; and about the relay that carries what agents, wallets,     *)
(* miners and seats encode, for any keys, limits, containers and faults.   *)
(*                                                                         *)
(* The relay's argument is about words.  A varint is written in one way    *)
(* and read in that way only, so a list stands in one place of a word as   *)
(* one list; a reader that gets through a word has read the parts of it,   *)
(* one after the other, and holds their values; so what it returns is      *)
(* written as that very word (Canonical), and no two values are written    *)
(* as one word (WrittenOnce).  The four properties follow from these two   *)
(* facts and an invariant of the relay's state (RelayInv).                 *)
(***************************************************************************)
EXTENDS Market, Relay, Induction, SequenceTheorems, TLAPS

\* The inductive invariant: types, the account of the bond, and that nobody
\* collects without a revocation.
MInv == TypeOK /\ BondIsAccounted /\ (drained => revoked)

----------------------------------------------------------------------------
(* Arithmetic.                                                             *)

LEMMA RemainderOf ==
    ASSUME NEW n \in Nat \ {0}, NEW q \in Nat, NEW r \in 0 .. n - 1
    PROVE  (n * q + r) % n = r
BY SMT

\* A nonce that wraps at every step counts the spends modulo its width.
LEMMA NextNonce ==
    ASSUME NEW n \in Nat \ {0}, NEW s \in Nat
    PROVE  (s + 1) % n = ((s % n) + 1) % n
<1> DEFINE q == s \div n
           r == s % n
<1>1. q \in Nat /\ r \in 0 .. n - 1 /\ s = n * q + r
    BY SMT
<1> HIDE DEF q, r
<1>2. CASE r + 1 < n
    <2>1. s + 1 = n * q + (r + 1) BY <1>1
    <2>2. (s + 1) % n = r + 1 BY <1>1, <1>2, <2>1, RemainderOf
    <2>3. (r + 1) % n = r + 1 BY <1>1, <1>2, SMT
    <2> QED BY <2>2, <2>3 DEF r
<1>3. CASE r + 1 = n
    <2>1. s + 1 = n * (q + 1) + 0 BY <1>1, <1>3, SMT
    <2>2. (s + 1) % n = 0
        <3>1. q + 1 \in Nat /\ 0 \in 0 .. n - 1 BY <1>1
        <3> QED BY <2>1, <3>1, RemainderOf
    <2>3. (r + 1) % n = 0 BY <1>3, SMT
    <2> QED BY <2>2, <2>3 DEF r
<1> QED BY <1>1, <1>2, <1>3

\* Spends that each keep the rate keep it together.
LEMMA OneMoreAtTheRate ==
    ASSUME NEW r \in Nat, NEW s \in Nat, NEW total \in Nat, NEW a \in Nat,
           total <= s * r, a <= r
    PROVE  total + a <= (s + 1) * r
<1>1. (s + 1) * r = s * r + r /\ s * r \in Nat
    BY SMT
<1> QED BY <1>1

LEMMA ConstantsAreNumbers ==
    /\ TickMax \in Nat /\ DrainDelay \in Nat /\ Rate \in Nat /\ Cap \in Nat
    /\ MaxDests \in Nat /\ BatchMax \in Nat /\ NonceSpan \in Nat \ {0}
BY WarrantAssumption DEF WarrantAssumption

LEMMA LaterIsATick ==
    ASSUME NEW tick \in Nat, NEW delay \in Nat
    PROVE  /\ Later(tick, delay) \in Nat
           /\ Later(tick, delay) <= TickMax
           /\ Later(tick, delay) = tick + delay \/ Later(tick, delay) = TickMax
BY ConstantsAreNumbers DEF Later, Lesser

----------------------------------------------------------------------------
(* The initial states.                                                     *)

LEMMA InitMInv == Init => MInv
<1> SUFFICES ASSUME Init PROVE MInv
    OBVIOUS
<1>1. mandate \in Mandates /\ WellFormed(mandate) /\ mandate.max_amount \in Nat
      /\ mandate.max_rate \in Nat
    BY WarrantAssumption DEF Init, WarrantInit, WarrantAssumption
<1>2. TypeOK
    <2>1. WarrantTypeOK
        <3>1. /\ now = 0 /\ revocationTick = 0 /\ paid = 0
              /\ remaining = mandate.max_amount /\ nonce = 0 /\ collected = 0
              /\ moved = 0 /\ spends = 0
              /\ revoked = FALSE /\ closed = FALSE /\ drained = FALSE
            BY DEF Init, WarrantInit
        <3>2. revoked \in BOOLEAN /\ closed \in BOOLEAN /\ drained \in BOOLEAN
            BY <3>1, Zenon
        <3>3. /\ now \in 0 .. TickMax /\ revocationTick \in 0 .. now /\ paid \in 0 .. Cap
              /\ remaining \in Nat /\ nonce \in Nat /\ collected \in Nat
              /\ moved \in Nat /\ spends \in Nat
            BY <1>1, <3>1, ConstantsAreNumbers
        <3> QED BY <1>1, <3>2, <3>3 DEF WarrantTypeOK
    <2>2. cert \in [class : Classes, issued_tick : Nat] /\ bids \in Seq(Offers)
        BY DEF Init, Classes
    <2>3. flight \in [DOMAIN Jobs -> [at : {"none", "live", "settled", "slashed"}, tick : Nat]]
        BY DEF Init
    <2> QED BY <2>1, <2>2, <2>3 DEF TypeOK
<1>3. BondIsAccounted
    <2>1. 0 % NonceSpan = 0 /\ 0 * mandate.max_rate = 0
        BY <1>1, ConstantsAreNumbers, SMT
    <2> QED BY <1>1, <2>1 DEF Init, WarrantInit, BondIsAccounted
<1>4. drained => revoked
    BY DEF Init, WarrantInit
<1> QED BY <1>2, <1>3, <1>4 DEF MInv

----------------------------------------------------------------------------
(* One logical spend.                                                      *)

\* What a spend moves, whatever it is booked on and whoever it reaches, as
\* long as those are in the perimeter.
LEMMA MoveKeepsMInv ==
    ASSUME MInv, NEW dest, NEW amount \in Nat, NEW given \in 0 .. NonceSpan - 1,
           Moves(dest, amount, given), UNCHANGED boardVars,
           NEW whom, \A d \in whom : PermitsDest(mandate, d),
           reached' = reached \cup whom
    PROVE  MInv'
<1> USE WarrantAssumption
<1>1. /\ UNCHANGED <<mandate, now, wallVars, streamVars, receiptVars, drainVars>>
      /\ ~revoked /\ amount <= mandate.max_rate /\ amount <= remaining
      /\ remaining' = remaining - amount /\ moved' = moved + amount
      /\ spends' = spends + 1 /\ nonce' = (nonce + 1) % NonceSpan
      /\ nonce' = given
    BY DEF Moves
<1>2. /\ remaining \in Nat /\ nonce \in Nat /\ moved \in Nat
      /\ spends \in Nat /\ collected \in Nat
      /\ mandate.max_rate \in Nat /\ mandate.max_amount \in Nat
      /\ mandate.dest_count \in Nat
      /\ NonceSpan \in Nat \ {0} /\ given \in Nat
    BY DEF MInv, TypeOK, WarrantTypeOK, WarrantAssumption
<1>3. TypeOK'
    <2>1. (/\ remaining \in Nat /\ nonce \in Nat /\ moved \in Nat
           /\ spends \in Nat /\ collected \in Nat)'
        BY <1>1, <1>2, SMTT(30) DEF drainVars
    <2>2. WarrantTypeOK'
        BY <1>1, <2>1 DEF MInv, TypeOK, WarrantTypeOK, wallVars, streamVars, drainVars,
                          WellFormed
    <2> QED BY <2>2 DEF MInv, TypeOK, boardVars
<1>4. drained' => revoked'
    BY <1>1 DEF MInv, wallVars, drainVars
<1>5. BondIsAccounted'
    <2>0. moved + remaining = mandate.max_amount
        BY DEF MInv, BondIsAccounted
    <2>1. (moved + remaining = mandate.max_amount)'
        BY <1>1, <1>2, <2>0
    <2>2. ~drained'
        BY <1>1 DEF MInv, drainVars
    <2>3. whom \subseteq {mandate.dests[i] : i \in 1 .. mandate.dest_count} /\ Zero \notin whom
        <3> SUFFICES ASSUME NEW d \in whom
                     PROVE  /\ d \in {mandate.dests[i] : i \in 1 .. mandate.dest_count}
                            /\ d # Zero
            OBVIOUS
        <3>1. PICK i \in 1 .. Lesser(mandate.dest_count, MaxDests) : mandate.dests[i] = d
            BY DEF PermitsDest
        <3>2. i \in 1 .. mandate.dest_count /\ i \in 1 .. MaxDests
            BY <1>2, <3>1 DEF Lesser, WarrantAssumption
        <3>3. \A k \in 1 .. MaxDests : k <= mandate.dest_count <=> mandate.dests[k] # Zero
            BY DEF MInv, TypeOK, WarrantTypeOK, WellFormed
        <3>4. i <= mandate.dest_count /\ mandate.dests[i] # Zero
            BY <3>2, <3>3
        <3> QED BY <3>1, <3>2, <3>4
    <2>4. (reached \subseteq {mandate.dests[i] : i \in 1 .. mandate.dest_count})'
          /\ (Zero \notin reached)'
        BY <1>1, <2>3 DEF MInv, BondIsAccounted
    <2>5. (moved <= spends * mandate.max_rate)'
        BY <1>1, <1>2, OneMoreAtTheRate DEF MInv, BondIsAccounted
    <2>6. (nonce = spends % NonceSpan)'
        BY <1>1, <1>2, NextNonce DEF MInv, BondIsAccounted
    <2> QED BY <2>1, <2>2, <2>4, <2>5, <2>6 DEF BondIsAccounted
<1> QED BY <1>3, <1>4, <1>5 DEF MInv

----------------------------------------------------------------------------
(* The actions.                                                            *)

LEMMA SpendingKeepsMInv == MInv /\ Spending /\ UNCHANGED boardVars => MInv'
<1> SUFFICES ASSUME MInv, UNCHANGED boardVars, NEW given \in 0 .. NonceSpan - 1,
                    \/ \E dest \in Dests, amount \in Amounts : Spend(dest, amount, given)
                    \/ \E batch \in Batches : Batch(batch, given)
             PROVE  MInv'
    BY DEF Spending
<1>1. ASSUME NEW dest \in Dests, NEW amount \in Amounts, Spend(dest, amount, given)
      PROVE  MInv'
    <2> DEFINE whom == {dest}
    <2>1. Moves(dest, amount, given) /\ reached' = reached \cup whom
        BY <1>1 DEF Spend
    <2>2. \A d \in whom : PermitsDest(mandate, d)
        BY <2>1 DEF Moves
    <2>3. amount \in Nat
        BY WarrantAssumption DEF WarrantAssumption
    <2> HIDE DEF whom
    <2> QED BY <2>1, <2>2, <2>3, MoveKeepsMInv
<1>2. ASSUME NEW batch \in Batches, Batch(batch, given)
      PROVE  MInv'
    <2> DEFINE whom == {batch[i].dest : i \in DOMAIN batch}
    <2>1. Moves(batch[1].dest, Total(batch), given) /\ reached' = reached \cup whom
        BY <1>2 DEF Batch
    <2>2. \A d \in whom : PermitsDest(mandate, d)
        BY <1>2 DEF Batch, Payable
    <2>3. Total(batch) \in Nat
        BY WarrantAssumption DEF WarrantAssumption
    <2> HIDE DEF whom
    <2> QED BY <2>1, <2>2, <2>3, MoveKeepsMInv
<1> QED BY <1>1, <1>2

LEMMA DrainKeepsMInv == MInv /\ Drain /\ UNCHANGED boardVars => MInv'
<1> SUFFICES ASSUME MInv, Drain, UNCHANGED boardVars PROVE MInv'
    OBVIOUS
<1>1. /\ revoked /\ drained' = TRUE /\ collected' = remaining
      /\ UNCHANGED <<now, bondVars, wallVars, streamVars, receiptVars>>
    BY DEF Drain, DrainReady
<1>2. TypeOK'
    BY <1>1 DEF MInv, TypeOK, WarrantTypeOK, WellFormed, bondVars, wallVars, streamVars,
                boardVars
<1>3. BondIsAccounted'
    <2>1. BondIsAccounted
        BY DEF MInv
    <2> QED BY <1>1, <2>1 DEF BondIsAccounted, bondVars
<1> QED BY <1>1, <1>2, <1>3 DEF MInv, wallVars

\* What leaves the bond and the collection alone keeps the account.
LEMMA AccountStands ==
    ASSUME MInv, UNCHANGED <<bondVars, drainVars>>, TypeOK', revoked => revoked'
    PROVE  MInv'
<1>1. BondIsAccounted'
    <2>1. BondIsAccounted
        BY DEF MInv
    <2> QED BY <2>1 DEF BondIsAccounted, bondVars, drainVars
<1> QED BY <1>1 DEF MInv, drainVars

LEMMA TimeKeepsMInv == MInv /\ Time => MInv'
<1> SUFFICES ASSUME MInv, Time PROVE MInv'
    OBVIOUS
<1>1. /\ now < TickMax /\ now' = now + 1 /\ paid' = paid + StreamPays
      /\ UNCHANGED <<bondVars, wallVars, closed, receiptVars, drainVars, boardVars>>
    BY DEF Time, Tick
<1>2. now' \in 0 .. TickMax /\ revocationTick' \in 0 .. now'
    BY <1>1, ConstantsAreNumbers DEF MInv, TypeOK, WarrantTypeOK, wallVars
<1>3. paid' \in 0 .. Cap
    BY <1>1, ConstantsAreNumbers DEF MInv, TypeOK, WarrantTypeOK, StreamPays, Lesser
<1>4. TypeOK'
    BY <1>1, <1>2, <1>3 DEF MInv, TypeOK, WarrantTypeOK, WellFormed, bondVars, wallVars,
                            drainVars, boardVars
<1> QED BY <1>1, <1>4, AccountStands DEF wallVars

LEMMA AccountKeepsMInv == MInv /\ Account => MInv'
<1> SUFFICES ASSUME MInv, WarrantNext, UNCHANGED boardVars PROVE MInv'
    BY DEF Account
<1>1. CASE Spending BY <1>1, SpendingKeepsMInv
<1>2. CASE Drain BY <1>2, DrainKeepsMInv
<1>3. CASE Revoke
    <2>1. /\ revoked' = TRUE /\ revocationTick' = now
          /\ UNCHANGED <<now, bondVars, streamVars, receiptVars, drainVars>>
        BY <1>3 DEF Revoke
    <2>2. revocationTick' \in 0 .. now'
        BY <2>1 DEF MInv, TypeOK, WarrantTypeOK
    <2>3. TypeOK'
        BY <2>1, <2>2 DEF MInv, TypeOK, WarrantTypeOK, WellFormed, bondVars, streamVars,
                          drainVars, boardVars
    <2> QED BY <2>1, <2>3, AccountStands
<1>4. CASE Close
    <2>1. TypeOK' /\ revoked' = revoked /\ UNCHANGED <<bondVars, drainVars>>
        BY <1>4 DEF Close, MInv, TypeOK, WarrantTypeOK, WellFormed, bondVars, wallVars,
                    drainVars, boardVars
    <2> QED BY <2>1, AccountStands
<1>5. CASE Promising
    <2>1. UNCHANGED <<now, bondVars, wallVars, streamVars, drainVars>>
        BY <1>5 DEF Promising, Commit, Verify
    <2>2. TypeOK'
        BY <2>1 DEF MInv, TypeOK, WarrantTypeOK, WellFormed, bondVars, wallVars, streamVars,
                    drainVars, boardVars
    <2> QED BY <2>1, <2>2, AccountStands DEF wallVars
<1> QED BY <1>1, <1>2, <1>3, <1>4, <1>5 DEF WarrantNext

LEMMA BoardKeepsMInv == MInv /\ Board => MInv'
<1> SUFFICES ASSUME MInv, Board PROVE MInv'
    OBVIOUS
<1>1. UNCHANGED warrantVars
    BY DEF Board, Recertify, PlaceBid, Submit, Contest
<1>2. WarrantTypeOK'
    BY <1>1 DEF MInv, TypeOK, WarrantTypeOK, WellFormed, warrantVars, bondVars, wallVars,
                streamVars, drainVars
<1>3. now \in Nat
    BY DEF MInv, TypeOK, WarrantTypeOK
<1>4. (cert \in [class : Classes, issued_tick : Nat])'
    <2>1. ASSUME NEW score \in Scores, Recertify(score)
          PROVE  cert' \in [class : Classes, issued_tick : Nat]
        <3>1. FromHarnessScore(score) \in Classes /\ Descend(cert.class) \in Classes
            BY DEF MInv, TypeOK, Classes, FromHarnessScore, Descend
        <3> QED BY <1>3, <2>1, <3>1 DEF Recertify
    <2> QED BY <2>1 DEF MInv, TypeOK, Board, PlaceBid, Submit, Contest
<1>5. (flight \in [DOMAIN Jobs -> [at : {"none", "live", "settled", "slashed"}, tick : Nat]])'
    <2>1. ASSUME NEW j \in DOMAIN Jobs, Submit(j)
          PROVE  flight' \in [DOMAIN Jobs ->
                                [at : {"none", "live", "settled", "slashed"}, tick : Nat]]
        BY <1>3, <2>1 DEF MInv, TypeOK, Submit
    <2>2. ASSUME NEW j \in DOMAIN Jobs, NEW proven \in BOOLEAN, Contest(j, proven)
          PROVE  flight' \in [DOMAIN Jobs ->
                                [at : {"none", "live", "settled", "slashed"}, tick : Nat]]
        <3> DEFINE outcome == ContestOutcome(flight[j].tick, now, proven)
        <3>1. outcome \in {"live", "settled", "slashed"}
            BY DEF ContestOutcome
        <3>2. flight' = [flight EXCEPT ![j].at = outcome]
            BY <2>2 DEF Contest
        <3> HIDE DEF outcome
        <3> QED BY <3>1, <3>2 DEF MInv, TypeOK
    <2> QED BY <2>1, <2>2 DEF MInv, TypeOK, Board, Recertify, PlaceBid
<1>6. (bids \in Seq(Offers))'
    <2>1. ASSUME NEW bid \in Offers, PlaceBid(bid) PROVE bids' \in Seq(Offers)
        BY <2>1 DEF MInv, TypeOK, PlaceBid
    <2> QED BY <2>1 DEF MInv, TypeOK, Board, Recertify, Submit, Contest
<1>7. TypeOK'
    BY <1>2, <1>4, <1>5, <1>6 DEF TypeOK
<1> QED BY <1>1, <1>7, AccountStands DEF warrantVars, wallVars

LEMMA StutterKeepsMInv == MInv /\ UNCHANGED vars => MInv'
BY DEF MInv, TypeOK, WarrantTypeOK, WellFormed, BondIsAccounted, vars, warrantVars,
       boardVars, bondVars, wallVars, streamVars, drainVars

THEOREM MarketInvariant == Spec => []MInv
<1>1. MInv /\ [Next]_vars => MInv'
    BY TimeKeepsMInv, AccountKeepsMInv, BoardKeepsMInv, StutterKeepsMInv DEF Next
<1> QED BY <1>1, InitMInv, PTL DEF Spec

----------------------------------------------------------------------------
(* The properties.                                                         *)

\* Every variable has its type (the state warrant.rs, stream.rs and the
\* board keep).
THEOREM TypeCorrect == Spec => []TypeOK
<1>1. MInv => TypeOK
    BY DEF MInv
<1> QED BY <1>1, MarketInvariant, PTL

\* The bond is accounted for to the unit, in whatever order agent and sponsor
\* arrive, and stays in the perimeter (warrant.rs spend, batch.rs batch).
THEOREM BondAccounted == Spec => []BondIsAccounted
<1>1. MInv => BondIsAccounted
    BY DEF MInv
<1> QED BY <1>1, MarketInvariant, PTL

\* At the tick the sponsor may collect, a submission older than the
\* revocation is past its contest (warrant.rs drain_ready, submission.rs
\* contest).
THEOREM FlightsLand == Spec => []FlightsLandFirst
<1>1. MInv => FlightsLandFirst
    <2> SUFFICES ASSUME MInv, NEW j \in DOMAIN Jobs, NEW proven \in BOOLEAN,
                        DrainReady, now < TickMax,
                        flight[j].at = "live", flight[j].tick < revocationTick
                 PROVE  ContestOutcome(flight[j].tick, now, proven) = "settled"
        BY DEF FlightsLandFirst
    <2>1. now \in Nat /\ revocationTick \in Nat /\ flight[j].tick \in Nat
        BY DEF MInv, TypeOK, WarrantTypeOK
    <2>2. ContestWindow \in Nat /\ ContestWindow <= DrainDelay /\ DrainDelay \in Nat
        BY MarketAssumption, ConstantsAreNumbers DEF MarketAssumption
    <2>3. now >= revocationTick + DrainDelay
        <3>1. Later(revocationTick, DrainDelay) \in {revocationTick + DrainDelay, TickMax}
            BY <2>1, <2>2, LaterIsATick
        <3> QED BY <2>1, <2>2, <3>1, ConstantsAreNumbers DEF DrainReady
    <2>4. Later(flight[j].tick, ContestWindow) <= flight[j].tick + ContestWindow
        BY <2>1, <2>2, ConstantsAreNumbers DEF Later, Lesser
    <2>5. Later(flight[j].tick, ContestWindow) \in Nat
        BY <2>1, <2>2, LaterIsATick
    <2> QED BY <2>1, <2>2, <2>3, <2>4, <2>5 DEF ContestOutcome
<1> QED BY <1>1, MarketInvariant, PTL

\* Behind the wall nothing moves but the collection, at its time, and what
\* was not opened before it reads failed (warrant.rs revoke and drain_ready,
\* stream.rs tick, receipt.rs status).
THEOREM WallStands == Spec => WallHolds
<1> DEFINE Behind ==
        revoked =>
           /\ revoked' /\ revocationTick' = revocationTick
           /\ UNCHANGED <<moved, spends, reached, paid>>
           /\ \A commitment \in receipts' \ honoured' : Status(commitment)' = "failed"
           /\ drained' # drained => now >= revocationTick + DrainDelay \/ now = TickMax
<1>1. ASSUME MInv, [Next]_vars, revoked
      PROVE  Behind
    <2>1. now \in Nat /\ revocationTick \in Nat /\ now <= TickMax /\ TickMax \in Nat
          /\ paid \in 0 .. Cap
        BY <1>1, ConstantsAreNumbers DEF MInv, TypeOK, WarrantTypeOK
    <2>2. revoked' => \A commitment \in receipts' \ honoured' : Status(commitment)' = "failed"
        BY DEF Status
    <2>3. CASE Time
        <3>1. paid' = paid
            BY <1>1, <2>1, <2>3 DEF Time, Tick, StreamPays
        <3> QED BY <1>1, <2>2, <2>3, <3>1 DEF Time, Tick, bondVars, wallVars, drainVars
    <2>4. CASE Drain
        <3>1. now >= revocationTick + DrainDelay \/ now = TickMax
            <4>1. Later(revocationTick, DrainDelay) \in {revocationTick + DrainDelay, TickMax}
                BY <2>1, ConstantsAreNumbers, LaterIsATick
            <4> QED BY <2>1, <2>4, <4>1, ConstantsAreNumbers DEF Drain, DrainReady
        <3> QED BY <1>1, <2>2, <2>4, <3>1 DEF Drain, bondVars, wallVars, streamVars
    <2>5. CASE Spending
        BY <1>1, <2>5 DEF Spending, Spend, Batch, Moves
    <2>6. CASE Revoke
        BY <1>1, <2>6 DEF Revoke
    <2>7. CASE Close
        BY <1>1, <2>2, <2>7 DEF Close, bondVars, wallVars, drainVars
    <2>8. CASE Promising
        <3>1. UNCHANGED <<bondVars, wallVars, streamVars, drainVars>>
            BY <2>8 DEF Promising, Commit, Verify
        <3> QED BY <1>1, <2>2, <3>1 DEF bondVars, wallVars, streamVars, drainVars
    <2>9. CASE UNCHANGED warrantVars
        BY <1>1, <2>2, <2>9 DEF warrantVars, bondVars, wallVars, streamVars, drainVars
    <2>10. UNCHANGED vars \/ Board => UNCHANGED warrantVars
        BY DEF vars, Board, Recertify, PlaceBid, Submit, Contest
    <2> QED BY <1>1, <2>3, <2>4, <2>5, <2>6, <2>7, <2>8, <2>9, <2>10
            DEF Next, Account, WarrantNext
<1>2. MInv /\ [Next]_vars => [Behind]_warrantVars
    BY <1>1
<1>3. WallHolds <=> [][Behind]_warrantVars
    BY DEF WallHolds
<1> HIDE DEF Behind
<1> QED BY <1>2, <1>3, MarketInvariant, PTL DEF Spec

----------------------------------------------------------------------------
(* The auction.                                                            *)

\* g tells the best bid after each turn of the auction's loop.
Bests(offered, n, g) ==
    /\ FoldLeft(LAMBDA best, bid : IF Replaces(bid, best) THEN bid ELSE best, offered[1], offered)
         = g[1 .. n]
    /\ g[{}] = offered[1]
    /\ \A i \in 1 .. n : g[1 .. i] = IF Replaces(offered[i], g[1 .. i - 1])
                                     THEN offered[i] ELSE g[1 .. i - 1]

LEMMA AuctionTurns ==
    ASSUME NEW offered \in Seq(Offers), NEW n \in Nat \ {0}, n = Len(offered)
    PROVE  \E g : Bests(offered, n, g)
<1> DEFINE it == CHOOSE it : it = [T \in SUBSET (DOMAIN offered) |->
                    IF T = {} THEN offered[1]
                    ELSE IF Replaces(offered[Max(T)], it[T \ {Max(T)}])
                         THEN offered[Max(T)] ELSE it[T \ {Max(T)}]]
           op == [i \in 1 .. n |-> [best \in Offers |-> IF Replaces(offered[i], best) THEN offered[i] ELSE best]]
<1>1. FoldLeft(LAMBDA best, bid : IF Replaces(bid, best) THEN bid ELSE best, offered[1], offered)
        = it[DOMAIN offered]
    BY Zenon DEF FoldLeft, MapThenFoldSet
<1>2. DOMAIN offered = 1 .. n /\ \A i \in 1 .. n : offered[i] \in Offers
    OBVIOUS
<1>3. /\ \A i \in 1 .. n : \A best \in Offers : op[i][best] \in Offers
      /\ \A i \in 1 .. n : \A best \in Offers :
           op[i][best] = IF Replaces(offered[i], best) THEN offered[i] ELSE best
    BY <1>2
<1>4. PICK h \in [SUBSET (1 .. n) -> Offers] : IsLoop(n, offered[1], op, h)
    <2> HIDE DEF op
    <2>1. LoopTables(n, Offers, offered[1], op) # {}
        <3>1. \A i \in 1 .. n : \A best \in Offers : op[i][best] \in Offers
            BY <1>3
        <3>2. offered[1] \in Offers
            BY <1>2
        <3> QED BY <3>1, <3>2, LoopExists
    <2> QED BY <2>1 DEF LoopTables
<1>5. ASSUME NEW T \in SUBSET (1 .. n)
      PROVE  h[T] = IF T = {} THEN offered[1]
                    ELSE IF Replaces(offered[Max(T)], h[T \ {Max(T)}])
                         THEN offered[Max(T)] ELSE h[T \ {Max(T)}]
    <2> HIDE DEF op
    <2>1. CASE T = {}
        BY <1>4, <2>1 DEF IsLoop
    <2>2. CASE T # {}
        <3>1. Max(T) \in 1 .. n
            BY <2>2, MaxIs
        <3>2. h[T \ {Max(T)}] \in Offers
            <4>1. T \ {Max(T)} \in SUBSET (1 .. n)
                OBVIOUS
            <4> QED BY <4>1
        <3>3. h[T] = op[Max(T)][h[T \ {Max(T)}]]
            BY <1>4, <2>2 DEF IsLoop
        <3> QED BY <1>3, <2>2, <3>1, <3>2, <3>3
    <2> QED BY <2>1, <2>2
<1>6. it = [T \in SUBSET (DOMAIN offered) |->
              IF T = {} THEN offered[1]
              ELSE IF Replaces(offered[Max(T)], it[T \ {Max(T)}])
                   THEN offered[Max(T)] ELSE it[T \ {Max(T)}]]
    <2>1. h = [T \in SUBSET (DOMAIN offered) |->
              IF T = {} THEN offered[1]
              ELSE IF Replaces(offered[Max(T)], h[T \ {Max(T)}])
                   THEN offered[Max(T)] ELSE h[T \ {Max(T)}]]
        BY <1>2, <1>5
    <2>2. \E f : f = [T \in SUBSET (DOMAIN offered) |->
              IF T = {} THEN offered[1]
              ELSE IF Replaces(offered[Max(T)], f[T \ {Max(T)}])
                   THEN offered[Max(T)] ELSE f[T \ {Max(T)}]]
        BY <2>1
    <2> QED BY <2>2, Zenon
<1> HIDE DEF it
<1>7. it = h
    <2>1. \A T \in SUBSET (1 .. n) :
            it[T] = IF T = {} THEN offered[1]
                    ELSE IF Replaces(offered[Max(T)], it[T \ {Max(T)}])
                         THEN offered[Max(T)] ELSE it[T \ {Max(T)}]
        BY <1>2, <1>6
    <2> DEFINE U == {T \in SUBSET (1 .. n) : it[T] # h[T]}
    <2>2. U = {}
        <3> SUFFICES ASSUME U # {} PROVE FALSE
            OBVIOUS
        <3> DEFINE S == 1 .. n
        <3>0. U \in SUBSET SUBSET S /\ U # {}
            OBVIOUS
        <3>1. IsFiniteSet(S)
            BY FirstNumbers
        <3>2. PICK T \in U : \A W \in U : W \subseteq T => W = T
            <4> HIDE DEF U, S
            <4> QED BY <3>0, <3>1, LeastFinite
        <3>3. T \in SUBSET (1 .. n) /\ it[T] # h[T] /\ T # {}
            BY <1>5, <2>1, <3>2
        <3>4. Max(T) \in T
            BY <3>3, MaxIs
        <3>5. it[T \ {Max(T)}] = h[T \ {Max(T)}]
            <4>1. T \ {Max(T)} \in SUBSET (1 .. n) /\ T \ {Max(T)} \subseteq T /\ T \ {Max(T)} # T
                BY <3>3, <3>4
            <4> QED BY <3>2, <4>1
        <3> QED BY <1>5, <2>1, <3>3, <3>5
    <2>3. DOMAIN it = SUBSET (1 .. n)
        BY <1>2, <1>6
    <2>4. \A T \in SUBSET (1 .. n) : it[T] = h[T]
        BY <2>2
    <2>5. it = [T \in SUBSET (1 .. n) |-> it[T]] /\ h = [T \in SUBSET (1 .. n) |-> h[T]]
        <3> DEFINE value(T) == IF T = {} THEN offered[1]
                               ELSE IF Replaces(offered[Max(T)], it[T \ {Max(T)}])
                                    THEN offered[Max(T)] ELSE it[T \ {Max(T)}]
        <3>1. it = [T \in SUBSET (1 .. n) |-> value(T)]
            BY <1>2, <1>6
        <3> HIDE DEF value
        <3> QED BY <1>4, <3>1
    <2> QED BY <2>4, <2>5
<1>8. /\ h[{}] = offered[1]
      /\ \A i \in 1 .. n : h[1 .. i] = op[i][h[1 .. i - 1]]
    <2> HIDE DEF op
    <2> QED BY <1>4, LoopTurns
<1>9. \A i \in 1 .. n : h[1 .. i - 1] \in Offers
    <2>1. \A i \in 1 .. n : 1 .. i - 1 \in SUBSET (1 .. n)
        OBVIOUS
    <2> QED BY <2>1
<1>10. \A i \in 1 .. n : h[1 .. i] = IF Replaces(offered[i], h[1 .. i - 1])
                                    THEN offered[i] ELSE h[1 .. i - 1]
    <2> HIDE DEF op
    <2> QED BY <1>3, <1>8, <1>9
<1>11. Bests(offered, n, h)
    BY <1>1, <1>2, <1>7, <1>8, <1>10, Zenon DEF Bests
<1> QED BY <1>11

\* Beats orders the bids, and a bid that does not replace is beaten.
LEMMA BeatsOrders ==
    /\ \A a \in Offers : Beats(a, a)
    /\ \A a, b \in Offers : Replaces(a, b) => Beats(a, b)
    /\ \A a, b \in Offers : ~Replaces(a, b) => Beats(b, a)
    /\ \A a, b, c \in Offers : Beats(a, b) /\ Beats(b, c) => Beats(a, c)
<1>1. \A a \in Offers : a.price \in Nat /\ a.efficiency \in Nat /\ a.bidder \in Nat
    BY MarketAssumption DEF MarketAssumption
<1> QED BY <1>1 DEF Beats, Replaces

\* The winner is a bid that no other beats, in whatever order they came, and
\* one bid under the class refuses the auction (job.rs auction_winner).
THEOREM AuctionOrderFree == Spec => []AuctionIsOrderFree
<1>1. TypeOK => AuctionIsOrderFree
    <2> SUFFICES ASSUME TypeOK PROVE AuctionIsOrderFree
        OBVIOUS
    <2> SUFFICES \A classMin \in Classes :
                     ~(\E i \in DOMAIN bids : bids[i].class < classMin) /\ bids # << >> =>
                        /\ AuctionWinner(bids, classMin) \in {bids[i] : i \in DOMAIN bids}
                        /\ \A i \in DOMAIN bids : Beats(AuctionWinner(bids, classMin), bids[i])
        <3>1. {bids[i] : i \in DOMAIN bids} # {} => bids # << >>
            <4> SUFFICES ASSUME bids = << >> PROVE DOMAIN bids = {}
                OBVIOUS
            <4> QED OBVIOUS
        <3> DEFINE made == {bids[i] : i \in DOMAIN bids}
                   Unfit(c) == \E i \in DOMAIN bids : bids[i].class < c
        <3>2. \A c \in Classes : (\E bid \in made : bid.class < c) <=> Unfit(c)
            OBVIOUS
        <3>3. \A c \in Classes : Unfit(c) => AuctionWinner(bids, c) = "under_qualified"
            BY Zenon DEF AuctionWinner
        <3>4. \A c \in Classes : made # {} /\ ~Unfit(c) =>
                 /\ AuctionWinner(bids, c) \in made
                 /\ \A bid \in made : Beats(AuctionWinner(bids, c), bid)
            <4> SUFFICES ASSUME NEW c \in Classes, made # {}, ~Unfit(c)
                         PROVE  /\ AuctionWinner(bids, c) \in made
                                /\ \A i \in DOMAIN bids : Beats(AuctionWinner(bids, c), bids[i])
                OBVIOUS
            <4> QED BY <3>1
        <3> HIDE DEF Unfit
        <3> QED BY <3>2, <3>3, <3>4, Zenon DEF AuctionIsOrderFree
    <2> SUFFICES ASSUME NEW classMin \in Classes,
                        ~(\E i \in DOMAIN bids : bids[i].class < classMin),
                        bids # << >>
                 PROVE  /\ AuctionWinner(bids, classMin) \in {bids[i] : i \in DOMAIN bids}
                        /\ \A i \in DOMAIN bids : Beats(AuctionWinner(bids, classMin), bids[i])
        OBVIOUS
    <2>1. bids \in Seq(Offers)
        BY DEF TypeOK
    <2>2. PICK n \in Nat \ {0} : n = Len(bids)
        BY <2>1
    <2>3. DOMAIN bids = 1 .. n /\ \A i \in 1 .. n : bids[i] \in Offers
        BY <2>1, <2>2
    <2>4. PICK g : Bests(bids, n, g)
        BY <2>1, <2>2, AuctionTurns
    <2>5. AuctionWinner(bids, classMin) = g[1 .. n]
        BY <2>4, Zenon DEF AuctionWinner, Bests
    <2>6. /\ g[{}] = bids[1]
          /\ \A i \in 1 .. n : g[1 .. i] = IF Replaces(bids[i], g[1 .. i - 1])
                                           THEN bids[i] ELSE g[1 .. i - 1]
        BY <2>4, Zenon DEF Bests
    <2> DEFINE made == {bids[i] : i \in 1 .. n}
               P == {i \in Nat : i <= n => g[1 .. i] \in made /\ \A j \in 1 .. i : Beats(g[1 .. i], bids[j])}
    <2>7. 0 \in P
        <3>1. 1 .. 0 = {} /\ bids[1] \in made
            OBVIOUS
        <3> QED BY <2>6, <3>1
    <2>8. ASSUME NEW i \in Nat, i \in P PROVE i + 1 \in P
        <3> SUFFICES ASSUME i + 1 <= n
                     PROVE  g[1 .. i + 1] \in made /\ \A j \in 1 .. i + 1 : Beats(g[1 .. i + 1], bids[j])
            OBVIOUS
        <3> DEFINE best == g[1 .. i]
                   bid == bids[i + 1]
        <3>1. best \in made /\ best \in Offers /\ \A j \in 1 .. i : Beats(best, bids[j])
            BY <2>3, <2>8
        <3>2. i + 1 \in 1 .. n /\ (i + 1) - 1 = i
            OBVIOUS
        <3>3. bid \in made /\ bid \in Offers
            BY <2>3, <3>2
        <3>4. g[1 .. i + 1] = IF Replaces(bid, best) THEN bid ELSE best
            BY <2>6, <3>2
        <3>5. \A j \in 1 .. i + 1 : j \in 1 .. i \/ j = i + 1
            OBVIOUS
        <3>6. \A j \in 1 .. i : bids[j] \in Offers
            BY <2>3, <3>2
        <3> HIDE DEF made, P
        <3>7. CASE Replaces(bid, best)
            <4>1. \A j \in 1 .. i : Beats(bid, bids[j])
                BY <3>1, <3>3, <3>6, <3>7, BeatsOrders
            <4>2. Beats(bid, bid)
                BY <3>3, BeatsOrders
            <4>3. g[1 .. i + 1] = bid
                BY <3>4, <3>7
            <4> QED BY <3>3, <3>5, <4>1, <4>2, <4>3
        <3>8. CASE ~Replaces(bid, best)
            <4>1. Beats(best, bid)
                BY <3>1, <3>3, <3>8, BeatsOrders
            <4>2. g[1 .. i + 1] = best
                BY <3>4, <3>8
            <4> QED BY <3>1, <3>5, <4>1, <4>2
        <3> QED BY <3>7, <3>8
    <2>9. n \in P
        <3>1. Nat \subseteq P
            <4> HIDE DEF P
            <4> QED BY <2>7, <2>8, OverNat
        <3> QED BY <3>1
    <2> QED BY <2>3, <2>5, <2>9
<1> QED BY <1>1, TypeCorrect, PTL

----------------------------------------------------------------------------
(* The wire: varints, and the words they are part of.                      *)

\* What the writer of a varint computes: the recursion has a solution.
LEMMA WriteVarintIs ==
    /\ WriteVarint \in [Nat -> Seq(Nat)]
    /\ \A value \in Nat :
         WriteVarint[value] = IF value < Base THEN <<value>>
                              ELSE <<(value % Base) + Base>> \o WriteVarint[value \div Base]
<1> DEFINE rank == [value \in Nat |-> value]
           roots == 0 .. Base - 1
           first == [value \in Nat |-> <<value>>]
           next == [value \in Nat |-> value \div Base]
           step == [value \in Nat |-> [w \in Seq(Nat) |-> <<(value % Base) + Base>> \o w]]
           f == CHOOSE f : f = [value \in Nat |->
                    IF value < Base THEN <<value>>
                                    ELSE <<(value % Base) + Base>> \o f[value \div Base]]
<1>1. Base \in Nat /\ Base > 1
    BY WireAssumption
<1>2. \A value \in Nat : value \in roots <=> value < Base
    BY <1>1
<1>3. \A value \in Nat : first[value] = <<value>> /\ first[value] \in Seq(Nat) /\ rank[value] \in Nat
    OBVIOUS
<1>4. ASSUME NEW value \in Nat \ roots
      PROVE  /\ next[value] \in Nat /\ rank[next[value]] < rank[value]
             /\ next[value] = value \div Base
    <2>1. value \in Nat /\ value >= Base
        BY <1>1
    <2>2. value \div Base \in Nat /\ value \div Base < value
        BY <1>1, <2>1
    <2> QED BY <2>1, <2>2
<1>5. ASSUME NEW value \in Nat \ roots, NEW w \in Seq(Nat)
      PROVE  /\ step[value][w] \in Seq(Nat)
             /\ step[value][w] = <<(value % Base) + Base>> \o w
    <2>1. (value % Base) + Base \in Nat
        BY <1>1
    <2>2. <<(value % Base) + Base>> \in Seq(Nat)
        BY <2>1
    <2>3. <<(value % Base) + Base>> \o w \in Seq(Nat)
        BY <2>2, ConcatProperties
    <2> QED BY <2>3
<1>6. PICK g \in [Nat -> Seq(Nat)] :
        \A x \in Nat : g[x] = IF x \in roots THEN first[x] ELSE step[x][g[next[x]]]
    <2> DEFINE V == Seq(Nat)
    <2>1. /\ \A x \in Nat : rank[x] \in Nat
          /\ \A x \in Nat : x \in roots => first[x] \in V
          /\ \A x \in Nat \ roots : next[x] \in Nat /\ rank[next[x]] < rank[x]
          /\ \A x \in Nat \ roots : \A v \in V : step[x][v] \in V
        BY <1>3, <1>4, <1>5
    <2> HIDE DEF rank, roots, first, next, step, V
    <2>2. PointerSolutions(Nat, V, roots, first, next, step) # {}
        BY <2>1, RecursionExists
    <2>3. PICK g : g \in PointerSolutions(Nat, V, roots, first, next, step)
        BY <2>2
    <2> QED BY <2>3 DEF PointerSolutions, V
<1>7. ASSUME NEW value \in Nat
      PROVE  g[value] = IF value < Base THEN <<value>>
                        ELSE <<(value % Base) + Base>> \o g[value \div Base]
    <2>1. g[value] = IF value \in roots THEN first[value] ELSE step[value][g[next[value]]]
        BY <1>6
    <2>2. CASE value < Base
        BY <1>2, <1>3, <2>1, <2>2
    <2>3. CASE ~(value < Base)
        <3> HIDE DEF rank, roots, first, next, step
        <3>1. value \in Nat \ roots
            BY <1>2, <2>3
        <3>2. next[value] = value \div Base /\ g[next[value]] \in Seq(Nat)
            BY <1>4, <3>1
        <3>3. step[value][g[next[value]]] = <<(value % Base) + Base>> \o g[next[value]]
            BY <1>5, <3>1, <3>2
        <3> QED BY <2>1, <2>3, <3>1, <3>2, <3>3
    <2> QED BY <2>2, <2>3
<1>8. g = [value \in Nat |-> IF value < Base THEN <<value>>
                             ELSE <<(value % Base) + Base>> \o g[value \div Base]]
    BY <1>7
<1>9. f = [value \in Nat |-> IF value < Base THEN <<value>>
                             ELSE <<(value % Base) + Base>> \o f[value \div Base]]
    BY <1>8
<1>10. WriteVarint = f
    BY DEF WriteVarint
<1> HIDE DEF f
<1>11. \A value \in Nat : f[value] = IF value < Base THEN <<value>>
                             ELSE <<(value % Base) + Base>> \o f[value \div Base]
    BY <1>9
<1>12. ASSUME NEW value \in Nat PROVE f[value] \in Seq(Nat)
    <2> DEFINE P == {n \in Nat : \A x \in 0 .. n : f[x] \in Seq(Nat)}
    <2>1. 0 \in P
        <3> DEFINE x == 0
        <3>1. x \in Nat /\ x < Base /\ x + 0 = x
            BY <1>1
        <3>2. \A y \in 0 .. 0 : y = x
            OBVIOUS
        <3>3. <<x>> \in Seq(Nat)
            OBVIOUS
        <3> HIDE DEF x
        <3>4. f[x] = <<x>>
            BY <1>11, <3>1, Zenon
        <3> QED BY <3>2, <3>3, <3>4
    <2>2. ASSUME NEW n \in Nat, n \in P PROVE n + 1 \in P
        <3>1. ASSUME NEW x \in 0 .. n + 1 PROVE f[x] \in Seq(Nat)
            <4>1. x \in Nat
                OBVIOUS
            <4>2. CASE x < Base
                <5>1. f[x] = <<x>>
                    BY <1>11, <4>1, <4>2, Zenon
                <5> QED BY <4>1, <5>1
            <4>3. CASE ~(x < Base)
                <5>1. x \div Base \in 0 .. n
                    BY <1>1, <4>1, <4>3
                <5>2. f[x \div Base] \in Seq(Nat)
                    BY <2>2, <5>1
                <5>3. f[x] = <<(x % Base) + Base>> \o f[x \div Base]
                    BY <1>11, <4>1, <4>3
                <5>4. x \notin roots
                    BY <1>1, <4>3
                <5>5. <<(x % Base) + Base>> \in Seq(Nat)
                    BY <1>1, <4>1
                <5> QED BY <5>2, <5>3, <5>5, ConcatProperties
            <4> QED BY <4>2, <4>3
        <3> QED BY <3>1
    <2>3. Nat \subseteq P
        <3> HIDE DEF P
        <3> QED BY <2>1, <2>2, OverNat
    <2>4. value \in 0 .. value
        OBVIOUS
    <2> QED BY <2>3, <2>4
<1>13. f \in [Nat -> Seq(Nat)]
    BY <1>9, <1>12
<1> QED BY <1>10, <1>11, <1>13

\* What the reader of a varint computes.
LEMMA ValueOfIs ==
    /\ ValueOf \in [Seq(Nat) -> Nat]
    /\ \A groups \in Seq(Nat) :
         ValueOf[groups] = IF groups = <<>> THEN 0
                           ELSE (Head(groups) % Base) + Base * ValueOf[Tail(groups)]
<1> DEFINE rank == [w \in Seq(Nat) |-> Len(w)]
           roots == {<<>>}
           first == [w \in Seq(Nat) |-> 0]
           next == [w \in Seq(Nat) |-> Tail(w)]
           step == [w \in Seq(Nat) |-> [v \in Nat |-> (Head(w) % Base) + Base * v]]
           f == CHOOSE f : f = [w \in Seq(Nat) |->
                    IF w = <<>> THEN 0 ELSE (Head(w) % Base) + Base * f[Tail(w)]]
<1>1. Base \in Nat /\ Base > 1
    BY WireAssumption
<1>2. \A w \in Seq(Nat) : first[w] = 0 /\ rank[w] = Len(w) /\ rank[w] \in Nat
    OBVIOUS
<1>3. ASSUME NEW w \in Seq(Nat), w # <<>>
      PROVE  /\ next[w] = Tail(w) /\ next[w] \in Seq(Nat) /\ Len(next[w]) < Len(w)
             /\ Head(w) \in Nat
    BY <1>3, HeadTailProperties
<1>4. ASSUME NEW w \in Seq(Nat), w # <<>>, NEW v \in Nat
      PROVE  /\ step[w][v] \in Nat
             /\ step[w][v] = (Head(w) % Base) + Base * v
    <2>1. Head(w) % Base \in Nat /\ Base * v \in Nat
        BY <1>1, <1>3, <1>4
    <2>2. (Head(w) % Base) + Base * v \in Nat
        BY <2>1
    <2> QED BY <2>2
<1>5. PICK g \in [Seq(Nat) -> Nat] :
        \A x \in Seq(Nat) : g[x] = IF x \in roots THEN first[x] ELSE step[x][g[next[x]]]
    <2> DEFINE S == Seq(Nat)
    <2>1. \A x \in S \ roots : next[x] \in S /\ rank[next[x]] < rank[x]
        <3> SUFFICES ASSUME NEW x \in S \ roots PROVE next[x] \in S /\ rank[next[x]] < rank[x]
            OBVIOUS
        <3>1. x \in Seq(Nat) /\ x # <<>>
            OBVIOUS
        <3> HIDE DEF rank, next, roots
        <3> QED BY <1>2, <1>3, <3>1
    <2>2. /\ \A x \in S : rank[x] \in Nat
          /\ \A x \in S : x \in roots => first[x] \in Nat
          /\ \A x \in S \ roots : \A v \in Nat : step[x][v] \in Nat
        BY <1>2, <1>4
    <2> HIDE DEF rank, roots, first, next, step, S
    <2>3. PointerSolutions(S, Nat, roots, first, next, step) # {}
        BY <2>1, <2>2, RecursionExists
    <2>4. PICK g : g \in PointerSolutions(S, Nat, roots, first, next, step)
        BY <2>3
    <2> QED BY <2>4 DEF PointerSolutions, S
<1>6. ASSUME NEW w \in Seq(Nat)
      PROVE  g[w] = IF w = <<>> THEN 0 ELSE (Head(w) % Base) + Base * g[Tail(w)]
    <2>1. g[w] = IF w \in roots THEN first[w] ELSE step[w][g[next[w]]]
        BY <1>5
    <2>2. CASE w = <<>>
        BY <1>2, <2>1, <2>2
    <2>3. CASE w # <<>>
        <3>1. w \notin roots
            BY <2>3
        <3> HIDE DEF rank, roots, first, next, step
        <3>2. next[w] = Tail(w) /\ g[next[w]] \in Nat
            BY <1>3, <2>3
        <3>3. step[w][g[next[w]]] = (Head(w) % Base) + Base * g[next[w]]
            BY <1>4, <2>3, <3>2
        <3> QED BY <2>1, <2>3, <3>1, <3>2, <3>3
    <2> QED BY <2>2, <2>3
<1>7. g = [w \in Seq(Nat) |-> IF w = <<>> THEN 0 ELSE (Head(w) % Base) + Base * g[Tail(w)]]
    BY <1>6
<1>8. f = [w \in Seq(Nat) |-> IF w = <<>> THEN 0 ELSE (Head(w) % Base) + Base * f[Tail(w)]]
    BY <1>7
<1>9. ValueOf = f
    BY DEF ValueOf
<1> HIDE DEF f
<1>10. \A w \in Seq(Nat) : f[w] = IF w = <<>> THEN 0 ELSE (Head(w) % Base) + Base * f[Tail(w)]
    BY <1>8
<1> DEFINE P == {n \in Nat : \A w \in Seq(Nat) : Len(w) = n => f[w] \in Nat}
<1>11. 0 \in P
    <2>1. \A w \in Seq(Nat) : Len(w) = 0 => w = <<>>
        BY EmptySeq
    <2> QED BY <1>10, <2>1
<1>12. ASSUME NEW n \in Nat, n \in P PROVE n + 1 \in P
    <2>1. ASSUME NEW w \in Seq(Nat), Len(w) = n + 1 PROVE f[w] \in Nat
        <3>1. w # <<>>
            BY <2>1
        <3>2. Tail(w) \in Seq(Nat) /\ Len(Tail(w)) = n /\ Head(w) \in Nat
            BY <2>1, <3>1, HeadTailProperties
        <3>3. f[Tail(w)] \in Nat
            BY <1>12, <3>2
        <3>4. f[w] = (Head(w) % Base) + Base * f[Tail(w)]
            BY <1>10, <3>1
        <3>5. Head(w) % Base \in Nat /\ Base * f[Tail(w)] \in Nat
            BY <1>1, <3>2, <3>3
        <3> QED BY <3>4, <3>5
    <2> QED BY <2>1
<1>13. Nat \subseteq P
    <2> HIDE DEF P
    <2> QED BY <1>11, <1>12, OverNat
<1>14. f \in [Seq(Nat) -> Nat]
    <2>1. \A w \in Seq(Nat) : Len(w) \in Nat
        OBVIOUS
    <2>2. \A w \in Seq(Nat) : f[w] \in Nat
        BY <1>13, <2>1
    <2> QED BY <1>8, <2>2
<1> QED BY <1>9, <1>10, <1>14

\* The least groups that hold a value.
IsVarint(w) ==
    /\ w \in Seq(Nat) /\ Len(w) > 0
    /\ \A i \in 1 .. Len(w) - 1 : w[i] \in Continued
    /\ w[Len(w)] < Base
    /\ w[Len(w)] > 0 \/ Len(w) = 1

\* A group that continues, before a varint that is not zero, is a varint.
LEMMA LongerVarint ==
    ASSUME NEW w, IsVarint(w), Len(w) > 1 \/ w[1] > 0, NEW digit \in 0 .. Base - 1
    PROVE  /\ IsVarint(<<digit + Base>> \o w) /\ Len(<<digit + Base>> \o w) = Len(w) + 1
           /\ Head(<<digit + Base>> \o w) = digit + Base /\ Tail(<<digit + Base>> \o w) = w
<1> DEFINE g == <<digit + Base>>
           s == g \o w
<1>1. Base \in Nat /\ Base > 1 /\ digit \in Nat /\ digit + Base \in Nat /\ w \in Seq(Nat)
    BY WireAssumption DEF IsVarint
<1>2. g \in Seq(Nat) /\ Len(g) = 1 /\ g[1] = digit + Base
    BY <1>1
<1> HIDE DEF g
<1>3. /\ s \in Seq(Nat) /\ Len(s) = 1 + Len(w)
      /\ \A i \in 1 .. 1 + Len(w) : s[i] = IF i <= 1 THEN g[i] ELSE w[i - 1]
    <2>1. /\ s \in Seq(Nat) /\ Len(s) = Len(g) + Len(w)
          /\ \A i \in 1 .. Len(g) + Len(w) : s[i] = IF i <= Len(g) THEN g[i] ELSE w[i - Len(g)]
        BY <1>1, <1>2, ConcatProperties
    <2> HIDE DEF s
    <2> QED BY <1>2, <2>1
<1> HIDE DEF s
<1>4. Len(w) \in Nat /\ Len(w) > 0
    BY <1>1 DEF IsVarint
<1>5. s[1] = digit + Base /\ \A i \in 2 .. Len(s) : s[i] = w[i - 1]
    BY <1>2, <1>3, <1>4
<1>6. ASSUME NEW i \in 1 .. Len(s) - 1 PROVE s[i] \in Continued
    <2>1. CASE i = 1
        BY <1>1, <1>5, <2>1 DEF Continued
    <2>2. CASE i # 1
        <3>1. i - 1 \in 1 .. Len(w) - 1 /\ i \in 2 .. Len(s)
            BY <1>3, <1>4, <2>2
        <3> QED BY <1>5, <3>1 DEF IsVarint
    <2> QED BY <2>1, <2>2
<1>7. s[Len(s)] = w[Len(w)] /\ Len(s) > 1
    <2>1. Len(s) \in 2 .. Len(s) /\ Len(s) - 1 = Len(w)
        BY <1>3, <1>4
    <2> QED BY <1>4, <1>5, <2>1
<1>8. w[Len(w)] < Base /\ w[Len(w)] > 0
    <2>1. Len(w) = 1 => w[Len(w)] = w[1]
        OBVIOUS
    <2> QED BY <1>4, <2>1 DEF IsVarint
<1>9. IsVarint(s)
    BY <1>3, <1>6, <1>7, <1>8 DEF IsVarint
<1>10. Head(s) = digit + Base
    BY <1>3, <1>5
<1>11. Tail(s) = w
    <2>1. s # <<>>
        BY <1>3, <1>4
    <2>2. /\ Tail(s) \in Seq(Nat) /\ Len(Tail(s)) = Len(w)
          /\ \A i \in 1 .. Len(w) : Tail(s)[i] = s[i + 1]
        BY <1>3, <1>4, <2>1, HeadTailProperties
    <2>3. \A i \in 1 .. Len(w) : Tail(s)[i] = w[i]
        <3>1. \A i \in 1 .. Len(w) : i + 1 \in 2 .. Len(s) /\ (i + 1) - 1 = i
            BY <1>3, <1>4
        <3> QED BY <1>5, <2>2, <3>1
    <2> QED BY <1>1, <2>2, <2>3, SeqEqual
<1> QED BY <1>3, <1>9, <1>10, <1>11 DEF s, g

\* A varint of several groups is a group that continues and a varint.
LEMMA ShorterVarint ==
    ASSUME NEW w, IsVarint(w), Len(w) > 1
    PROVE  /\ IsVarint(Tail(w)) /\ Len(Tail(w)) = Len(w) - 1
           /\ Len(Tail(w)) > 1 \/ Tail(w)[1] > 0
           /\ Head(w) \in Continued /\ w = <<Head(w)>> \o Tail(w)
<1>1. w \in Seq(Nat) /\ w # <<>> /\ Len(w) \in Nat
    BY DEF IsVarint
<1> DEFINE s == Tail(w)
<1>2. /\ s \in Seq(Nat) /\ Len(s) = Len(w) - 1 /\ Head(w) \in Nat
      /\ \A i \in 1 .. Len(s) : s[i] = w[i + 1]
    BY <1>1, HeadTailProperties
<1>3. Head(w) = w[1] /\ Head(w) \in Continued
    BY <1>1 DEF IsVarint
<1>4. w = <<Head(w)>> \o s
    <2> DEFINE g == <<Head(w)>>
    <2>1. g \in Seq(Nat) /\ Len(g) = 1 /\ g[1] = w[1]
        BY <1>2, <1>3
    <2> HIDE DEF g, s
    <2>2. /\ g \o s \in Seq(Nat) /\ Len(g \o s) = 1 + Len(s)
          /\ \A i \in 1 .. 1 + Len(s) : (g \o s)[i] = IF i <= 1 THEN g[i] ELSE s[i - 1]
        <3> DEFINE u == g \o s
        <3>1. /\ u \in Seq(Nat) /\ Len(u) = Len(g) + Len(s)
              /\ \A i \in 1 .. Len(g) + Len(s) : u[i] = IF i <= Len(g) THEN g[i] ELSE s[i - Len(g)]
            <4>1. g \in Seq(Nat) /\ s \in Seq(Nat)
                BY <1>2, <2>1
            <4> QED BY <4>1, ConcatProperties
        <3> HIDE DEF u
        <3>2. /\ u \in Seq(Nat) /\ Len(u) = 1 + Len(s)
              /\ \A i \in 1 .. 1 + Len(s) : u[i] = IF i <= 1 THEN g[i] ELSE s[i - 1]
            BY <2>1, <3>1
        <3> QED BY <3>2 DEF u
    <2>3. \A i \in 1 .. Len(w) : (g \o s)[i] = w[i]
        <3> SUFFICES ASSUME NEW i \in 1 .. Len(w) PROVE (g \o s)[i] = w[i]
            OBVIOUS
        <3>1. i \in 1 .. 1 + Len(s)
            BY <1>1, <1>2
        <3>2. i # 1 => i - 1 \in 1 .. Len(s) /\ (i - 1) + 1 = i /\ ~(i <= 1)
            BY <1>1, <1>2
        <3> QED BY <1>2, <2>1, <2>2, <3>1, <3>2
    <2>4. Len(g \o s) = Len(w)
        BY <1>1, <1>2, <2>2
    <2>5. g \o s = w
        BY <1>1, <2>2, <2>3, <2>4, SeqEqual
    <2> QED BY <2>5 DEF g
<1> HIDE DEF s
<1>5. \A i \in 1 .. Len(s) - 1 : s[i] \in Continued
    <2> SUFFICES ASSUME NEW i \in 1 .. Len(s) - 1 PROVE s[i] \in Continued
        OBVIOUS
    <2>1. i \in 1 .. Len(s) /\ i + 1 \in 1 .. Len(w) - 1
        BY <1>1, <1>2
    <2> QED BY <1>2, <2>1 DEF IsVarint
<1>6. s[Len(s)] = w[Len(w)] /\ Len(s) > 0
    <2>1. Len(s) \in 1 .. Len(s) /\ Len(s) + 1 = Len(w)
        BY <1>1, <1>2
    <2> QED BY <1>2, <2>1
<1>7. w[Len(w)] < Base /\ w[Len(w)] > 0
    BY <1>1 DEF IsVarint
<1>8. IsVarint(s)
    BY <1>2, <1>5, <1>6, <1>7 DEF IsVarint
<1>9. Len(s) > 1 \/ s[1] > 0
    <2>1. Len(s) = 1 => s[1] = s[Len(s)]
        OBVIOUS
    <2>2. Len(s) \in Nat
        BY <1>2
    <2> QED BY <1>6, <1>7, <2>1, <2>2
<1> QED BY <1>2, <1>3, <1>4, <1>8, <1>9 DEF s

\* The writer writes varints, and the reader reads what was written.
LEMMA VarintWritten ==
    ASSUME NEW value \in Nat
    PROVE  /\ IsVarint(WriteVarint[value]) /\ ValueOf[WriteVarint[value]] = value
           /\ value > 0 => Len(WriteVarint[value]) > 1 \/ WriteVarint[value][1] > 0
<1> DEFINE Ok(v) == /\ IsVarint(WriteVarint[v]) /\ ValueOf[WriteVarint[v]] = v
                    /\ v > 0 => Len(WriteVarint[v]) > 1 \/ WriteVarint[v][1] > 0
           P == {n \in Nat : \A v \in 0 .. n : Ok(v)}
<1>0. Base \in Nat /\ Base > 1
    BY WireAssumption
<1>1. ASSUME NEW v \in Nat, v < Base PROVE Ok(v)
    <2>1. WriteVarint[v] = <<v>>
        BY <1>1, WriteVarintIs, Zenon
    <2> DEFINE w == <<v>>
    <2>2. w \in Seq(Nat) /\ Len(w) = 1 /\ w[1] = v /\ Head(w) = v /\ Tail(w) = <<>> /\ w # <<>>
        OBVIOUS
    <2> HIDE DEF w
    <2>3. IsVarint(w)
        BY <1>0, <1>1, <2>2 DEF IsVarint
    <2>4. ValueOf[w] = v
        <3>1. <<>> \in Seq(Nat)
            OBVIOUS
        <3>2. ValueOf[<<>>] = 0
            BY <3>1, ValueOfIs, Zenon
        <3>3. ValueOf[w] = (Head(w) % Base) + Base * ValueOf[Tail(w)]
            BY <2>2, ValueOfIs, Zenon
        <3>4. ValueOf[w] = (v % Base) + Base * 0
            BY <2>2, <3>2, <3>3
        <3>5. v % Base = v
            BY <1>0, <1>1
        <3> QED BY <1>0, <3>4, <3>5
    <2>5. WriteVarint[v] = w
        BY <2>1 DEF w
    <2> QED BY <2>2, <2>3, <2>4, <2>5
<1>2. ASSUME NEW n \in Nat, n \in P, NEW v \in 0 .. n + 1, v >= Base PROVE Ok(v)
    <2> DEFINE q == v \div Base
               d == v % Base
               w == WriteVarint[q]
               s == <<d + Base>> \o w
    <2>1. v \in Nat /\ q \in 0 .. n /\ q > 0 /\ d \in 0 .. Base - 1 /\ v = Base * q + d
        BY <1>0, <1>2
    <2>2. WriteVarint[v] = s
        <3>1. WriteVarint[v] = <<(v % Base) + Base>> \o WriteVarint[v \div Base]
            <4>1. v \in Nat /\ ~(v < Base)
                BY <1>0, <1>2, <2>1
            <4> QED BY <4>1, WriteVarintIs, Zenon
        <3> QED BY <3>1
    <2> HIDE DEF q, d
    <2>3. Ok(q) /\ q \in Nat
        BY <1>2, <2>1
    <2>4. IsVarint(w) /\ ValueOf[w] = q /\ (Len(w) > 1 \/ w[1] > 0)
        BY <2>1, <2>3
    <2> HIDE DEF w
    <2>5. IsVarint(s) /\ Len(s) = Len(w) + 1 /\ Head(s) = d + Base /\ Tail(s) = w
        BY <2>1, <2>4, LongerVarint
    <2> HIDE DEF s
    <2>6. s \in Seq(Nat) /\ s # <<>> /\ Len(s) > 1
        BY <2>4, <2>5 DEF IsVarint
    <2>7. ValueOf[s] = (Head(s) % Base) + Base * ValueOf[Tail(s)]
        BY <2>6, ValueOfIs, Zenon
    <2>8. (d + Base) % Base = d
        BY <1>0, <2>1
    <2>9. ValueOf[s] = d + Base * q
        BY <2>4, <2>5, <2>7, <2>8
    <2>10. ValueOf[s] = v
        BY <1>0, <2>1, <2>3, <2>9
    <2> QED BY <2>2, <2>5, <2>6, <2>10
<1>3. 0 \in P
    <2>1. \A v \in 0 .. 0 : v \in Nat /\ v < Base
        BY <1>0
    <2> HIDE DEF Ok
    <2> QED BY <1>1, <2>1
<1>4. ASSUME NEW n \in Nat, n \in P PROVE n + 1 \in P
    <2>1. ASSUME NEW v \in 0 .. n + 1 PROVE Ok(v)
        <3>1. v \in Nat /\ (v < Base \/ v >= Base)
            BY <1>0
        <3> HIDE DEF Ok, P
        <3> QED BY <1>1, <1>2, <1>4, <3>1
    <2> HIDE DEF Ok
    <2> QED BY <2>1
<1>5. value \in P
    <2> HIDE DEF P
    <2> QED BY <1>3, <1>4, OverNat
<1>6. value \in 0 .. value
    OBVIOUS
<1> HIDE DEF Ok
<1>7. Ok(value)
    BY <1>5, <1>6
<1> QED BY <1>7 DEF Ok

\* And every varint is the one the writer makes of what the reader makes of it.
LEMMA VarintRead ==
    ASSUME NEW w, IsVarint(w)
    PROVE  ValueOf[w] \in Nat /\ WriteVarint[ValueOf[w]] = w
<1> DEFINE Ok(s) == /\ ValueOf[s] \in Nat /\ WriteVarint[ValueOf[s]] = s
                    /\ Len(s) > 1 \/ s[1] > 0 => ValueOf[s] > 0
           P == {n \in Nat : \A s \in Seq(Nat) : IsVarint(s) /\ Len(s) <= n => Ok(s)}
<1>0. Base \in Nat /\ Base > 1
    BY WireAssumption
<1>1. 0 \in P
    BY DEF IsVarint
<1>2. ASSUME NEW n \in Nat, n \in P, NEW s \in Seq(Nat), IsVarint(s), Len(s) <= n + 1 PROVE Ok(s)
    <2>0. ValueOf[s] \in Nat
        BY ValueOfIs
    <2>1. ValueOf[s] = (Head(s) % Base) + Base * ValueOf[Tail(s)]
        <3>1. s # <<>>
            BY <1>2 DEF IsVarint
        <3> QED BY <3>1, ValueOfIs, Zenon
    <2>2. CASE Len(s) = 1
        <3>1. Head(s) = s[1] /\ s[1] \in Nat /\ s[1] < Base /\ Tail(s) = <<>> /\ s = <<s[1]>>
            <4>1. s \in Seq(Nat) /\ Len(s) = 1 /\ s[Len(s)] < Base
                BY <1>2, <2>2 DEF IsVarint
            <4>2. s[1] \in Nat /\ Head(s) = s[1] /\ s[1] < Base
                BY <4>1
            <4>3. Tail(s) = <<>>
                <5>1. s # <<>>
                    BY <4>1
                <5>2. Tail(s) \in Seq(Nat) /\ Len(Tail(s)) = 0
                    BY <4>1, <5>1, HeadTailProperties
                <5> QED BY <5>2, EmptySeq
            <4>4. s = <<s[1]>>
                <5> DEFINE u == <<s[1]>>
                <5>1. u \in Seq(Nat) /\ Len(u) = 1 /\ u[1] = s[1]
                    BY <4>2
                <5> HIDE DEF u
                <5>2. \A i \in 1 .. Len(s) : s[i] = u[i]
                    BY <4>1, <5>1
                <5>3. s = u
                    BY <4>1, <5>1, <5>2, SeqEqual
                <5> QED BY <5>3 DEF u
            <4> QED BY <4>2, <4>3, <4>4
        <3>2. ValueOf[<<>>] = 0
            <4>1. <<>> \in Seq(Nat)
                OBVIOUS
            <4> QED BY <4>1, ValueOfIs, Zenon
        <3>3. ValueOf[s] = (s[1] % Base) + Base * 0
            BY <2>1, <3>1, <3>2
        <3>4. s[1] % Base = s[1]
            BY <1>0, <3>1
        <3>5. ValueOf[s] = s[1]
            BY <1>0, <3>1, <3>3, <3>4
        <3>6. WriteVarint[s[1]] = <<s[1]>>
            BY <3>1, WriteVarintIs, Zenon
        <3> QED BY <2>0, <2>2, <3>1, <3>5, <3>6
    <2>3. CASE Len(s) > 1
        <3> DEFINE t == Tail(s)
                   q == ValueOf[t]
                   d == Head(s) % Base
        <3>1. /\ IsVarint(t) /\ Len(t) = Len(s) - 1 /\ (Len(t) > 1 \/ t[1] > 0)
              /\ Head(s) \in Continued /\ s = <<Head(s)>> \o t
            BY <1>2, <2>3, ShorterVarint
        <3>2. t \in Seq(Nat) /\ Len(t) <= n
            BY <1>2, <3>1 DEF IsVarint
        <3>3. Ok(t)
            <4> HIDE DEF Ok, t
            <4> QED BY <1>2, <3>1, <3>2
        <3>4. q \in Nat /\ q > 0 /\ WriteVarint[q] = t
            BY <3>1, <3>3
        <3>5. Head(s) = d + Base /\ d \in 0 .. Base - 1
            <4> DEFINE h == Head(s)
                       e == h - Base
            <4>1. h \in Base .. 2 * Base - 1
                BY <3>1 DEF Continued
            <4>2. e \in 0 .. Base - 1 /\ h = Base * 1 + e
                <5> HIDE DEF h
                <5> QED BY <1>0, <4>1
            <4> HIDE DEF h, e
            <4>3. (Base * 1 + e) % Base = e
                BY <1>0, <4>2
            <4>4. h % Base = e /\ h = e + Base
                BY <1>0, <4>2, <4>3
            <4> QED BY <4>2, <4>4 DEF h
        <3> HIDE DEF t, q, d
        <3>6. ValueOf[s] = d + Base * q
            BY <2>1 DEF d, t, q
        <3>7. (d + Base * q) % Base = d /\ (d + Base * q) \div Base = q /\ ~(d + Base * q < Base)
            BY <1>0, <3>4, <3>5
        <3> DEFINE v == ValueOf[s]
        <3>8. v % Base = d /\ v \div Base = q /\ ~(v < Base) /\ v \in Nat
            BY <2>0, <3>6, <3>7
        <3> HIDE DEF v
        <3>9. WriteVarint[v] = <<(v % Base) + Base>> \o WriteVarint[v \div Base]
            BY <3>8, WriteVarintIs, Zenon
        <3>10. WriteVarint[v] = s
            BY <3>1, <3>4, <3>5, <3>8, <3>9
        <3>11. v > 0
            BY <1>0, <3>8
        <3> QED BY <2>0, <3>10, <3>11 DEF v
    <2>4. Len(s) = 1 \/ Len(s) > 1
        <3> DEFINE k == Len(s)
        <3>1. k \in Nat /\ k > 0
            BY <1>2 DEF IsVarint
        <3> HIDE DEF k
        <3>2. k = 1 \/ k > 1
            BY <3>1
        <3> QED BY <3>2 DEF k
    <2> QED BY <2>2, <2>3, <2>4
<1>3. ASSUME NEW n \in Nat, n \in P PROVE n + 1 \in P
    <2>1. n + 1 \in Nat
        OBVIOUS
    <2> HIDE DEF Ok
    <2> QED BY <1>2, <1>3, <2>1
<1>4. w \in Seq(Nat) /\ Len(w) \in Nat /\ Len(w) <= Len(w)
    BY DEF IsVarint
<1>5. Nat \subseteq P
    <2> HIDE DEF P
    <2> QED BY <1>1, <1>3, OverNat
<1>6. Ok(w)
    <2>1. Len(w) \in P
        <3> HIDE DEF P
        <3> QED BY <1>4, <1>5
    <2> HIDE DEF Ok
    <2> QED BY <1>4, <2>1
<1> QED BY <1>6

\* A part stands in a word after a position.
Stands(word, at, part) ==
    /\ at + Len(part) <= Len(word)
    /\ \A i \in 1 .. Len(part) : word[at + i] = part[i]

\* Two parts stand one after the other where they stand joined.
LEMMA StandsJoined ==
    ASSUME NEW word \in Seq(Nat), NEW at \in Nat, NEW a \in Seq(Nat), NEW b \in Seq(Nat)
    PROVE  Stands(word, at, a \o b) <=> Stands(word, at, a) /\ Stands(word, at + Len(a), b)
<1> DEFINE n == Len(a)
           m == Len(b)
           s == a \o b
<1>1. /\ s \in Seq(Nat) /\ Len(s) = n + m /\ n \in Nat /\ m \in Nat /\ Len(word) \in Nat
      /\ \A i \in 1 .. n + m : s[i] = IF i <= n THEN a[i] ELSE b[i - n]
    BY ConcatProperties
<1> HIDE DEF n, m, s
<1>2. ASSUME Stands(word, at, s) PROVE Stands(word, at, a) /\ Stands(word, at + n, b)
    <2>1. ASSUME NEW i \in 1 .. n PROVE word[at + i] = a[i]
        <3>1. i \in 1 .. n + m /\ i <= n
            BY <1>1
        <3> QED BY <1>1, <1>2, <3>1 DEF Stands
    <2>2. ASSUME NEW i \in 1 .. m PROVE word[(at + n) + i] = b[i]
        <3>1. n + i \in 1 .. n + m /\ ~(n + i <= n) /\ (n + i) - n = i /\ at + (n + i) = (at + n) + i
            BY <1>1
        <3> QED BY <1>1, <1>2, <3>1 DEF Stands
    <2>3. at + n <= Len(word) /\ (at + n) + m <= Len(word)
        BY <1>1, <1>2 DEF Stands
    <2> QED BY <2>1, <2>2, <2>3 DEF Stands, n, m
<1>3. ASSUME Stands(word, at, a), Stands(word, at + n, b) PROVE Stands(word, at, s)
    <2>1. ASSUME NEW i \in 1 .. n + m PROVE word[at + i] = s[i]
        <3>1. CASE i <= n
            <4>1. i \in 1 .. n
                BY <1>1, <3>1
            <4> QED BY <1>1, <1>3, <3>1, <4>1 DEF Stands, n
        <3>2. CASE ~(i <= n)
            <4>1. i - n \in 1 .. m /\ (at + n) + (i - n) = at + i
                BY <1>1, <3>2
            <4> QED BY <1>1, <1>3, <3>2, <4>1 DEF Stands, m
        <3> QED BY <3>1, <3>2
    <2>2. (at + n) + m <= Len(word)
        BY <1>3 DEF Stands, m
    <2> QED BY <1>1, <2>1, <2>2 DEF Stands
<1> QED BY <1>2, <1>3 DEF n, s

\* A part that stands in a word and is as long is the word.
LEMMA StandsWhole ==
    ASSUME NEW word \in Seq(Nat), NEW part \in Seq(Nat)
    PROVE  part = word <=> Stands(word, 0, part) /\ Len(part) = Len(word)
<1>1. ASSUME Stands(word, 0, part), Len(part) = Len(word) PROVE part = word
    <2>1. \A i \in 1 .. Len(part) : part[i] = word[i]
        <3>1. \A i \in 1 .. Len(part) : 0 + i = i
            OBVIOUS
        <3> QED BY <1>1, <3>1 DEF Stands
    <2> QED BY <1>1, <2>1, SeqEqual
<1>2. ASSUME part = word PROVE Stands(word, 0, part)
    <2>1. \A i \in 1 .. Len(part) : 0 + i = i
        OBVIOUS
    <2>2. 0 + Len(part) <= Len(word)
        BY <1>2
    <2> QED BY <1>2, <2>1, <2>2 DEF Stands
<1> QED BY <1>1, <1>2

\* Any stretch of a word stands where it is.
LEMMA StandsCut ==
    ASSUME NEW word \in Seq(Nat), NEW at \in Nat, NEW n \in Nat, at + n <= Len(word)
    PROVE  /\ SubSeq(word, at + 1, at + n) \in Seq(Nat)
           /\ Len(SubSeq(word, at + 1, at + n)) = n
           /\ Stands(word, at, SubSeq(word, at + 1, at + n))
<1> DEFINE m == at + 1
           k == at + n
           s == SubSeq(word, m, k)
<1>1. m \in Int /\ k \in Int /\ k - m + 1 = n /\ (m <= k <=> n > 0) /\ k <= Len(word) /\ Len(word) \in Nat
    OBVIOUS
<1>2. \A i \in m .. k : word[i] \in Nat
    OBVIOUS
<1>3. \A i \in 1 .. n : m + i - 1 = at + i
    OBVIOUS
<1> HIDE DEF m, k
<1>4. /\ s \in Seq(Nat)
      /\ Len(s) = IF m <= k THEN k - m + 1 ELSE 0
      /\ \A i \in 1 .. k - m + 1 : s[i] = word[m + i - 1]
    BY <1>1, <1>2, SubSeqProperties
<1> HIDE DEF s
<1>5. Len(s) = n /\ \A i \in 1 .. n : s[i] = word[at + i]
    <2>1. Len(s) = n
        BY <1>1, <1>4
    <2>2. ASSUME NEW i \in 1 .. n PROVE s[i] = word[at + i]
        <3>1. i \in 1 .. k - m + 1
            BY <1>1
        <3>2. s[i] = word[m + i - 1]
            BY <1>4, <3>1
        <3> QED BY <1>3, <3>2
    <2> QED BY <2>1, <2>2
<1>6. Stands(word, at, s)
    BY <1>5 DEF Stands
<1> QED BY <1>4, <1>5, <1>6 DEF s, m, k

\* No two words of one length stand in one place.
LEMMA StandsOnce ==
    ASSUME NEW word, NEW at, NEW a \in Seq(Nat), NEW b \in Seq(Nat), Len(a) = Len(b),
           Stands(word, at, a), Stands(word, at, b)
    PROVE  a = b
<1>1. \A i \in 1 .. Len(a) : a[i] = b[i]
    BY DEF Stands
<1> QED BY <1>1, SeqEqual

\* Nor do two varints: the groups that continue tell where one ends.
LEMMA VarintsStandOnce ==
    ASSUME NEW word, NEW at \in Nat, NEW a, NEW b, IsVarint(a), IsVarint(b),
           Stands(word, at, a), Stands(word, at, b)
    PROVE  a = b
<1>1. ASSUME NEW c, NEW d, IsVarint(c), IsVarint(d), Stands(word, at, c), Stands(word, at, d)
      PROVE  ~(Len(c) < Len(d))
    <2> SUFFICES ASSUME Len(c) < Len(d) PROVE FALSE
        OBVIOUS
    <2>1. Len(c) \in Nat /\ Len(d) \in Nat /\ Len(c) > 0
        BY <1>1 DEF IsVarint
    <2>2. Len(c) \in 1 .. Len(c) /\ Len(c) \in 1 .. Len(d) /\ Len(c) \in 1 .. Len(d) - 1
        BY <2>1
    <2>3. c[Len(c)] = d[Len(c)]
        BY <1>1, <2>2 DEF Stands
    <2>4. d[Len(c)] \in Continued
        BY <1>1, <2>2 DEF IsVarint
    <2>5. c[Len(c)] < Base
        BY <1>1 DEF IsVarint
    <2>6. d[Len(c)] \in Base .. 2 * Base - 1
        BY <2>4 DEF Continued
    <2> QED BY <2>3, <2>5, <2>6, WireAssumption
<1>2. ~(Len(a) < Len(b)) /\ ~(Len(b) < Len(a))
    BY <1>1
<1>3. a \in Seq(Nat) /\ b \in Seq(Nat) /\ Len(a) \in Nat /\ Len(b) \in Nat
    BY DEF IsVarint
<1>4. Len(a) = Len(b)
    <2> DEFINE n == Len(a)
               m == Len(b)
    <2>1. n \in Nat /\ m \in Nat /\ ~(n < m) /\ ~(m < n)
        BY <1>2, <1>3
    <2> HIDE DEF n, m
    <2>2. n = m
        BY <2>1
    <2> QED BY <2>2 DEF n, m
<1> QED BY <1>3, <1>4, StandsOnce

\* The groups a reader takes for a varint are one, and no others are.
LEMMA VarintAtIs ==
    ASSUME NEW word \in Seq(Nat), NEW at \in Nat, NEW n \in 1 .. Groups, VarintAt(word, at, n)
    PROVE  /\ at + n <= Len(word)
           /\ IsVarint(SubSeq(word, at + 1, at + n))
<1> DEFINE s == SubSeq(word, at + 1, at + n)
<1>1. Base \in Nat /\ Base > 1 /\ Groups \in Nat /\ Groups > 1 /\ n \in Nat /\ n > 0
    BY WireAssumption
<1>2. at + n <= Len(word)
    BY DEF VarintAt
<1>3. s \in Seq(Nat) /\ Len(s) = n /\ Stands(word, at, s)
    BY <1>1, <1>2, StandsCut
<1> HIDE DEF s
<1>4. \A i \in 1 .. n : s[i] = word[at + i]
    BY <1>3 DEF Stands
<1>5. \A i \in 1 .. n - 1 : s[i] \in Continued
    BY <1>1, <1>4 DEF VarintAt
<1>6. s[n] = word[at + n]
    BY <1>1, <1>4
<1>7. s[n] < Base /\ (s[n] > 0 \/ n = 1)
    <2>1. CASE n = Groups
        <3>1. word[at + n] = 1
            BY <2>1 DEF VarintAt
        <3> QED BY <1>1, <1>6, <3>1
    <2>2. CASE n # Groups
        <3>1. word[at + n] < Base /\ (word[at + n] > 0 \/ n = 1)
            BY <2>2 DEF VarintAt
        <3> QED BY <1>6, <3>1
    <2> QED BY <2>1, <2>2
<1>8. IsVarint(s)
    BY <1>1, <1>3, <1>5, <1>7 DEF IsVarint
<1> QED BY <1>2, <1>8 DEF s

\* A varint that is short enough is taken wherever it stands.
LEMMA VarintTaken ==
    ASSUME NEW word \in Seq(Nat), NEW at \in Nat, NEW w \in Seq(Nat), Len(w) > 0,
           VarintAt(w, 0, Len(w)), Stands(word, at, w)
    PROVE  VarintAt(word, at, Len(w))
<1> DEFINE n == Len(w)
<1>1. n \in Nat /\ n > 0
    OBVIOUS
<1>2. at + n <= Len(word) /\ \A i \in 1 .. n : word[at + i] = w[i]
    BY DEF Stands
<1>3. \A i \in 1 .. n : 0 + i = i
    OBVIOUS
<1> HIDE DEF n
<1>4. VarintAt(w, 0, n)
    BY DEF n
<1>5. word[at + n] = w[n] /\ 0 + n = n
    BY <1>1, <1>2
<1>6. ASSUME NEW i \in 1 .. n - 1 PROVE word[at + i] \in Continued
    <2>1. i \in 1 .. n /\ 0 + i = i
        BY <1>1
    <2>2. w[i] \in Continued
        BY <1>4, <2>1 DEF VarintAt
    <2> QED BY <1>2, <2>1, <2>2
<1>7. IF n = Groups THEN word[at + n] = 1 ELSE word[at + n] < Base /\ (word[at + n] > 0 \/ n = 1)
    BY <1>4, <1>5 DEF VarintAt
<1>8. VarintAt(word, at, n)
    BY <1>2, <1>6, <1>7 DEF VarintAt
<1> QED BY <1>8 DEF n

----------------------------------------------------------------------------
(* The reader: what it holds, one operation at a time.                     *)

\* What a reader holds: fields, and lists of fields.
Vals == Nat \cup Seq(Nat)

\* A reader of the word; one that refused is any record.
Runs(r, word) ==
    /\ r = [buf |-> r.buf, pos |-> r.pos, ok |-> r.ok, vals |-> r.vals]
    /\ r.ok \in BOOLEAN
    /\ r.ok => r.buf = word /\ r.pos \in Nat /\ r.pos <= Len(word) /\ r.vals \in Seq(Vals)

\* A later reader has read one part more, which gave one value more.
ReadsPart(r, s, word, part, value) ==
    /\ r.ok /\ Stands(word, r.pos, part) /\ s.pos = r.pos + Len(part)
    /\ s.vals = Append(r.vals, value)

\* What the primitives make of a record.
LEMMA Refused ==
    ASSUME NEW r, r = [buf |-> r.buf, pos |-> r.pos, ok |-> r.ok, vals |-> r.vals]
    PROVE  Refuse(r) = [buf |-> r.buf, pos |-> r.pos, ok |-> FALSE, vals |-> r.vals]
<1> DEFINE f == FALSE
<1>1. Refuse(r) = [r EXCEPT !.ok = f]
    BY DEF Refuse
<1> HIDE DEF f
<1>2. PICK b, p, o, v : r = [buf |-> b, pos |-> p, ok |-> o, vals |-> v]
    OBVIOUS
<1>4. r.buf = b /\ r.pos = p /\ r.vals = v
    BY <1>2
<1>3. [r EXCEPT !.ok = f] = [buf |-> b, pos |-> p, ok |-> f, vals |-> v]
    BY <1>2
<1> QED BY <1>1, <1>3, <1>4 DEF f

\* The same for a value put down and for fields passed over.
LEMMA PutTaken ==
    ASSUME NEW r, r = [buf |-> r.buf, pos |-> r.pos, ok |-> r.ok, vals |-> r.vals],
           NEW value, NEW n
    PROVE  /\ Put(r, value) =
                [buf |-> r.buf, pos |-> r.pos, ok |-> r.ok, vals |-> Append(r.vals, value)]
           /\ Take(r, n) = [buf |-> r.buf, pos |-> r.pos + n, ok |-> r.ok, vals |-> r.vals]
<1>2. PICK b, p, o, v : r = [buf |-> b, pos |-> p, ok |-> o, vals |-> v]
  OBVIOUS
<1>4. r.buf = b /\ r.pos = p /\ r.vals = v /\ r.ok = o
    BY <1>2
<1> DEFINE w == Append(r.vals, value)
           k == r.pos + n
<1>5. Put(r, value) = [r EXCEPT !.vals = w] /\ Take(r, n) = [r EXCEPT !.pos = k]
    BY DEF Put, Take
<1> HIDE DEF w, k
<1>6. [r EXCEPT !.vals = w] = [buf |-> b, pos |-> p, ok |-> o, vals |-> w]
    BY <1>2
<1>7. [r EXCEPT !.pos = k] = [buf |-> b, pos |-> k, ok |-> o, vals |-> v]
    BY <1>2
<1> QED BY <1>4, <1>5, <1>6, <1>7 DEF w, k

\* A reader begins with nothing read.
LEMMA OpenRuns ==
    ASSUME NEW word \in Seq(Nat)
    PROVE  Runs(Open(word), word) /\ Open(word).ok /\ Open(word).pos = 0 /\ Open(word).vals = <<>>
BY DEF Open, Runs

\* A requirement changes nothing when it holds, and ends the reading when not.
LEMMA RequireRuns ==
    ASSUME NEW word, NEW r, Runs(r, word), NEW holds \in BOOLEAN
    PROVE  /\ Runs(Require(r, holds), word)
           /\ Require(r, holds).ok <=> r.ok /\ holds
           /\ Require(r, holds).ok => Require(r, holds) = r
<1>1. r = [buf |-> r.buf, pos |-> r.pos, ok |-> r.ok, vals |-> r.vals]
    BY DEF Runs
<1>2. Refuse(r) = [buf |-> r.buf, pos |-> r.pos, ok |-> FALSE, vals |-> r.vals]
    BY <1>1, Refused
<1>3. Runs(Refuse(r), word) /\ ~Refuse(r).ok
    BY <1>2 DEF Runs
<1> QED BY <1>3 DEF Require, Runs

\* The three shapes the primitives give a reader.
LEMMA Shapes ==
    ASSUME NEW word \in Seq(Nat), NEW r, Runs(r, word), NEW value
    PROVE  /\ Runs(Put(Refuse(r), value), word) /\ ~Put(Refuse(r), value).ok
           /\ \A n \in Nat :
                r.ok /\ r.pos + n <= Len(word) /\ value \in Vals =>
                  /\ Runs(Put(Take(r, n), value), word) /\ Put(Take(r, n), value).ok
                  /\ Put(Take(r, n), value).pos = r.pos + n
                  /\ Put(Take(r, n), value).vals = Append(r.vals, value)
           /\ \A n \in Nat : Fits(r, n) <=> r.ok /\ r.pos + n <= Len(word)
<1>1. r = [buf |-> r.buf, pos |-> r.pos, ok |-> r.ok, vals |-> r.vals]
    BY DEF Runs
<1>2. Put(Refuse(r), value) = [buf |-> r.buf, pos |-> r.pos, ok |-> FALSE,
                               vals |-> Append(r.vals, value)]
    <2> DEFINE s == Refuse(r)
    <2>1. s = [buf |-> r.buf, pos |-> r.pos, ok |-> FALSE, vals |-> r.vals]
        BY <1>1, Refused
    <2> HIDE DEF s
    <2>2. s.buf = r.buf /\ s.pos = r.pos /\ s.ok = FALSE /\ s.vals = r.vals
        BY <2>1
    <2>3. s = [buf |-> s.buf, pos |-> s.pos, ok |-> s.ok, vals |-> s.vals]
        BY <2>1, <2>2
    <2>4. Put(s, value) = [buf |-> s.buf, pos |-> s.pos, ok |-> s.ok, vals |-> Append(s.vals, value)]
        BY <2>3, PutTaken
    <2> QED BY <2>2, <2>4 DEF s
<1>3. ASSUME NEW n \in Nat
      PROVE  Put(Take(r, n), value) =
                [buf |-> r.buf, pos |-> r.pos + n, ok |-> r.ok, vals |-> Append(r.vals, value)]
    <2> DEFINE s == Take(r, n)
    <2>1. s = [buf |-> r.buf, pos |-> r.pos + n, ok |-> r.ok, vals |-> r.vals]
        BY <1>1, PutTaken
    <2> HIDE DEF s
    <2>2. s.buf = r.buf /\ s.pos = r.pos + n /\ s.ok = r.ok /\ s.vals = r.vals
        BY <2>1
    <2>3. s = [buf |-> s.buf, pos |-> s.pos, ok |-> s.ok, vals |-> s.vals]
        BY <2>1, <2>2
    <2>4. Put(s, value) = [buf |-> s.buf, pos |-> s.pos, ok |-> s.ok, vals |-> Append(s.vals, value)]
        BY <2>3, PutTaken
    <2> QED BY <2>2, <2>4 DEF s
<1>4. Runs(Put(Refuse(r), value), word) /\ ~Put(Refuse(r), value).ok
    BY <1>2 DEF Runs
<1>5. ASSUME NEW n \in Nat, r.ok, r.pos + n <= Len(word), value \in Vals
      PROVE  /\ Runs(Put(Take(r, n), value), word) /\ Put(Take(r, n), value).ok
             /\ Put(Take(r, n), value).pos = r.pos + n
             /\ Put(Take(r, n), value).vals = Append(r.vals, value)
    <2> DEFINE s == Put(Take(r, n), value)
    <2>1. r.buf = word /\ r.pos \in Nat /\ r.vals \in Seq(Vals)
        BY <1>5 DEF Runs
    <2>2. s = [buf |-> r.buf, pos |-> r.pos + n, ok |-> r.ok, vals |-> Append(r.vals, value)]
        BY <1>3
    <2> HIDE DEF s
    <2>3. Append(r.vals, value) \in Seq(Vals)
        BY <1>5, <2>1, AppendProperties
    <2>4. s.pos = r.pos + n /\ s.ok /\ s.vals = Append(r.vals, value) /\ s.buf = word
        BY <1>5, <2>1, <2>2
    <2>5. Runs(s, word)
        BY <1>5, <2>1, <2>2, <2>3, <2>4 DEF Runs
    <2> QED BY <2>4, <2>5 DEF s
<1>6. ASSUME NEW n \in Nat PROVE Fits(r, n) <=> r.ok /\ r.pos + n <= Len(word)
    BY DEF Fits, Remaining, Runs
<1> QED BY <1>4, <1>5, <1>6

\* A field is read where there is one.
LEMMA FieldReads ==
    ASSUME NEW word \in Seq(Nat), NEW r, Runs(r, word)
    PROVE  /\ Runs(ReadField(r), word)
           /\ ReadField(r).ok <=> r.ok /\ r.pos < Len(word)
           /\ ReadField(r).ok =>
                /\ word[r.pos + 1] \in Nat /\ r.pos + 1 \in 1 .. Len(word)
                /\ ReadField(r).pos = r.pos + 1
                /\ ReadField(r).vals = Append(r.vals, word[r.pos + 1])
<1>1. CASE Fits(r, 1)
    <2>1. r.ok /\ r.pos + 1 <= Len(word) /\ r.pos \in Nat /\ r.buf = word
        BY <1>1, Shapes DEF Runs
    <2>2. r.pos + 1 \in 1 .. Len(word) /\ r.pos < Len(word)
        BY <2>1
    <2>3. word[r.pos + 1] \in Nat /\ word[r.pos + 1] \in Vals
        BY <2>2 DEF Vals
    <2>4. ReadField(r) = Put(Take(r, 1), word[r.pos + 1])
        BY <1>1, <2>1 DEF ReadField
    <2> QED BY <2>1, <2>2, <2>3, <2>4, Shapes
<1>2. CASE ~Fits(r, 1)
    <2>1. ReadField(r) = Put(Refuse(r), 0)
        BY <1>2 DEF ReadField
    <2>2. ~(r.ok /\ r.pos < Len(word))
        <3>1. ~(r.ok /\ r.pos + 1 <= Len(word))
            BY <1>2, Shapes
        <3>2. r.ok => r.pos \in Nat
            BY DEF Runs
        <3> QED BY <3>1, <3>2
    <2> QED BY <2>1, <2>2, Shapes
<1> QED BY <1>1, <1>2

\* Reading a field with a rule on its value.
LEMMA FieldReadsIn ==
    ASSUME NEW word \in Seq(Nat), NEW r, Runs(r, word), NEW S
    PROVE  /\ Runs(ReadFieldIn(r, S), word)
           /\ ReadFieldIn(r, S).ok <=> r.ok /\ r.pos < Len(word) /\ word[r.pos + 1] \in S
           /\ ReadFieldIn(r, S).ok =>
                /\ word[r.pos + 1] \in Nat /\ r.pos + 1 \in 1 .. Len(word)
                /\ ReadFieldIn(r, S).pos = r.pos + 1
                /\ ReadFieldIn(r, S).vals = Append(r.vals, word[r.pos + 1])
<1>1. Fits(r, 1) <=> r.ok /\ r.pos < Len(word)
    <2>1. Fits(r, 1) <=> r.ok /\ r.pos + 1 <= Len(word)
        BY Shapes
    <2>2. r.ok => r.pos \in Nat
        BY DEF Runs
    <2> QED BY <2>1, <2>2
<1>2. r.ok => r.buf = word
    BY DEF Runs
<1>3. CASE Fits(r, 1) /\ r.buf[r.pos + 1] \in S
    <2>1. ReadFieldIn(r, S) = ReadField(r)
        BY <1>3 DEF ReadFieldIn
    <2> QED BY <1>1, <1>2, <1>3, <2>1, FieldReads
<1>4. CASE ~(Fits(r, 1) /\ r.buf[r.pos + 1] \in S)
    <2>1. ReadFieldIn(r, S) = Put(Refuse(r), 0)
        BY <1>4 DEF ReadFieldIn
    <2> QED BY <1>1, <1>2, <1>4, <2>1, Shapes
<1> QED BY <1>3, <1>4

\* A reader takes the groups of the value.
Fitting(value) ==
    /\ Len(WriteVarint[value]) <= Groups
    /\ VarintAt(WriteVarint[value], 0, Len(WriteVarint[value]))

\* A varint that is read is the one the writer makes of the value.
LEMMA VarintReads ==
    ASSUME NEW word \in Seq(Nat), NEW r, Runs(r, word)
    PROVE  /\ Runs(ReadVarint(r), word)
           /\ ReadVarint(r).ok =>
                \E value \in Nat : ReadsPart(r, ReadVarint(r), word, WriteVarint[value], value)
           /\ r.ok => \A value \in Nat :
                Fitting(value) /\ Stands(word, r.pos, WriteVarint[value]) => ReadVarint(r).ok
<1> DEFINE lengths == {n \in 1 .. Groups : VarintAt(r.buf, r.pos, n)}
           n == CHOOSE n \in lengths : TRUE
           w == SubSeq(r.buf, r.pos + 1, r.pos + n)
<1>1. CASE r.ok /\ lengths # {}
    <2>1. n \in lengths /\ r.buf = word /\ r.pos \in Nat
        BY <1>1 DEF Runs
    <2>2. n \in 1 .. Groups /\ VarintAt(word, r.pos, n) /\ n \in Nat
        BY <2>1, WireAssumption
    <2>3. ReadVarint(r) = Put(Take(r, n), ValueOf[w])
        BY <1>1, Zenon DEF ReadVarint
    <2>4. w = SubSeq(word, r.pos + 1, r.pos + n)
        BY <2>1
    <2> HIDE DEF lengths, n, w
    <2>5. r.pos + n <= Len(word) /\ IsVarint(w)
        BY <2>1, <2>2, <2>4, VarintAtIs
    <2>6. w \in Seq(Nat) /\ Len(w) = n /\ Stands(word, r.pos, w)
        BY <2>1, <2>2, <2>4, <2>5, StandsCut
    <2> DEFINE value == ValueOf[w]
    <2>7. value \in Nat /\ WriteVarint[value] = w
        BY <2>5, VarintRead
    <2> HIDE DEF value
    <2>8. value \in Vals
        BY <2>7 DEF Vals
    <2>9. ReadVarint(r) = Put(Take(r, n), value)
        BY <2>3 DEF value
    <2>10. /\ Runs(ReadVarint(r), word) /\ ReadVarint(r).ok
           /\ ReadVarint(r).pos = r.pos + n
           /\ ReadVarint(r).vals = Append(r.vals, value)
        BY <1>1, <2>2, <2>5, <2>8, <2>9, Shapes
    <2>11. ReadsPart(r, ReadVarint(r), word, WriteVarint[value], value)
        BY <1>1, <2>6, <2>7, <2>10 DEF ReadsPart
    <2> QED BY <2>7, <2>10, <2>11
<1>2. CASE ~(r.ok /\ lengths # {})
    <2>1. ReadVarint(r) = Put(Refuse(r), 0)
        BY <1>2, Zenon DEF ReadVarint
    <2>2. ASSUME r.ok, NEW value \in Nat, Fitting(value), Stands(word, r.pos, WriteVarint[value])
          PROVE  FALSE
        <3> DEFINE u == WriteVarint[value]
        <3>1. u \in Seq(Nat) /\ Len(u) > 0 /\ Len(u) \in Nat
            BY VarintWritten DEF IsVarint
        <3>2. r.pos \in Nat /\ r.buf = word
            BY <2>2 DEF Runs
        <3> HIDE DEF u
        <3>3. VarintAt(word, r.pos, Len(u))
            BY <2>2, <3>1, <3>2, VarintTaken DEF u, Fitting
        <3>4. Len(u) \in 1 .. Groups
            BY <2>2, <3>1, WireAssumption DEF u, Fitting
        <3>5. Len(u) \in lengths
            BY <3>2, <3>3, <3>4
        <3> QED BY <1>2, <2>2, <3>5
    <2>3. Runs(ReadVarint(r), word) /\ ~ReadVarint(r).ok
        BY <2>1, Shapes
    <2> QED BY <2>2, <2>3
<1> QED BY <1>1, <1>2

\* What is left of a sequence without its last.
LEMMA FrontOfAppend ==
    ASSUME NEW S, NEW s \in Seq(S), NEW e \in S
    PROVE  Front(Append(s, e)) = s /\ Last(Append(s, e)) = e
<1> DEFINE t == Append(s, e)
           n == Len(s)
<1>1. t \in Seq(S) /\ Len(t) = n + 1 /\ t[n + 1] = e /\ n \in Nat /\ \A i \in 1 .. n : t[i] = s[i]
    BY AppendProperties
<1> HIDE DEF t, n
<1>2. Front(t) = SubSeq(t, 1, n)
    <2>1. Len(t) - 1 = n
        BY <1>1
    <2> QED BY <2>1 DEF Front
<1>3. /\ SubSeq(t, 1, n) \in Seq(S) /\ Len(SubSeq(t, 1, n)) = n
      /\ \A i \in 1 .. n : SubSeq(t, 1, n)[i] = t[i]
    <2> DEFINE u == SubSeq(t, 1, n)
               m == 1
    <2>1. m \in Int /\ n \in Int /\ \A i \in m .. n : t[i] \in S
        BY <1>1
    <2>2. n - m + 1 = n /\ (m <= n \/ n = 0) /\ \A i \in 1 .. n : m + i - 1 = i
        BY <1>1
    <2> HIDE DEF m
    <2>3. /\ SubSeq(t, m, n) \in Seq(S)
          /\ Len(SubSeq(t, m, n)) = IF m <= n THEN n - m + 1 ELSE 0
          /\ \A i \in 1 .. n - m + 1 : SubSeq(t, m, n)[i] = t[m + i - 1]
        BY <2>1, SubSeqProperties
    <2>4. SubSeq(t, m, n) = u
        BY DEF m
    <2> HIDE DEF u
    <2>5. u \in Seq(S) /\ Len(u) = n
        BY <2>2, <2>3, <2>4
    <2>6. ASSUME NEW i \in 1 .. n PROVE u[i] = t[i]
        BY <2>2, <2>3, <2>4
    <2> QED BY <2>5, <2>6 DEF u
<1>4. SubSeq(t, 1, n) = s
    <2> DEFINE u == SubSeq(t, 1, n)
    <2>1. u \in Seq(S) /\ Len(u) = Len(s) /\ \A i \in 1 .. Len(u) : u[i] = s[i]
        BY <1>1, <1>3 DEF n
    <2> HIDE DEF u
    <2>2. u = s
        BY <2>1, SeqEqual
    <2> QED BY <2>2 DEF u
<1>5. Last(t) = e
    BY <1>1 DEF Last
<1> QED BY <1>2, <1>4, <1>5 DEF t

\* s goes on from r, which read the count, with that many items.
TakesItems(r, s, word, vals, count, most, width) ==
    /\ Runs(s, word)
    /\ s.ok <=> r.ok /\ count <= most /\ r.pos + count * width <= Len(word)
    /\ s.ok => /\ s.pos = r.pos + count * width
               /\ s.vals = Append(vals, SubSeq(word, r.pos + 1, r.pos + count * width))

\* A count that was read, replaced by the items it announces.
LEMMA ItemsRead ==
    ASSUME NEW word \in Seq(Nat), NEW r, Runs(r, word), NEW vals \in Seq(Vals), NEW count \in Nat,
           r.ok => r.vals = Append(vals, count),
           NEW most, r.ok => most \in Nat, NEW width \in Nat
    PROVE  TakesItems(r, ReadItems(r, most, width), word, vals, count, most, width)
<1> DEFINE s == ReadItems(r, most, width)
           n == Last(r.vals) * width
           part == SubSeq(r.buf, r.pos + 1, r.pos + n)
<1>1. r = [buf |-> r.buf, pos |-> r.pos, ok |-> r.ok, vals |-> r.vals] /\ r.ok \in BOOLEAN
    BY DEF Runs
<1>2. s = IF Last(r.vals) <= most /\ Fits(r, n)
          THEN [Take(r, n) EXCEPT !.vals = Append(Front(@), part)]
          ELSE [Refuse(r) EXCEPT !.vals = Append(Front(@), <<>>)]
    BY DEF ReadItems
<1>3. ASSUME NEW x, NEW y PROVE x.vals = y => [x EXCEPT !.vals = Append(Front(@), part)] =
                                            [x EXCEPT !.vals = Append(Front(y), part)]
    OBVIOUS
<1>4. ASSUME r.ok
      PROVE  /\ Last(r.vals) = count /\ Front(r.vals) = vals /\ r.buf = word
             /\ r.pos \in Nat /\ r.pos <= Len(word) /\ n = count * width /\ n \in Nat
             /\ Fits(r, n) <=> r.pos + n <= Len(word)
    <2>1. r.vals = Append(vals, count) /\ count \in Vals /\ r.buf = word /\ r.pos \in Nat /\ r.pos <= Len(word)
        BY <1>4 DEF Runs, Vals
    <2>2. Last(r.vals) = count /\ Front(r.vals) = vals
        BY <2>1, FrontOfAppend
    <2>3. n = count * width
        BY <2>2
    <2>4. n \in Nat
        BY <2>3
    <2> HIDE DEF n
    <2>5. Fits(r, n) <=> r.pos + n <= Len(word)
        BY <1>4, <2>4, Shapes
    <2> QED BY <2>1, <2>2, <2>3, <2>4, <2>5
<1>5. CASE Last(r.vals) <= most /\ Fits(r, n)
    <2>1. r.ok
        BY <1>5 DEF Fits
    <2>2. /\ Last(r.vals) = count /\ Front(r.vals) = vals /\ r.buf = word /\ r.pos \in Nat
          /\ n = count * width /\ n \in Nat /\ r.pos + n <= Len(word)
        BY <1>4, <1>5, <2>1
    <2> DEFINE t == Take(r, n)
               w == Append(vals, part)
    <2>3. t = [buf |-> r.buf, pos |-> r.pos + n, ok |-> r.ok, vals |-> r.vals]
        BY <1>1, PutTaken
    <2>4. s = [t EXCEPT !.vals = w]
        <3>1. s = [t EXCEPT !.vals = Append(Front(@), part)]
            BY <1>2, <1>5
        <3>2. t.vals = r.vals
            BY <2>3
        <3> HIDE DEF t
        <3> QED BY <2>2, <3>1, <3>2
    <2> HIDE DEF t, s, n
    <2>5. s = [buf |-> r.buf, pos |-> r.pos + n, ok |-> r.ok, vals |-> w]
        <3> HIDE DEF w
        <3> QED BY <2>3, <2>4
    <2>6. part \in Seq(Nat)
        BY <2>2, StandsCut
    <2>7. w \in Seq(Vals)
        <3> HIDE DEF part
        <3>1. part \in Vals
            BY <2>6 DEF Vals
        <3> QED BY <3>1, AppendProperties
    <2>8. s.buf = word /\ s.pos = r.pos + n /\ s.ok = r.ok /\ s.vals = w
        <3> HIDE DEF w
        <3> QED BY <2>2, <2>5
    <2>9. s = [buf |-> s.buf, pos |-> s.pos, ok |-> s.ok, vals |-> s.vals]
        <3> HIDE DEF w
        <3> QED BY <2>2, <2>5, <2>8
    <2>10. Runs(s, word)
        <3> HIDE DEF w
        <3> QED BY <1>1, <2>2, <2>7, <2>8, <2>9 DEF Runs
    <2>11. part = SubSeq(word, r.pos + 1, r.pos + count * width)
        BY <2>2
    <2>12. count <= most
        BY <1>5, <2>2
    <2> QED BY <2>1, <2>2, <2>8, <2>10, <2>11, <2>12 DEF s, TakesItems
<1>6. CASE ~(Last(r.vals) <= most /\ Fits(r, n))
    <2> DEFINE t == Refuse(r)
               w == Append(Front(r.vals), <<>>)
    <2>1. t = [buf |-> r.buf, pos |-> r.pos, ok |-> FALSE, vals |-> r.vals]
        BY <1>1, Refused
    <2>2. s = [t EXCEPT !.vals = w]
        <3>1. s = [t EXCEPT !.vals = Append(Front(@), <<>>)]
            BY <1>2, <1>6
        <3>2. t.vals = r.vals
            BY <2>1
        <3> HIDE DEF t
        <3> QED BY <3>1, <3>2
    <2> HIDE DEF t, w, s
    <2>3. s = [buf |-> r.buf, pos |-> r.pos, ok |-> FALSE, vals |-> w]
        <3> DEFINE f == FALSE
        <3>1. t = [buf |-> r.buf, pos |-> r.pos, ok |-> f, vals |-> r.vals]
            BY <2>1
        <3> HIDE DEF f
        <3>2. s = [buf |-> r.buf, pos |-> r.pos, ok |-> f, vals |-> w]
            BY <2>2, <3>1
        <3> QED BY <3>2 DEF f
    <2>4. Runs(s, word) /\ ~s.ok
        BY <2>3 DEF Runs
    <2>5. ~(r.ok /\ count <= most /\ r.pos + count * width <= Len(word))
        BY <1>4, <1>6
    <2> QED BY <2>4, <2>5 DEF s, TakesItems
<1> QED BY <1>5, <1>6

\* A list is read as its writer writes it, count and fields.
LEMMA ListReads ==
    ASSUME NEW word \in Seq(Nat), NEW r, Runs(r, word), NEW most, r.ok => most \in Nat,
           NEW width \in Nat
    PROVE  /\ Runs(ReadList(r, most, width), word)
           /\ ReadList(r, most, width).ok =>
                \E fields \in Seq(Nat), count \in 0 .. most :
                  /\ Len(fields) = count * width
                  /\ ReadsPart(r, ReadList(r, most, width), word, WriteVarint[count] \o fields, fields)
           /\ r.ok => \A fields \in Seq(Nat), count \in 0 .. most :
                /\ Len(fields) = count * width /\ Fitting(count)
                /\ Stands(word, r.pos, WriteVarint[count] \o fields)
                => ReadList(r, most, width).ok
<1> DEFINE v == ReadVarint(r)
           s == ReadItems(v, most, width)
<1>1. ReadList(r, most, width) = s
    BY DEF ReadList
<1>2. /\ Runs(v, word)
      /\ v.ok => \E value \in Nat : ReadsPart(r, v, word, WriteVarint[value], value)
      /\ r.ok => \A value \in Nat : Fitting(value) /\ Stands(word, r.pos, WriteVarint[value]) => v.ok
    BY VarintReads
<1> HIDE DEF v
<1>3. CASE v.ok
    <2>1. PICK count \in Nat : ReadsPart(r, v, word, WriteVarint[count], count)
        BY <1>2, <1>3
    <2> DEFINE w == WriteVarint[count]
    <2>2. /\ r.ok /\ Stands(word, r.pos, w) /\ v.pos = r.pos + Len(w)
          /\ v.vals = Append(r.vals, count) /\ r.vals \in Seq(Vals) /\ r.pos \in Nat /\ most \in Nat
        BY <2>1 DEF ReadsPart, Runs
    <2>3. w \in Seq(Nat) /\ IsVarint(w) /\ Len(w) \in Nat
        BY VarintWritten DEF IsVarint
    <2> HIDE DEF w, s
    <2>4. /\ Runs(s, word)
          /\ s.ok <=> count <= most /\ v.pos + count * width <= Len(word)
          /\ s.ok => /\ s.pos = v.pos + count * width
                     /\ s.vals = Append(r.vals, SubSeq(word, v.pos + 1, v.pos + count * width))
        <3> DEFINE vals == r.vals
        <3>1. /\ Runs(v, word) /\ vals \in Seq(Vals) /\ (v.ok => v.vals = Append(vals, count))
              /\ (v.ok => most \in Nat) /\ v.ok /\ count \in Nat /\ width \in Nat /\ word \in Seq(Nat)
            BY <1>2, <1>3, <2>1, <2>2
        <3> HIDE DEF vals
        <3>2. TakesItems(v, s, word, vals, count, most, width)
            BY <3>1, ItemsRead DEF s
        <3> QED BY <3>1, <3>2 DEF vals, TakesItems
    <2>5. ASSUME s.ok
          PROVE  \E fields \in Seq(Nat), k \in 0 .. most :
                   /\ Len(fields) = k * width
                   /\ ReadsPart(r, s, word, WriteVarint[k] \o fields, fields)
        <3> DEFINE n == count * width
                   fields == SubSeq(word, v.pos + 1, v.pos + n)
        <3>1. n \in Nat /\ v.pos \in Nat /\ v.pos + n <= Len(word) /\ count \in 0 .. most
            BY <2>2, <2>3, <2>4, <2>5
        <3> HIDE DEF n
        <3>2. fields \in Seq(Nat) /\ Len(fields) = n /\ Stands(word, v.pos, fields)
            BY <3>1, StandsCut
        <3>3. s.pos = v.pos + n /\ s.vals = Append(r.vals, fields)
            BY <2>4, <2>5 DEF n
        <3> HIDE DEF fields
        <3>4. Stands(word, r.pos, w \o fields)
            BY <2>2, <2>3, <3>2, StandsJoined
        <3>5. Len(w \o fields) = Len(w) + n
            BY <2>3, <3>2, ConcatProperties
        <3>6. s.pos = r.pos + Len(w \o fields)
            BY <2>2, <2>3, <3>1, <3>3, <3>5
        <3>7. ReadsPart(r, s, word, w \o fields, fields)
            BY <2>2, <3>3, <3>4, <3>6 DEF ReadsPart
        <3> QED BY <3>1, <3>2, <3>7 DEF w, n
    <2>6. ASSUME NEW fields \in Seq(Nat), NEW k \in 0 .. most, Len(fields) = k * width,
                 Stands(word, r.pos, WriteVarint[k] \o fields)
          PROVE  s.ok
        <3> DEFINE u == WriteVarint[k]
        <3>1. k \in Nat /\ k <= most
            BY <2>2
        <3>2. u \in Seq(Nat) /\ IsVarint(u) /\ ValueOf[u] = k
            BY <3>1, VarintWritten DEF IsVarint
        <3> HIDE DEF u
        <3>3. Stands(word, r.pos, u \o fields)
            BY <2>6 DEF u
        <3>4. Stands(word, r.pos, u) /\ Stands(word, r.pos + Len(u), fields)
            BY <2>2, <3>2, <3>3, StandsJoined
        <3>5. u = w
            BY <2>2, <2>3, <3>2, <3>4, VarintsStandOnce
        <3>6. k = count
            BY <3>2, <3>5, VarintWritten DEF w
        <3>7. v.pos + count * width <= Len(word)
            BY <2>2, <2>6, <3>4, <3>5, <3>6 DEF Stands
        <3> QED BY <2>4, <3>1, <3>6, <3>7
    <2> QED BY <1>1, <2>4, <2>5, <2>6
<1>4. CASE ~v.ok
    <2>1. Runs(s, word) /\ ~s.ok
        <3>1. <<>> \in Seq(Vals) /\ 0 \in Nat
            OBVIOUS
        <3> HIDE DEF s
        <3>2. TakesItems(v, s, word, <<>>, 0, most, width)
            BY <1>2, <1>4, <3>1, ItemsRead DEF s
        <3> QED BY <1>4, <3>2 DEF TakesItems
    <2>2. ASSUME r.ok, NEW fields \in Seq(Nat), NEW k \in 0 .. most, Fitting(k),
                 Stands(word, r.pos, WriteVarint[k] \o fields)
          PROVE  FALSE
        <3> DEFINE u == WriteVarint[k]
        <3>1. k \in Nat /\ r.pos \in Nat
            BY <2>2 DEF Runs
        <3>2. u \in Seq(Nat)
            BY <3>1, VarintWritten DEF IsVarint
        <3> HIDE DEF u
        <3>3. Stands(word, r.pos, u \o fields)
            BY <2>2 DEF u
        <3>4. Stands(word, r.pos, u)
            BY <3>1, <3>2, <3>3, StandsJoined
        <3> QED BY <1>2, <1>4, <2>2, <3>1, <3>4 DEF u
    <2> HIDE DEF s
    <2> QED BY <1>1, <2>1, <2>2
<1> QED BY <1>3, <1>4

----------------------------------------------------------------------------
(* Lists of items of one width, to fields and back.                        *)

\* Items of one width.
Uniform(items, width) ==
    items \in Seq(Seq(Nat)) /\ \A i \in 1 .. Len(items) : Len(items[i]) = width

\* The fields of the items, one item after the other.
InARow(fields, items, width) ==
    /\ fields \in Seq(Nat) /\ Len(fields) = Len(items) * width
    /\ \A i \in 1 .. Len(items), j \in 1 .. width : fields[(i - 1) * width + j] = items[i][j]

\* Every place in a row of items is a place in one of them.
LEMMA Places ==
    ASSUME NEW count \in Nat, NEW width \in Nat, NEW k \in 1 .. count * width
    PROVE  \E i \in 1 .. count, j \in 1 .. width : k = (i - 1) * width + j
<1>1. width > 0
    BY SMT
<1> DEFINE q == (k - 1) \div width
           r == (k - 1) % width
<1>2. q \in Nat /\ r \in 0 .. width - 1 /\ k - 1 = width * q + r
    BY <1>1
<1> HIDE DEF q, r
<1>3. q < count
    <2> SUFFICES ASSUME q >= count PROVE FALSE
        BY <1>2
    <2>1. width * q >= width * count
        BY <1>1, <1>2
    <2>2. k - 1 >= count * width
        BY <1>2, <2>1
    <2> QED BY <2>2
<1>4. q + 1 \in 1 .. count /\ r + 1 \in 1 .. width /\ k = ((q + 1) - 1) * width + (r + 1)
    BY <1>1, <1>2, <1>3
<1> QED BY <1>4

\* Such a place is inside the fields, and inside those of its item.
LEMMA PlaceIn ==
    ASSUME NEW count \in Nat, NEW width \in Nat, NEW i \in 1 .. count, NEW j \in 1 .. width
    PROVE  /\ (i - 1) * width + j \in 1 .. count * width
           /\ (i - 1) * width + j \in 1 .. i * width
           /\ (i - 1) * width \in Nat
<1>1. (i - 1) * width + width = i * width /\ (i - 1) * width \in Nat
    BY SMT
<1>2. i * width <= count * width
    BY SMT
<1>3. i * width \in Nat /\ count * width \in Nat
    BY SMT
<1> QED BY <1>1, <1>2, <1>3

\* What flattening computes.
LEMMA FlatIs ==
    ASSUME NEW items, NEW width \in Nat, Uniform(items, width)
    PROVE  InARow(FlattenSeq(items), items, width)
<1> DEFINE n == Len(items)
           S == 1 .. n
           rank == [i \in S |-> i]
           roots == {1}
           next == [i \in S |-> i - 1]
           step == [i \in S |-> [w \in Seq(Nat) |-> w \o items[i]]]
           f == CHOOSE f : f = [i \in 1 .. Len(items) |->
                    IF i = 1 THEN items[i] ELSE f[i - 1] \o items[i]]
<1>1. n \in Nat /\ items \in Seq(Seq(Nat)) /\ \A i \in S : items[i] \in Seq(Nat) /\ Len(items[i]) = width
    BY DEF Uniform
<1>2. CASE n = 0
    <2>1. items = <<>> /\ FlattenSeq(items) = <<>>
        BY <1>1, <1>2, EmptySeq DEF FlattenSeq
    <2>2. n * width = 0
        BY <1>2
    <2>3. FlattenSeq(items) \in Seq(Nat) /\ Len(FlattenSeq(items)) = 0
        <3>1. <<>> \in Seq(Nat) /\ Len(<<>>) = 0
            OBVIOUS
        <3> HIDE DEF n, S, rank, roots, next, step, f
        <3> QED BY <2>1, <3>1
    <2>4. \A i \in 1 .. n : FALSE
        BY <1>2
    <2> QED BY <2>2, <2>3, <2>4 DEF InARow
<1>3. CASE n # 0
    <2>1. FlattenSeq(items) = f[n]
        BY <1>3 DEF FlattenSeq
    <2>2. \E g : g = [i \in S |-> IF i = 1 THEN items[i] ELSE g[i - 1] \o items[i]]
        <3>1. ASSUME NEW i \in S \ roots
              PROVE  next[i] \in S /\ rank[next[i]] < rank[i] /\ next[i] = i - 1
            BY <1>1
        <3>2. ASSUME NEW i \in S, NEW w \in Seq(Nat)
              PROVE  step[i][w] \in Seq(Nat) /\ step[i][w] = w \o items[i]
            BY <1>1, ConcatProperties
        <3> DEFINE V == Seq(Nat)
        <3>3. /\ \A x \in S : rank[x] \in Nat
              /\ \A x \in S : x \in roots => items[x] \in V
              /\ \A x \in S \ roots : next[x] \in S /\ rank[next[x]] < rank[x]
              /\ \A x \in S \ roots : \A v \in V : step[x][v] \in V
            BY <1>1, <3>1, <3>2
        <3> HIDE DEF S, rank, roots, next, step, V
        <3>4. PointerSolutions(S, V, roots, items, next, step) # {}
            BY <3>3, RecursionExists
        <3>5. PICK g \in [S -> V] :
                \A x \in S : g[x] = IF x \in roots THEN items[x] ELSE step[x][g[next[x]]]
            BY <3>4 DEF PointerSolutions
        <3>6. ASSUME NEW i \in S PROVE g[i] = IF i = 1 THEN items[i] ELSE g[i - 1] \o items[i]
            <4>1. CASE i = 1
                BY <3>5, <4>1 DEF roots
            <4>2. CASE i # 1
                <5>1. i \in S \ roots
                    BY <4>2 DEF roots
                <5>2. next[i] = i - 1 /\ g[next[i]] \in Seq(Nat)
                    BY <3>1, <3>5, <5>1 DEF V
                <5>3. step[i][g[next[i]]] = g[i - 1] \o items[i]
                    BY <3>2, <5>2
                <5> QED BY <3>5, <4>2, <5>1, <5>3
            <4> QED BY <4>1, <4>2
        <3>7. g = [i \in S |-> IF i = 1 THEN items[i] ELSE g[i - 1] \o items[i]]
            BY <3>6
        <3> QED BY <3>7
    <2>3. f = [i \in S |-> IF i = 1 THEN items[i] ELSE f[i - 1] \o items[i]]
        BY <2>2
    <2> HIDE DEF f
    <2>4. \A i \in S : f[i] = IF i = 1 THEN items[i] ELSE f[i - 1] \o items[i]
        BY <2>3
    <2> DEFINE Ok(i) == /\ f[i] \in Seq(Nat) /\ Len(f[i]) = i * width
                        /\ \A a \in 1 .. i, j \in 1 .. width : f[i][(a - 1) * width + j] = items[a][j]
               P == {i \in Nat : i \in S => Ok(i)}
    <2>5. 0 \in P
        OBVIOUS
    <2>6. ASSUME NEW i \in Nat, i \in P PROVE i + 1 \in P
        <3> HIDE DEF Ok
        <3> SUFFICES ASSUME i + 1 \in S PROVE Ok(i + 1)
            OBVIOUS
        <3> USE DEF Ok
        <3> DEFINE k == i + 1
        <3>1. k \in S /\ k - 1 = i /\ k \in Nat
            OBVIOUS
        <3> HIDE DEF k, S
        <3>2. items[k] \in Seq(Nat) /\ Len(items[k]) = width
            BY <1>1, <3>1
        <3>3. CASE i = 0
            <4>1. k = 1
                BY <3>3 DEF k
            <4>2. f[k] = items[k]
                BY <2>4, <3>1, <4>1
            <4>3. Len(f[k]) = k * width
                BY <3>2, <4>1, <4>2
            <4>4. ASSUME NEW a \in 1 .. k, NEW j \in 1 .. width
                  PROVE  f[k][(a - 1) * width + j] = items[a][j]
                <5>1. a = k /\ (a - 1) * width + j = j
                    BY <4>1
                <5> QED BY <4>2, <5>1
            <4> QED BY <3>2, <4>2, <4>3, <4>4 DEF k
        <3>4. CASE i # 0
            <4>1. i \in S /\ k # 1
                BY <1>1, <3>1, <3>4 DEF S
            <4>2. Ok(i)
                BY <2>6, <4>1
            <4> DEFINE u == f[i]
                       v == items[k]
            <4>3. f[k] = u \o v
                BY <2>4, <3>1, <4>1
            <4>4. /\ u \in Seq(Nat) /\ Len(u) = i * width /\ v \in Seq(Nat) /\ Len(v) = width
                  /\ \A a \in 1 .. i, j \in 1 .. width : u[(a - 1) * width + j] = items[a][j]
                BY <3>2, <4>2
            <4> HIDE DEF u, v, Ok
            <4>5. /\ u \o v \in Seq(Nat) /\ Len(u \o v) = Len(u) + Len(v)
                  /\ \A m \in 1 .. Len(u) + Len(v) : (u \o v)[m] = IF m <= Len(u) THEN u[m] ELSE v[m - Len(u)]
                BY <4>4, ConcatProperties
            <4>6. k * width = i * width + width /\ i * width \in Nat
                BY <3>1 DEF k
            <4>7. Len(f[k]) = k * width /\ f[k] \in Seq(Nat)
                BY <4>3, <4>4, <4>5, <4>6
            <4>8. ASSUME NEW a \in 1 .. k, NEW j \in 1 .. width
                  PROVE  f[k][(a - 1) * width + j] = items[a][j]
                <5>1. CASE a # k
                    <6>1. a \in 1 .. i
                        BY <5>1 DEF k
                    <6> DEFINE m == (a - 1) * width + j
                    <6>2. m \in 1 .. i * width
                        BY <6>1, PlaceIn
                    <6> HIDE DEF m
                    <6>3. m \in 1 .. Len(u) + Len(v) /\ m <= Len(u)
                        BY <4>4, <4>6, <6>2
                    <6>4. f[k][m] = u[m]
                        BY <4>3, <4>5, <6>3
                    <6> QED BY <4>4, <6>1, <6>4 DEF m
                <5>2. CASE a = k
                    <6> DEFINE m == (a - 1) * width + j
                    <6>1. m = i * width + j
                        BY <3>1, <5>2
                    <6> HIDE DEF m
                    <6>2. m \in 1 .. Len(u) + Len(v) /\ ~(m <= Len(u)) /\ m - Len(u) = j
                        BY <4>4, <4>6, <6>1
                    <6>3. f[k][m] = v[j]
                        BY <4>3, <4>5, <6>2
                    <6> QED BY <5>2, <6>3 DEF m, v
                <5> QED BY <5>1, <5>2
            <4> QED BY <4>7, <4>8 DEF k, Ok
        <3> QED BY <3>3, <3>4
    <2>7. n \in P
        <3> HIDE DEF P
        <3> QED BY <1>1, <2>5, <2>6, OverNat
    <2>8. Ok(n)
        <3>1. n \in S
            BY <1>1, <1>3
        <3> HIDE DEF Ok
        <3> QED BY <2>7, <3>1
    <2> QED BY <2>1, <2>8 DEF InARow
<1> QED BY <1>2, <1>3

\* The items of fields whose number is a multiple of the width.
LEMMA ItemsAre ==
    ASSUME NEW fields \in Seq(Nat), NEW count \in Nat, NEW width \in Nat, width > 0,
           Len(fields) = count * width
    PROVE  /\ Uniform(Items(fields, width), width) /\ Len(Items(fields, width)) = count
           /\ InARow(fields, Items(fields, width), width)
<1> DEFINE items == Items(fields, width)
<1>1. Len(fields) \div width = count
    <2>1. (width * count + 0) \div width = count
        BY SMT
    <2> QED BY <2>1
<1>2. items = [i \in 1 .. count |-> SubSeq(fields, (i - 1) * width + 1, i * width)]
    BY <1>1 DEF Items
<1>3. ASSUME NEW i \in 1 .. count
      PROVE  /\ items[i] \in Seq(Nat) /\ Len(items[i]) = width
             /\ \A j \in 1 .. width : fields[(i - 1) * width + j] = items[i][j]
    <2> DEFINE at == (i - 1) * width
    <2>1. at \in Nat /\ at + width = i * width /\ at + width <= Len(fields)
        <3>1. width \in 1 .. width
            OBVIOUS
        <3>2. at + width \in 1 .. count * width /\ at \in Nat
            BY <3>1, PlaceIn
        <3>3. at + width = i * width
            BY SMT
        <3> QED BY <3>2, <3>3
    <2>2. items[i] = SubSeq(fields, at + 1, at + width)
        BY <1>2, <2>1
    <2> HIDE DEF at, items
    <2>4. /\ SubSeq(fields, at + 1, at + width) \in Seq(Nat)
          /\ Len(SubSeq(fields, at + 1, at + width)) = width
          /\ Stands(fields, at, SubSeq(fields, at + 1, at + width))
        BY <2>1, StandsCut
    <2>3. /\ items[i] \in Seq(Nat) /\ Len(items[i]) = width /\ Stands(fields, at, items[i])
        BY <2>2, <2>4
    <2> QED BY <2>3 DEF Stands, at
<1> HIDE DEF items
<1>4. items \in Seq(Seq(Nat)) /\ Len(items) = count
    <2>1. items \in [1 .. count -> Seq(Nat)]
        BY <1>2, <1>3
    <2> QED BY <2>1
<1> QED BY <1>3, <1>4 DEF Uniform, InARow, items

\* One row for the items, and one list of items for the row.
LEMMA RowOnce ==
    ASSUME NEW width \in Nat, NEW items, NEW a, NEW b, InARow(a, items, width), InARow(b, items, width),
           items \in Seq(Seq(Nat))
    PROVE  a = b
<1>1. Len(items) \in Nat /\ a \in Seq(Nat) /\ b \in Seq(Nat) /\ Len(a) = Len(items) * width /\ Len(b) = Len(a)
    BY DEF InARow
<1>2. ASSUME NEW k \in 1 .. Len(a) PROVE a[k] = b[k]
    <2> DEFINE n == Len(items)
    <2>2. n \in Nat /\ k \in 1 .. n * width
        BY <1>1
    <2> HIDE DEF n
    <2>1. PICK i \in 1 .. n, j \in 1 .. width : k = (i - 1) * width + j
        BY <2>2, Places
    <2> QED BY <2>1 DEF InARow, n
<1> QED BY <1>1, <1>2, SeqEqual

\* Items of one width are known from their fields in a row.
LEMMA ItemsOnce ==
    ASSUME NEW width \in Nat, NEW fields, NEW a, NEW b, Uniform(a, width), Uniform(b, width),
           InARow(fields, a, width), InARow(fields, b, width), Len(a) = Len(b)
    PROVE  a = b
<1>1. a \in Seq(Seq(Nat)) /\ b \in Seq(Seq(Nat))
    BY DEF Uniform
<1>2. ASSUME NEW i \in 1 .. Len(a) PROVE a[i] = b[i]
    <2>1. a[i] \in Seq(Nat) /\ b[i] \in Seq(Nat) /\ Len(a[i]) = width /\ Len(b[i]) = width
        BY <1>1 DEF Uniform
    <2>2. \A j \in 1 .. width : a[i][j] = b[i][j]
        BY DEF InARow
    <2> QED BY <2>1, <2>2, SeqEqual
<1> QED BY <1>1, <1>2, SeqEqual

\* Items flattened are read back as the items, and the other way.
LEMMA FlatItems ==
    ASSUME NEW items, NEW width \in Nat, width > 0, Uniform(items, width)
    PROVE  /\ FlattenSeq(items) \in Seq(Nat) /\ Len(FlattenSeq(items)) = Len(items) * width
           /\ Items(FlattenSeq(items), width) = items
<1> DEFINE f == FlattenSeq(items)
           n == Len(items)
<1>1. InARow(f, items, width) /\ n \in Nat
    BY FlatIs DEF Uniform
<1> HIDE DEF f
<1>2. f \in Seq(Nat) /\ Len(f) = n * width
    BY <1>1 DEF InARow
<1>3. Uniform(Items(f, width), width) /\ Len(Items(f, width)) = n /\ InARow(f, Items(f, width), width)
    BY <1>1, <1>2, ItemsAre
<1>4. Items(f, width) = items
    BY <1>1, <1>3, ItemsOnce
<1> QED BY <1>2, <1>4 DEF f

\* And fields read as items are written as those fields.
LEMMA ItemsFlat ==
    ASSUME NEW fields \in Seq(Nat), NEW count \in Nat, NEW width \in Nat, width > 0,
           Len(fields) = count * width
    PROVE  /\ Uniform(Items(fields, width), width) /\ Len(Items(fields, width)) = count
           /\ FlattenSeq(Items(fields, width)) = fields
<1> DEFINE items == Items(fields, width)
<1>1. Uniform(items, width) /\ Len(items) = count /\ InARow(fields, items, width)
    BY ItemsAre
<1> HIDE DEF items
<1>2. InARow(FlattenSeq(items), items, width)
    BY <1>1, FlatIs
<1>3. items \in Seq(Seq(Nat))
    BY <1>1 DEF Uniform
<1>4. FlattenSeq(items) = fields
    BY <1>1, <1>2, <1>3, RowOnce
<1> QED BY <1>1, <1>4 DEF items

\* The fields of the lists the containers hold.
InFields(inputs)    == FlattenSeq([i \in DOMAIN inputs |-> WriteTxIn(inputs[i])])
OutFields(outputs)  == FlattenSeq([i \in DOMAIN outputs |-> WriteTxOut(outputs[i])])
HashFields(hashes)  == FlattenSeq([i \in DOMAIN hashes |-> WriteField(hashes[i])])
SeatFields(signatures) == FlattenSeq([i \in DOMAIN signatures |-> WriteSeatSignature(signatures[i])])

\* A list read from fields, and the fields written from a list.
LEMMA InputsCodec ==
    /\ \A inputs \in Seq(TxIns) :
         /\ InFields(inputs) \in Seq(Nat) /\ Len(InFields(inputs)) = Len(inputs) * 4
         /\ InputsOf(InFields(inputs)) = inputs
         /\ WriteList([i \in DOMAIN inputs |-> WriteTxIn(inputs[i])])
              = WriteVarint[Len(inputs)] \o InFields(inputs)
    /\ \A fields \in Seq(Nat), count \in Nat :
         Len(fields) = count * 4 =>
           /\ InputsOf(fields) \in Seq(TxIns) /\ Len(InputsOf(fields)) = count
           /\ InFields(InputsOf(fields)) = fields
<1>1. ASSUME NEW x \in TxIns
      PROVE  /\ WriteTxIn(x) \in Seq(Nat) /\ Len(WriteTxIn(x)) = 4
             /\ ReadTxIn(WriteTxIn(x)) = x
    BY DEF TxIns, WriteTxIn, ReadTxIn
<1>2. ASSUME NEW f \in Seq(Nat), Len(f) = 4
      PROVE  ReadTxIn(f) \in TxIns /\ WriteTxIn(ReadTxIn(f)) = f
    <2>1. f[1] \in Nat /\ f[2] \in Nat /\ f[3] \in Nat /\ f[4] \in Nat
        <3>3. \A i \in 1 .. Len(f) : f[i] \in Nat
            OBVIOUS
        <3>1. \A i \in 1 .. 4 : f[i] \in Nat
            BY <1>2, <3>3
        <3>2. 1 \in 1 .. 4 /\ 2 \in 1 .. 4 /\ 3 \in 1 .. 4 /\ 4 \in 1 .. 4
            OBVIOUS
        <3> QED BY <3>1, <3>2
    <2>2. f = <<f[1], f[2], f[3], f[4]>>
        <3>1. <<f[1], f[2], f[3], f[4]>> \in Seq(Nat) /\ Len(<<f[1], f[2], f[3], f[4]>>) = 4
            BY <2>1
        <3>2. \A i \in 1 .. 4 : f[i] = <<f[1], f[2], f[3], f[4]>>[i]
            OBVIOUS
        <3> DEFINE g == <<f[1], f[2], f[3], f[4]>>
        <3>3. g \in Seq(Nat) /\ Len(g) = Len(f) /\ \A i \in 1 .. Len(g) : g[i] = f[i]
            BY <1>2, <3>1, <3>2
        <3> HIDE DEF g
        <3>4. g = f
            BY <3>3, SeqEqual
        <3> QED BY <3>4 DEF g
    <2> QED BY <2>1, <2>2 DEF TxIns, WriteTxIn, ReadTxIn
<1>3. ASSUME NEW inputs \in Seq(TxIns)
      PROVE  /\ InFields(inputs) \in Seq(Nat) /\ Len(InFields(inputs)) = Len(inputs) * 4
             /\ InputsOf(InFields(inputs)) = inputs
             /\ WriteList([i \in DOMAIN inputs |-> WriteTxIn(inputs[i])])
                  = WriteVarint[Len(inputs)] \o InFields(inputs)
    <2> DEFINE n == Len(inputs)
               items == [i \in DOMAIN inputs |-> WriteTxIn(inputs[i])]
               f == InFields(inputs)
    <2>1. n \in Nat /\ DOMAIN inputs = 1 .. n /\ \A i \in 1 .. n : inputs[i] \in TxIns
        OBVIOUS
    <2>2. items \in [1 .. n -> Seq(Nat)] /\ \A i \in 1 .. n : Len(items[i]) = 4 /\ ReadTxIn(items[i]) = inputs[i]
        BY <1>1, <2>1
    <2>3. items \in Seq(Seq(Nat)) /\ Len(items) = n /\ DOMAIN items = 1 .. n
        BY <2>1, <2>2
    <2> HIDE DEF items, n
    <2>4. Uniform(items, 4)
        BY <2>2, <2>3 DEF Uniform
    <2>5. f = FlattenSeq(items)
        BY DEF InFields, items
    <2> HIDE DEF f
    <2>6. f \in Seq(Nat) /\ Len(f) = n * 4 /\ Items(f, 4) = items
        <3> DEFINE w == 4
        <3>1. w \in Nat /\ w > 0
            OBVIOUS
        <3> HIDE DEF w
        <3>2. Uniform(items, w)
            BY <2>4 DEF w
        <3>3. f \in Seq(Nat) /\ Len(f) = n * w /\ Items(f, w) = items
            BY <2>3, <2>5, <3>1, <3>2, FlatItems
        <3> QED BY <3>3 DEF w
    <2>7. InputsOf(f) = [i \in 1 .. n |-> ReadTxIn(items[i])]
        BY <2>3, <2>6 DEF InputsOf
    <2>8. InputsOf(f) = inputs
        BY <2>1, <2>2, <2>7
    <2>9. WriteList(items) = WriteVarint[n] \o f
        BY <2>3, <2>5 DEF WriteList
    <2> QED BY <2>6, <2>8, <2>9 DEF f, n, items
<1>4. ASSUME NEW fields \in Seq(Nat), NEW count \in Nat, Len(fields) = count * 4
      PROVE  /\ InputsOf(fields) \in Seq(TxIns) /\ Len(InputsOf(fields)) = count
             /\ InFields(InputsOf(fields)) = fields
    <2> DEFINE items == Items(fields, 4)
               inputs == InputsOf(fields)
    <2>1. Uniform(items, 4) /\ Len(items) = count /\ FlattenSeq(items) = fields
        <3> DEFINE w == 4
        <3>1. w \in Nat /\ w > 0 /\ Len(fields) = count * w
            BY <1>4
        <3> HIDE DEF w
        <3>2. Uniform(Items(fields, w), w) /\ Len(Items(fields, w)) = count /\ FlattenSeq(Items(fields, w)) = fields
            BY <3>1, ItemsFlat
        <3> QED BY <3>2 DEF w
    <2>2. inputs = [i \in DOMAIN items |-> ReadTxIn(items[i])]
        BY DEF InputsOf
    <2> HIDE DEF items, inputs
    <2>3. items \in Seq(Seq(Nat)) /\ DOMAIN items = 1 .. count
        BY <2>1 DEF Uniform
    <2>4. \A i \in 1 .. count : items[i] \in Seq(Nat) /\ Len(items[i]) = 4
        BY <2>1, <2>3 DEF Uniform
    <2>5. inputs \in [1 .. count -> TxIns] /\ \A i \in 1 .. count : WriteTxIn(inputs[i]) = items[i]
        BY <1>2, <2>2, <2>3, <2>4
    <2>6. inputs \in Seq(TxIns) /\ Len(inputs) = count /\ DOMAIN inputs = 1 .. count
        BY <2>5
    <2>7. [i \in DOMAIN inputs |-> WriteTxIn(inputs[i])] = items
        BY <2>3, <2>5, <2>6
    <2>8. InFields(inputs) = fields
        BY <2>1, <2>7 DEF InFields
    <2> QED BY <2>6, <2>8 DEF inputs
<1> QED BY <1>3, <1>4
\* The same for outputs.
LEMMA OutputsCodec ==
    /\ \A outputs \in Seq(TxOuts) :
         /\ OutFields(outputs) \in Seq(Nat) /\ Len(OutFields(outputs)) = Len(outputs) * 2
         /\ OutputsOf(OutFields(outputs)) = outputs
         /\ WriteList([i \in DOMAIN outputs |-> WriteTxOut(outputs[i])])
              = WriteVarint[Len(outputs)] \o OutFields(outputs)
    /\ \A fields \in Seq(Nat), count \in Nat :
         Len(fields) = count * 2 =>
           /\ OutputsOf(fields) \in Seq(TxOuts) /\ Len(OutputsOf(fields)) = count
           /\ OutFields(OutputsOf(fields)) = fields
<1>1. ASSUME NEW x \in TxOuts
      PROVE  /\ WriteTxOut(x) \in Seq(Nat) /\ Len(WriteTxOut(x)) = 2
             /\ ReadTxOut(WriteTxOut(x)) = x
    BY DEF TxOuts, WriteTxOut, ReadTxOut
<1>2. ASSUME NEW f \in Seq(Nat), Len(f) = 2
      PROVE  ReadTxOut(f) \in TxOuts /\ WriteTxOut(ReadTxOut(f)) = f
    <2>1. f[1] \in Nat /\ f[2] \in Nat
        <3>3. \A i \in 1 .. Len(f) : f[i] \in Nat
            OBVIOUS
        <3>1. \A i \in 1 .. 2 : f[i] \in Nat
            BY <1>2, <3>3
        <3>2. 1 \in 1 .. 2 /\ 2 \in 1 .. 2
            OBVIOUS
        <3> QED BY <3>1, <3>2
    <2>2. f = <<f[1], f[2]>>
        <3>1. <<f[1], f[2]>> \in Seq(Nat) /\ Len(<<f[1], f[2]>>) = 2
            BY <2>1
        <3>2. \A i \in 1 .. 2 : f[i] = <<f[1], f[2]>>[i]
            OBVIOUS
        <3> DEFINE g == <<f[1], f[2]>>
        <3>3. g \in Seq(Nat) /\ Len(g) = Len(f) /\ \A i \in 1 .. Len(g) : g[i] = f[i]
            BY <1>2, <3>1, <3>2
        <3> HIDE DEF g
        <3>4. g = f
            BY <3>3, SeqEqual
        <3> QED BY <3>4 DEF g
    <2> QED BY <2>1, <2>2 DEF TxOuts, WriteTxOut, ReadTxOut
<1>3. ASSUME NEW outputs \in Seq(TxOuts)
      PROVE  /\ OutFields(outputs) \in Seq(Nat) /\ Len(OutFields(outputs)) = Len(outputs) * 2
             /\ OutputsOf(OutFields(outputs)) = outputs
             /\ WriteList([i \in DOMAIN outputs |-> WriteTxOut(outputs[i])])
                  = WriteVarint[Len(outputs)] \o OutFields(outputs)
    <2> DEFINE n == Len(outputs)
               items == [i \in DOMAIN outputs |-> WriteTxOut(outputs[i])]
               f == OutFields(outputs)
    <2>1. n \in Nat /\ DOMAIN outputs = 1 .. n /\ \A i \in 1 .. n : outputs[i] \in TxOuts
        OBVIOUS
    <2>2. items \in [1 .. n -> Seq(Nat)] /\ \A i \in 1 .. n : Len(items[i]) = 2 /\ ReadTxOut(items[i]) = outputs[i]
        BY <1>1, <2>1
    <2>3. items \in Seq(Seq(Nat)) /\ Len(items) = n /\ DOMAIN items = 1 .. n
        BY <2>1, <2>2
    <2> HIDE DEF items, n
    <2>4. Uniform(items, 2)
        BY <2>2, <2>3 DEF Uniform
    <2>5. f = FlattenSeq(items)
        BY DEF OutFields, items
    <2> HIDE DEF f
    <2>6. f \in Seq(Nat) /\ Len(f) = n * 2 /\ Items(f, 2) = items
        <3> DEFINE w == 2
        <3>1. w \in Nat /\ w > 0
            OBVIOUS
        <3> HIDE DEF w
        <3>2. Uniform(items, w)
            BY <2>4 DEF w
        <3>3. f \in Seq(Nat) /\ Len(f) = n * w /\ Items(f, w) = items
            BY <2>3, <2>5, <3>1, <3>2, FlatItems
        <3> QED BY <3>3 DEF w
    <2>7. OutputsOf(f) = [i \in 1 .. n |-> ReadTxOut(items[i])]
        BY <2>3, <2>6 DEF OutputsOf
    <2>8. OutputsOf(f) = outputs
        BY <2>1, <2>2, <2>7
    <2>9. WriteList(items) = WriteVarint[n] \o f
        BY <2>3, <2>5 DEF WriteList
    <2> QED BY <2>6, <2>8, <2>9 DEF f, n, items
<1>4. ASSUME NEW fields \in Seq(Nat), NEW count \in Nat, Len(fields) = count * 2
      PROVE  /\ OutputsOf(fields) \in Seq(TxOuts) /\ Len(OutputsOf(fields)) = count
             /\ OutFields(OutputsOf(fields)) = fields
    <2> DEFINE items == Items(fields, 2)
               outputs == OutputsOf(fields)
    <2>1. Uniform(items, 2) /\ Len(items) = count /\ FlattenSeq(items) = fields
        <3> DEFINE w == 2
        <3>1. w \in Nat /\ w > 0 /\ Len(fields) = count * w
            BY <1>4
        <3> HIDE DEF w
        <3>2. Uniform(Items(fields, w), w) /\ Len(Items(fields, w)) = count /\ FlattenSeq(Items(fields, w)) = fields
            BY <3>1, ItemsFlat
        <3> QED BY <3>2 DEF w
    <2>2. outputs = [i \in DOMAIN items |-> ReadTxOut(items[i])]
        BY DEF OutputsOf
    <2> HIDE DEF items, outputs
    <2>3. items \in Seq(Seq(Nat)) /\ DOMAIN items = 1 .. count
        BY <2>1 DEF Uniform
    <2>4. \A i \in 1 .. count : items[i] \in Seq(Nat) /\ Len(items[i]) = 2
        BY <2>1, <2>3 DEF Uniform
    <2>5. outputs \in [1 .. count -> TxOuts] /\ \A i \in 1 .. count : WriteTxOut(outputs[i]) = items[i]
        BY <1>2, <2>2, <2>3, <2>4
    <2>6. outputs \in Seq(TxOuts) /\ Len(outputs) = count /\ DOMAIN outputs = 1 .. count
        BY <2>5
    <2>7. [i \in DOMAIN outputs |-> WriteTxOut(outputs[i])] = items
        BY <2>3, <2>5, <2>6
    <2>8. OutFields(outputs) = fields
        BY <2>1, <2>7 DEF OutFields
    <2> QED BY <2>6, <2>8 DEF outputs
<1> QED BY <1>3, <1>4
\* The same for the signatures of the seats.
LEMMA SignaturesCodec ==
    /\ \A signatures \in Seq(SeatSignatures) :
         /\ SeatFields(signatures) \in Seq(Nat) /\ Len(SeatFields(signatures)) = Len(signatures) * 2
         /\ SignaturesOf(SeatFields(signatures)) = signatures
         /\ WriteList([i \in DOMAIN signatures |-> WriteSeatSignature(signatures[i])])
              = WriteVarint[Len(signatures)] \o SeatFields(signatures)
    /\ \A fields \in Seq(Nat), count \in Nat :
         Len(fields) = count * 2 =>
           /\ SignaturesOf(fields) \in Seq(SeatSignatures) /\ Len(SignaturesOf(fields)) = count
           /\ SeatFields(SignaturesOf(fields)) = fields
<1>1. ASSUME NEW x \in SeatSignatures
      PROVE  /\ WriteSeatSignature(x) \in Seq(Nat) /\ Len(WriteSeatSignature(x)) = 2
             /\ ReadSeatSignature(WriteSeatSignature(x)) = x
    BY DEF SeatSignatures, WriteSeatSignature, ReadSeatSignature
<1>2. ASSUME NEW f \in Seq(Nat), Len(f) = 2
      PROVE  ReadSeatSignature(f) \in SeatSignatures /\ WriteSeatSignature(ReadSeatSignature(f)) = f
    <2>1. f[1] \in Nat /\ f[2] \in Nat
        <3>3. \A i \in 1 .. Len(f) : f[i] \in Nat
            OBVIOUS
        <3>1. \A i \in 1 .. 2 : f[i] \in Nat
            BY <1>2, <3>3
        <3>2. 1 \in 1 .. 2 /\ 2 \in 1 .. 2
            OBVIOUS
        <3> QED BY <3>1, <3>2
    <2>2. f = <<f[1], f[2]>>
        <3>1. <<f[1], f[2]>> \in Seq(Nat) /\ Len(<<f[1], f[2]>>) = 2
            BY <2>1
        <3>2. \A i \in 1 .. 2 : f[i] = <<f[1], f[2]>>[i]
            OBVIOUS
        <3> DEFINE g == <<f[1], f[2]>>
        <3>3. g \in Seq(Nat) /\ Len(g) = Len(f) /\ \A i \in 1 .. Len(g) : g[i] = f[i]
            BY <1>2, <3>1, <3>2
        <3> HIDE DEF g
        <3>4. g = f
            BY <3>3, SeqEqual
        <3> QED BY <3>4 DEF g
    <2> QED BY <2>1, <2>2 DEF SeatSignatures, WriteSeatSignature, ReadSeatSignature
<1>3. ASSUME NEW signatures \in Seq(SeatSignatures)
      PROVE  /\ SeatFields(signatures) \in Seq(Nat) /\ Len(SeatFields(signatures)) = Len(signatures) * 2
             /\ SignaturesOf(SeatFields(signatures)) = signatures
             /\ WriteList([i \in DOMAIN signatures |-> WriteSeatSignature(signatures[i])])
                  = WriteVarint[Len(signatures)] \o SeatFields(signatures)
    <2> DEFINE n == Len(signatures)
               items == [i \in DOMAIN signatures |-> WriteSeatSignature(signatures[i])]
               f == SeatFields(signatures)
    <2>1. n \in Nat /\ DOMAIN signatures = 1 .. n /\ \A i \in 1 .. n : signatures[i] \in SeatSignatures
        OBVIOUS
    <2>2. items \in [1 .. n -> Seq(Nat)] /\ \A i \in 1 .. n : Len(items[i]) = 2 /\ ReadSeatSignature(items[i]) = signatures[i]
        BY <1>1, <2>1
    <2>3. items \in Seq(Seq(Nat)) /\ Len(items) = n /\ DOMAIN items = 1 .. n
        BY <2>1, <2>2
    <2> HIDE DEF items, n
    <2>4. Uniform(items, 2)
        BY <2>2, <2>3 DEF Uniform
    <2>5. f = FlattenSeq(items)
        BY DEF SeatFields, items
    <2> HIDE DEF f
    <2>6. f \in Seq(Nat) /\ Len(f) = n * 2 /\ Items(f, 2) = items
        <3> DEFINE w == 2
        <3>1. w \in Nat /\ w > 0
            OBVIOUS
        <3> HIDE DEF w
        <3>2. Uniform(items, w)
            BY <2>4 DEF w
        <3>3. f \in Seq(Nat) /\ Len(f) = n * w /\ Items(f, w) = items
            BY <2>3, <2>5, <3>1, <3>2, FlatItems
        <3> QED BY <3>3 DEF w
    <2>7. SignaturesOf(f) = [i \in 1 .. n |-> ReadSeatSignature(items[i])]
        BY <2>3, <2>6 DEF SignaturesOf
    <2>8. SignaturesOf(f) = signatures
        BY <2>1, <2>2, <2>7
    <2>9. WriteList(items) = WriteVarint[n] \o f
        BY <2>3, <2>5 DEF WriteList
    <2> QED BY <2>6, <2>8, <2>9 DEF f, n, items
<1>4. ASSUME NEW fields \in Seq(Nat), NEW count \in Nat, Len(fields) = count * 2
      PROVE  /\ SignaturesOf(fields) \in Seq(SeatSignatures) /\ Len(SignaturesOf(fields)) = count
             /\ SeatFields(SignaturesOf(fields)) = fields
    <2> DEFINE items == Items(fields, 2)
               signatures == SignaturesOf(fields)
    <2>1. Uniform(items, 2) /\ Len(items) = count /\ FlattenSeq(items) = fields
        <3> DEFINE w == 2
        <3>1. w \in Nat /\ w > 0 /\ Len(fields) = count * w
            BY <1>4
        <3> HIDE DEF w
        <3>2. Uniform(Items(fields, w), w) /\ Len(Items(fields, w)) = count /\ FlattenSeq(Items(fields, w)) = fields
            BY <3>1, ItemsFlat
        <3> QED BY <3>2 DEF w
    <2>2. signatures = [i \in DOMAIN items |-> ReadSeatSignature(items[i])]
        BY DEF SignaturesOf
    <2> HIDE DEF items, signatures
    <2>3. items \in Seq(Seq(Nat)) /\ DOMAIN items = 1 .. count
        BY <2>1 DEF Uniform
    <2>4. \A i \in 1 .. count : items[i] \in Seq(Nat) /\ Len(items[i]) = 2
        BY <2>1, <2>3 DEF Uniform
    <2>5. signatures \in [1 .. count -> SeatSignatures] /\ \A i \in 1 .. count : WriteSeatSignature(signatures[i]) = items[i]
        BY <1>2, <2>2, <2>3, <2>4
    <2>6. signatures \in Seq(SeatSignatures) /\ Len(signatures) = count /\ DOMAIN signatures = 1 .. count
        BY <2>5
    <2>7. [i \in DOMAIN signatures |-> WriteSeatSignature(signatures[i])] = items
        BY <2>3, <2>5, <2>6
    <2>8. SeatFields(signatures) = fields
        BY <2>1, <2>7 DEF SeatFields
    <2> QED BY <2>6, <2>8 DEF signatures
<1> QED BY <1>3, <1>4
\* A list of hashes is written as its count and the hashes.
LEMMA HashesCodec ==
    ASSUME NEW hashes \in Seq(Nat)
    PROVE  HashFields(hashes) = hashes /\ WriteHashes(hashes) = WriteVarint[Len(hashes)] \o hashes
<1> DEFINE n == Len(hashes)
           items == [i \in DOMAIN hashes |-> WriteField(hashes[i])]
           w == 1
<1>1. n \in Nat /\ DOMAIN hashes = 1 .. n /\ \A i \in 1 .. n : hashes[i] \in Nat
    OBVIOUS
<1>2. items \in [1 .. n -> Seq(Nat)] /\ \A i \in 1 .. n : Len(items[i]) = 1 /\ items[i][1] = hashes[i]
    BY <1>1 DEF WriteField
<1>3. items \in Seq(Seq(Nat)) /\ Len(items) = n
    BY <1>1, <1>2
<1>4. n * w = n /\ w \in Nat /\ w = 1
    <2> HIDE DEF n, items
    <2> QED BY <1>1
<1>5. \A i \in 1 .. n, j \in 1 .. w : (i - 1) * w + j = i /\ j = 1
    BY <1>1, <1>4
<1> HIDE DEF n, items, w
<1>6. Uniform(items, w) /\ InARow(hashes, items, w)
    <2>1. Uniform(items, w)
        BY <1>2, <1>3, <1>4 DEF Uniform
    <2>2. Len(hashes) = Len(items) * w
        BY <1>3, <1>4 DEF n
    <2>3. \A i \in 1 .. n, j \in 1 .. w : hashes[(i - 1) * w + j] = items[i][j]
        BY <1>2, <1>5
    <2> QED BY <1>3, <2>1, <2>2, <2>3 DEF InARow
<1>7. InARow(FlattenSeq(items), items, w)
    BY <1>4, <1>6, FlatIs
<1>8. FlattenSeq(items) = hashes
    BY <1>3, <1>4, <1>6, <1>7, RowOnce
<1>9. WriteHashes(hashes) = WriteVarint[n] \o hashes
    BY <1>3, <1>8 DEF WriteHashes, WriteList, items
<1> QED BY <1>8, <1>9 DEF HashFields, items, n

----------------------------------------------------------------------------
(* A reader that has read a part of a word.                                *)

\* Six values read one after the other.
SixVals(v1, v2, v3, v4, v5, v6) ==
    Append(Append(Append(Append(Append(<<v1>>, v2), v3), v4), v5), v6) = <<v1, v2, v3, v4, v5, v6>>

\* Values appended one by one are the tuple of them.
LEMMA SixRead ==
    ASSUME NEW v1 \in Vals, NEW v2 \in Vals, NEW v3 \in Vals, NEW v4 \in Vals, NEW v5 \in Vals,
           NEW v6 \in Vals
    PROVE  SixVals(v1, v2, v3, v4, v5, v6)
<1> DEFINE s1 == <<v1>>
           s2 == Append(s1, v2)
           s3 == Append(s2, v3)
           s4 == Append(s3, v4)
           s5 == Append(s4, v5)
           s6 == Append(s5, v6)
           u == <<v1, v2, v3, v4, v5, v6>>
<1>1. s1 \in Seq(Vals) /\ Len(s1) = 1 /\ s1[1] = v1
    OBVIOUS
<1> HIDE DEF s1
<1>2. s2 \in Seq(Vals) /\ Len(s2) = 2 /\ s2[1] = v1 /\ s2[2] = v2
    <2>1. /\ s2 \in Seq(Vals) /\ Len(s2) = Len(s1) + 1 /\ s2[Len(s1) + 1] = v2
          /\ \A i \in 1 .. Len(s1) : s2[i] = s1[i]
        <3>1. s1 \in Seq(Vals)
            BY <1>1
        <3> QED BY <3>1, AppendProperties
    <2>2. 1 \in 1 .. 1
        OBVIOUS
    <2> HIDE DEF s2
    <2> QED BY <1>1, <2>1, <2>2
<1> HIDE DEF s2
<1>3. s3 \in Seq(Vals) /\ Len(s3) = 3 /\ s3[1] = v1 /\ s3[2] = v2 /\ s3[3] = v3
    <2>1. /\ s3 \in Seq(Vals) /\ Len(s3) = Len(s2) + 1 /\ s3[Len(s2) + 1] = v3
          /\ \A i \in 1 .. Len(s2) : s3[i] = s2[i]
        <3>1. s2 \in Seq(Vals)
            BY <1>2
        <3> QED BY <3>1, AppendProperties
    <2>2. 1 \in 1 .. 2 /\ 2 \in 1 .. 2
        OBVIOUS
    <2> HIDE DEF s3
    <2> QED BY <1>2, <2>1, <2>2
<1> HIDE DEF s3
<1>4. s4 \in Seq(Vals) /\ Len(s4) = 4 /\ s4[1] = v1 /\ s4[2] = v2 /\ s4[3] = v3 /\ s4[4] = v4
    <2>1. /\ s4 \in Seq(Vals) /\ Len(s4) = Len(s3) + 1 /\ s4[Len(s3) + 1] = v4
          /\ \A i \in 1 .. Len(s3) : s4[i] = s3[i]
        <3>1. s3 \in Seq(Vals)
            BY <1>3
        <3> QED BY <3>1, AppendProperties
    <2>2. 1 \in 1 .. 3 /\ 2 \in 1 .. 3 /\ 3 \in 1 .. 3
        OBVIOUS
    <2> HIDE DEF s4
    <2> QED BY <1>3, <2>1, <2>2
<1> HIDE DEF s4
<1>5. s5 \in Seq(Vals) /\ Len(s5) = 5 /\ s5[1] = v1 /\ s5[2] = v2 /\ s5[3] = v3 /\ s5[4] = v4 /\ s5[5] = v5
    <2>1. /\ s5 \in Seq(Vals) /\ Len(s5) = Len(s4) + 1 /\ s5[Len(s4) + 1] = v5
          /\ \A i \in 1 .. Len(s4) : s5[i] = s4[i]
        <3>1. s4 \in Seq(Vals)
            BY <1>4
        <3> QED BY <3>1, AppendProperties
    <2>2. 1 \in 1 .. 4 /\ 2 \in 1 .. 4 /\ 3 \in 1 .. 4 /\ 4 \in 1 .. 4
        OBVIOUS
    <2> HIDE DEF s5
    <2> QED BY <1>4, <2>1, <2>2
<1> HIDE DEF s5
<1>6. s6 \in Seq(Vals) /\ Len(s6) = 6 /\ s6[1] = v1 /\ s6[2] = v2 /\ s6[3] = v3 /\ s6[4] = v4
      /\ s6[5] = v5 /\ s6[6] = v6
    <2>1. /\ s6 \in Seq(Vals) /\ Len(s6) = Len(s5) + 1 /\ s6[Len(s5) + 1] = v6
          /\ \A i \in 1 .. Len(s5) : s6[i] = s5[i]
        <3>1. s5 \in Seq(Vals)
            BY <1>5
        <3> QED BY <3>1, AppendProperties
    <2>2. 1 \in 1 .. 5 /\ 2 \in 1 .. 5 /\ 3 \in 1 .. 5 /\ 4 \in 1 .. 5 /\ 5 \in 1 .. 5
        OBVIOUS
    <2> HIDE DEF s6
    <2> QED BY <1>5, <2>1, <2>2
<1> HIDE DEF s6
<1>7. /\ u \in Seq(Vals) /\ Len(u) = 6 /\ u[1] = v1 /\ u[2] = v2 /\ u[3] = v3 /\ u[4] = v4
      /\ u[5] = v5 /\ u[6] = v6
    OBVIOUS
<1> HIDE DEF u
<1>8. \A i \in 1 .. 6 : i = 1 \/ i = 2 \/ i = 3 \/ i = 4 \/ i = 5 \/ i = 6
    OBVIOUS
<1>9. \A i \in 1 .. Len(s6) : s6[i] = u[i]
    BY <1>6, <1>7, <1>8
<1>10. s6 = u
    BY <1>6, <1>7, <1>9, SeqEqual
<1> QED BY <1>10 DEF s6, s5, s4, s3, s2, s1, u, SixVals

\* A reader that has read a part of the word and holds its values.
Has(r, word, part, vals) ==
    /\ Runs(r, word) /\ r.ok /\ r.vals = vals
    /\ part \in Seq(Nat) /\ Stands(word, 0, part) /\ r.pos = Len(part)

\* A reader that has read nothing.
LEMMA OpenHas ==
    ASSUME NEW word \in Seq(Nat)
    PROVE  Has(Open(word), word, <<>>, <<>>)
BY OpenRuns DEF Has, Stands

\* A reader that goes on by a part has read that part too.
LEMMA PartHas ==
    ASSUME NEW word \in Seq(Nat), NEW r, NEW s, NEW a, NEW vals, Has(r, word, a, vals), Runs(s, word), s.ok,
           NEW b \in Seq(Nat), NEW value, ReadsPart(r, s, word, b, value)
    PROVE  Has(s, word, a \o b, Append(vals, value))
<1>1. a \in Seq(Nat) /\ Stands(word, 0, a) /\ r.pos = Len(a) /\ r.vals = vals
    BY DEF Has
<1>2. Stands(word, Len(a), b) /\ s.pos = Len(a) + Len(b) /\ s.vals = Append(vals, value)
    BY <1>1 DEF ReadsPart
<1>3. a \o b \in Seq(Nat) /\ Len(a \o b) = Len(a) + Len(b) /\ 0 + Len(a) = Len(a)
    BY <1>1, ConcatProperties
<1>4. Stands(word, 0, a \o b)
    BY <1>1, <1>2, <1>3, StandsJoined
<1> QED BY <1>2, <1>3, <1>4 DEF Has

\* Reading a field, with a rule on it or without, that is there or is told to be.
LEMMA FieldHas ==
    ASSUME NEW word \in Seq(Nat), NEW r, NEW a, NEW vals, Has(r, word, a, vals), NEW S
    PROVE  /\ ReadField(r).ok =>
                \E value \in Nat : Has(ReadField(r), word, a \o <<value>>, Append(vals, value))
           /\ \A value \in Nat : Stands(word, 0, a \o <<value>>) =>
                Has(ReadField(r), word, a \o <<value>>, Append(vals, value))
           /\ ReadFieldIn(r, S).ok =>
                \E value \in Nat \cap S :
                    Has(ReadFieldIn(r, S), word, a \o <<value>>, Append(vals, value))
           /\ \A value \in Nat \cap S : Stands(word, 0, a \o <<value>>) =>
                Has(ReadFieldIn(r, S), word, a \o <<value>>, Append(vals, value))
<1>1. Runs(r, word) /\ r.ok /\ r.pos \in Nat /\ a \in Seq(Nat) /\ r.pos = Len(a) /\ r.vals = vals
    BY DEF Has, Runs
<1>2. ASSUME NEW s, Runs(s, word), s.ok, r.pos + 1 \in 1 .. Len(word), s.pos = r.pos + 1,
             s.vals = Append(r.vals, word[r.pos + 1])
      PROVE  Has(s, word, a \o <<word[r.pos + 1]>>, Append(vals, word[r.pos + 1]))
    <2> DEFINE v == word[r.pos + 1]
    <2>1. v \in Nat /\ r.pos + 1 <= Len(word)
        BY <1>1, <1>2
    <2>2. s.vals = Append(r.vals, v)
        BY <1>2
    <2>3. Stands(word, r.pos, <<v>>)
        <3>1. \A i \in 1 .. 1 : word[r.pos + i] = v
            OBVIOUS
        <3> HIDE DEF v
        <3> QED BY <2>1, <3>1 DEF Stands
    <2> HIDE DEF v
    <2>4. <<v>> \in Seq(Nat) /\ Len(<<v>>) = 1
        BY <2>1
    <2>5. ReadsPart(r, s, word, <<v>>, v)
        BY <1>1, <1>2, <2>2, <2>3, <2>4 DEF ReadsPart
    <2>6. Has(s, word, a \o <<v>>, Append(vals, v))
        BY <1>2, <2>4, <2>5, PartHas
    <2> QED BY <2>6 DEF v
<1>3. ASSUME NEW value \in Nat, Stands(word, 0, a \o <<value>>)
      PROVE  r.pos < Len(word) /\ word[r.pos + 1] = value
    <2> DEFINE b == <<value>>
    <2>1. b \in Seq(Nat) /\ Len(b) = 1 /\ b[1] = value /\ 1 \in 1 .. 1
        OBVIOUS
    <2>2. Stands(word, 0, a \o b)
        BY <1>3
    <2> HIDE DEF b
    <2>3. Stands(word, 0 + Len(a), b)
        BY <1>1, <2>1, <2>2, StandsJoined
    <2>4. Stands(word, r.pos, b)
        BY <1>1, <2>3
    <2> QED BY <1>1, <2>1, <2>4 DEF Stands
<1>4. ASSUME ReadField(r).ok PROVE Has(ReadField(r), word, a \o <<word[r.pos + 1]>>, Append(vals, word[r.pos + 1]))
                                   /\ word[r.pos + 1] \in Nat
    BY <1>1, <1>2, <1>4, FieldReads
<1>5. ASSUME ReadFieldIn(r, S).ok
      PROVE  Has(ReadFieldIn(r, S), word, a \o <<word[r.pos + 1]>>, Append(vals, word[r.pos + 1]))
             /\ word[r.pos + 1] \in Nat \cap S
    BY <1>1, <1>2, <1>5, FieldReadsIn
<1>6. ASSUME NEW value \in Nat, Stands(word, 0, a \o <<value>>)
      PROVE  Has(ReadField(r), word, a \o <<value>>, Append(vals, value))
    BY <1>1, <1>3, <1>4, <1>6, FieldReads
<1>7. ASSUME NEW value \in Nat \cap S, Stands(word, 0, a \o <<value>>)
      PROVE  Has(ReadFieldIn(r, S), word, a \o <<value>>, Append(vals, value))
    <2>1. value \in Nat /\ value \in S /\ r.pos < Len(word) /\ word[r.pos + 1] = value
        BY <1>3, <1>7
    <2>2. ReadFieldIn(r, S).ok
        BY <1>1, <2>1, FieldReadsIn
    <2> QED BY <1>5, <2>1, <2>2
<1> QED BY <1>4, <1>5, <1>6, <1>7

\* Two lists do not stand in one place.
LEMMA ListOnce ==
    ASSUME NEW word \in Seq(Nat), NEW at \in Nat, NEW width \in Nat,
           NEW f \in Seq(Nat), NEW m \in Nat, Len(f) = m * width, Stands(word, at, WriteVarint[m] \o f),
           NEW g \in Seq(Nat), NEW n \in Nat, Len(g) = n * width, Stands(word, at, WriteVarint[n] \o g)
    PROVE  m = n /\ f = g
<1> DEFINE a == WriteVarint[m]
           b == WriteVarint[n]
<1>1. /\ a \in Seq(Nat) /\ IsVarint(a) /\ ValueOf[a] = m
      /\ b \in Seq(Nat) /\ IsVarint(b) /\ ValueOf[b] = n
    BY VarintWritten DEF IsVarint
<1> HIDE DEF a, b
<1>2. Stands(word, at, a) /\ Stands(word, at + Len(a), f)
    <2>1. Stands(word, at, a \o f)
        BY DEF a
    <2> QED BY <1>1, <2>1, StandsJoined
<1>3. Stands(word, at, b) /\ Stands(word, at + Len(b), g)
    <2>1. Stands(word, at, b \o g)
        BY DEF b
    <2> QED BY <1>1, <2>1, StandsJoined
<1>4. a = b
    BY <1>1, <1>2, <1>3, VarintsStandOnce
<1>5. m = n
    BY <1>1, <1>4
<1>6. Len(f) = Len(g)
    BY <1>5
<1>7. f = g
    BY <1>2, <1>3, <1>4, <1>6, StandsOnce
<1> QED BY <1>5, <1>7

\* Reading a list that is there or is told to be.
LEMMA ListHas ==
    ASSUME NEW word \in Seq(Nat), NEW r, NEW a, NEW vals, Has(r, word, a, vals),
           NEW most \in Nat, NEW width \in Nat
    PROVE  /\ ReadList(r, most, width).ok =>
                \E fields \in Seq(Nat), count \in 0 .. most :
                  /\ Len(fields) = count * width
                  /\ Has(ReadList(r, most, width), word, a \o (WriteVarint[count] \o fields),
                         Append(vals, fields))
           /\ \A fields \in Seq(Nat), count \in 0 .. most :
                /\ Len(fields) = count * width /\ Fitting(count)
                /\ Stands(word, 0, a \o (WriteVarint[count] \o fields))
                => Has(ReadList(r, most, width), word, a \o (WriteVarint[count] \o fields),
                       Append(vals, fields))
<1> DEFINE s == ReadList(r, most, width)
<1>1. Runs(r, word) /\ r.ok /\ r.pos \in Nat /\ a \in Seq(Nat) /\ r.pos = Len(a) /\ r.vals = vals
    BY DEF Has, Runs
<1>2. /\ Runs(s, word)
      /\ s.ok => \E fields \in Seq(Nat), count \in 0 .. most :
                  /\ Len(fields) = count * width
                  /\ ReadsPart(r, s, word, WriteVarint[count] \o fields, fields)
      /\ \A fields \in Seq(Nat), count \in 0 .. most :
                /\ Len(fields) = count * width /\ Fitting(count)
                /\ Stands(word, r.pos, WriteVarint[count] \o fields)
                => s.ok
    BY <1>1, ListReads
<1> HIDE DEF s
<1>3. ASSUME s.ok
      PROVE  \E fields \in Seq(Nat), count \in 0 .. most :
               /\ Len(fields) = count * width
               /\ Has(s, word, a \o (WriteVarint[count] \o fields), Append(vals, fields))
    <2>1. PICK fields \in Seq(Nat), count \in 0 .. most :
                  /\ Len(fields) = count * width
                  /\ ReadsPart(r, s, word, WriteVarint[count] \o fields, fields)
        BY <1>2, <1>3
    <2> DEFINE b == WriteVarint[count] \o fields
    <2>2. b \in Seq(Nat)
        <3>1. count \in Nat
            OBVIOUS
        <3>2. WriteVarint[count] \in Seq(Nat)
            BY <3>1, VarintWritten DEF IsVarint
        <3> QED BY <3>2, ConcatProperties
    <2>3. ReadsPart(r, s, word, b, fields)
        BY <2>1
    <2> HIDE DEF b
    <2>4. Has(s, word, a \o b, Append(vals, fields))
        BY <1>2, <1>3, <2>2, <2>3, PartHas
    <2> QED BY <2>1, <2>4 DEF b
<1>4. ASSUME NEW fields \in Seq(Nat), NEW count \in 0 .. most, Len(fields) = count * width, Fitting(count),
             Stands(word, 0, a \o (WriteVarint[count] \o fields))
      PROVE  Has(s, word, a \o (WriteVarint[count] \o fields), Append(vals, fields))
    <2> DEFINE b == WriteVarint[count] \o fields
    <2>1. b \in Seq(Nat) /\ count \in Nat
        BY VarintWritten, ConcatProperties DEF IsVarint
    <2>2. Stands(word, 0, a \o b)
        BY <1>4
    <2> HIDE DEF b
    <2>3. Stands(word, 0 + Len(a), b)
        BY <1>1, <2>1, <2>2, StandsJoined
    <2>4. Stands(word, Len(a), b) /\ Stands(word, r.pos, b)
        BY <1>1, <2>3
    <2>5. s.ok
        BY <1>2, <1>4, <2>4 DEF b
    <2>6. PICK g \in Seq(Nat), n \in 0 .. most :
                  /\ Len(g) = n * width
                  /\ ReadsPart(r, s, word, WriteVarint[n] \o g, g)
        BY <1>2, <2>5
    <2>7. n \in Nat /\ Stands(word, r.pos, WriteVarint[n] \o g)
        BY <2>6 DEF ReadsPart
    <2>8. Stands(word, r.pos, WriteVarint[count] \o fields)
        BY <2>4 DEF b
    <2>9. n = count /\ g = fields
        BY <1>1, <1>4, <2>1, <2>6, <2>7, <2>8, ListOnce
    <2>10. ReadsPart(r, s, word, b, fields)
        BY <2>6, <2>9 DEF b
    <2>11. Has(s, word, a \o b, Append(vals, fields))
        BY <1>2, <2>1, <2>5, <2>10, PartHas
    <2> QED BY <2>11 DEF b
<1> QED BY <1>3, <1>4 DEF s

\* A rule that holds, and one that is found to.
LEMMA RequireHas ==
    ASSUME NEW word, NEW r, NEW a, NEW vals, Has(r, word, a, vals), NEW holds \in BOOLEAN
    PROVE  /\ Require(r, holds).ok => holds
           /\ holds => Has(Require(r, holds), word, a, vals)
<1>1. Runs(r, word)
    BY DEF Has
<1>2. Require(r, holds).ok <=> r.ok /\ holds
    BY <1>1, RequireRuns
<1> QED BY <1>2 DEF Has, Require

\* A reader that finishes has read the whole word.
LEMMA FinishHas ==
    ASSUME NEW word \in Seq(Nat), NEW r, NEW a, NEW vals, Has(r, word, a, vals)
    PROVE  /\ Finish(r).ok <=> a = word
           /\ a = word => Finish(r) = r
<1>1. Runs(r, word) /\ r.ok /\ r.pos \in Nat /\ r.buf = word /\ a \in Seq(Nat) /\ r.pos = Len(a)
      /\ Stands(word, 0, a)
    BY DEF Has, Runs
<1>2. Remaining(r) = 0 <=> Len(a) = Len(word)
    BY <1>1 DEF Remaining
<1>3. (Remaining(r) = 0) \in BOOLEAN
    OBVIOUS
<1>4. Finish(r).ok <=> Remaining(r) = 0
    BY <1>1, <1>3, RequireRuns DEF Finish
<1>5. a = word <=> Len(a) = Len(word)
    BY <1>1, StandsWhole
<1> QED BY <1>2, <1>4, <1>5 DEF Finish, Require

\* One more field after a part.
LEMMA OneMore ==
    ASSUME NEW s \in Seq(Nat), NEW e \in Nat, NEW u \in Seq(Nat), NEW n \in Nat, Len(s) = n, Len(u) = n + 1,
           u[n + 1] = e, \A i \in 1 .. n : s[i] = u[i]
    PROVE  s \o <<e>> = u
<1> DEFINE t == s \o <<e>>
<1>1. <<e>> \in Seq(Nat) /\ Len(<<e>>) = 1 /\ <<e>>[1] = e
    OBVIOUS
<1>2. t \in Seq(Nat) /\ Len(t) = n + 1 /\ \A i \in 1 .. n + 1 : t[i] = IF i <= n THEN s[i] ELSE <<e>>[i - n]
    BY <1>1, ConcatProperties
<1> HIDE DEF t
<1>3. \A i \in 1 .. n + 1 : t[i] = u[i]
    <2> SUFFICES ASSUME NEW i \in 1 .. n + 1 PROVE t[i] = u[i]
        OBVIOUS
    <2>1. CASE i <= n
        BY <1>2, <2>1
    <2>2. CASE ~(i <= n)
        <3>1. i = n + 1 /\ i - n = 1
            BY <2>2
        <3> QED BY <1>1, <1>2, <2>2, <3>1
    <2> QED BY <2>1, <2>2
<1>4. t = u
    BY <1>2, <1>3, SeqEqual
<1> QED BY <1>4 DEF t

\* Fields written one by one are written together.
LEMMA FieldsJoined ==
    ASSUME NEW a \in Nat, NEW b \in Nat, NEW c \in Nat, NEW d \in Nat
    PROVE  /\ <<>> \o <<a>> = <<a>>
           /\ <<a>> \o <<b>> = <<a, b>>
           /\ <<a, b>> \o <<c>> = <<a, b, c>>
           /\ <<a, b, c>> \o <<d>> = <<a, b, c, d>>
<1>2. <<>> \o <<a>> = <<a>>
    OBVIOUS
<1>3. <<a>> \o <<b>> = <<a, b>>
    <2> DEFINE s == <<a>>
               u == <<a, b>>
               n == 1
    <2>1. s \in Seq(Nat) /\ u \in Seq(Nat) /\ n \in Nat /\ Len(s) = n /\ Len(u) = n + 1 /\ u[n + 1] = b
        OBVIOUS
    <2>2. \A i \in 1 .. n : s[i] = u[i]
        <3>1. s[1] = u[1] /\ \A i \in 1 .. n : i = 1
            OBVIOUS
        <3> QED BY <3>1
    <2> HIDE DEF s, u, n
    <2>3. s \o <<b>> = u
        BY <2>1, <2>2, OneMore
    <2> QED BY <2>3 DEF s, u
<1>4. <<a, b>> \o <<c>> = <<a, b, c>>
    <2> DEFINE s == <<a, b>>
               u == <<a, b, c>>
               n == 2
    <2>1. s \in Seq(Nat) /\ u \in Seq(Nat) /\ n \in Nat /\ Len(s) = n /\ Len(u) = n + 1 /\ u[n + 1] = c
        OBVIOUS
    <2>2. \A i \in 1 .. n : s[i] = u[i]
        <3>1. s[1] = u[1] /\ s[2] = u[2] /\ \A i \in 1 .. n : i = 1 \/ i = 2
            OBVIOUS
        <3> HIDE DEF s, u, n
        <3> QED BY <3>1
    <2> HIDE DEF s, u, n
    <2>3. s \o <<c>> = u
        BY <2>1, <2>2, OneMore
    <2> QED BY <2>3 DEF s, u
<1>5. <<a, b, c>> \o <<d>> = <<a, b, c, d>>
    <2> DEFINE s == <<a, b, c>>
               u == <<a, b, c, d>>
               n == 3
    <2>1. s \in Seq(Nat) /\ u \in Seq(Nat) /\ n \in Nat /\ Len(s) = n /\ Len(u) = n + 1 /\ u[n + 1] = d
        OBVIOUS
    <2>2. \A i \in 1 .. n : s[i] = u[i]
        <3>1. s[1] = u[1] /\ s[2] = u[2] /\ s[3] = u[3] /\ \A i \in 1 .. n : i = 1 \/ i = 2 \/ i = 3
            OBVIOUS
        <3> HIDE DEF s, u, n
        <3> QED BY <3>1
    <2> HIDE DEF s, u, n
    <2>3. s \o <<d>> = u
        BY <2>1, <2>2, OneMore
    <2> QED BY <2>3 DEF s, u
<1> QED BY <1>2, <1>3, <1>4, <1>5

----------------------------------------------------------------------------
(* Items that ascend are known from their set.                             *)

\* An order: no item is below itself, and what is below what is below is below.
Order(R, S) ==
    /\ R \subseteq S \X S
    /\ \A x \in S : <<x, x>> \notin R
    /\ \A x, y, z \in S : <<x, y>> \in R /\ <<y, z>> \in R => <<x, z>> \in R

\* Items of which each is below the next ascend.
LEMMA NeighboursAscend ==
    ASSUME NEW S, NEW R, Order(R, S), NEW items \in Seq(S)
    PROVE  (\A pair \in Neighbours(items) : pair \in R) <=> (\A pair \in Pairs(items) : pair \in R)
<1> DEFINE n == Len(items)
<1>1. n \in Nat /\ DOMAIN items = 1 .. n /\ \A i \in 1 .. n : items[i] \in S
    OBVIOUS
<1> HIDE DEF n
<1>2. Neighbours(items) = {<<items[i], items[i + 1]>> : i \in 1 .. n - 1}
    BY DEF Neighbours, n
<1>3. Pairs(items) = {<<items[x[1]], items[x[2]]>> : x \in {y \in (1 .. n) \X (1 .. n) : y[1] < y[2]}}
    BY <1>1 DEF Pairs
<1>4. ASSUME \A pair \in Pairs(items) : pair \in R, NEW i \in 1 .. n - 1
      PROVE  <<items[i], items[i + 1]>> \in R
    <2>1. <<i, i + 1>> \in {y \in (1 .. n) \X (1 .. n) : y[1] < y[2]}
        BY <1>1
    <2>2. <<items[<<i, i + 1>>[1]], items[<<i, i + 1>>[2]]>> \in Pairs(items)
        BY <1>3, <2>1, Zenon
    <2>3. <<items[i], items[i + 1]>> \in Pairs(items)
        BY <2>2
    <2> QED BY <1>4, <2>3
<1>5. ASSUME \A pair \in Neighbours(items) : pair \in R
      PROVE  \A i \in 1 .. n, j \in 1 .. n : i < j => <<items[i], items[j]>> \in R
    <2> DEFINE P == {k \in Nat : \A i \in 1 .. n, j \in 1 .. n : i < j /\ j <= k => <<items[i], items[j]>> \in R}
    <2>1. \A i \in 1 .. n - 1 : <<items[i], items[i + 1]>> \in R
        BY <1>2, <1>5
    <2>2. 0 \in P
        OBVIOUS
    <2>3. ASSUME NEW k \in Nat, k \in P PROVE k + 1 \in P
        <3> SUFFICES ASSUME NEW i \in 1 .. n, NEW j \in 1 .. n, i < j, j <= k + 1
                     PROVE  <<items[i], items[j]>> \in R
            OBVIOUS
        <3>1. CASE j <= k
            BY <2>3, <3>1
        <3>2. CASE j = k + 1 /\ i = k
            <4>1. i \in 1 .. n - 1
                BY <1>1, <3>2
            <4> QED BY <2>1, <3>2, <4>1
        <3>3. CASE j = k + 1 /\ i < k
            <4>1. k \in 1 .. n /\ k \in 1 .. n - 1
                BY <1>1, <3>3
            <4>2. <<items[i], items[k]>> \in R
                BY <2>3, <3>3, <4>1
            <4>3. <<items[k], items[k + 1]>> \in R
                BY <2>1, <4>1
            <4>4. items[i] \in S /\ items[k] \in S /\ items[j] \in S
                BY <1>1, <4>1
            <4> QED BY <3>3, <4>2, <4>3, <4>4 DEF Order
        <3> QED BY <3>1, <3>2, <3>3
    <2>4. \A k \in Nat : k \in P
        <3> HIDE DEF P
        <3> QED BY <2>2, <2>3, OverNat
    <2>5. n \in P
        BY <1>1, <2>4
    <2> QED BY <1>1, <2>5
<1>6. ASSUME \A i \in 1 .. n, j \in 1 .. n : i < j => <<items[i], items[j]>> \in R,
             NEW pair \in Pairs(items)
      PROVE  pair \in R
    <2>1. PICK x \in {y \in (1 .. n) \X (1 .. n) : y[1] < y[2]} : pair = <<items[x[1]], items[x[2]]>>
        BY <1>3
    <2>2. x[1] \in 1 .. n /\ x[2] \in 1 .. n /\ x[1] < x[2]
        OBVIOUS
    <2> QED BY <1>6, <2>1, <2>2
<1>7. ASSUME \A pair \in Pairs(items) : pair \in R PROVE \A pair \in Neighbours(items) : pair \in R
    BY <1>2, <1>4, <1>7
<1> QED BY <1>5, <1>6, <1>7

\* Items that ascend are known from their set.
LEMMA AscendingOnce ==
    ASSUME NEW S, NEW R, Order(R, S), NEW a \in Seq(S), NEW b \in Seq(S),
           \A pair \in Pairs(a) : pair \in R, \A pair \in Pairs(b) : pair \in R, ToSet(a) = ToSet(b)
    PROVE  a = b
<1>1. ASSUME NEW s \in Seq(S), \A pair \in Pairs(s) : pair \in R, NEW i \in 1 .. Len(s), NEW j \in 1 .. Len(s), i < j
      PROVE  <<s[i], s[j]>> \in R
    <2>1. <<i, j>> \in {y \in (DOMAIN s) \X (DOMAIN s) : y[1] < y[2]}
        BY <1>1
    <2>2. <<s[<<i, j>>[1]], s[<<i, j>>[2]]>> \in Pairs(s)
        BY <2>1, Zenon DEF Pairs
    <2>3. <<s[i], s[j]>> \in Pairs(s)
        BY <2>2
    <2> QED BY <1>1, <2>3
<1>2. ASSUME NEW s \in Seq(S), NEW t \in Seq(S), ToSet(s) = ToSet(t), NEW i \in 1 .. Len(s)
      PROVE  \E k \in 1 .. Len(t) : t[k] = s[i]
    <2>1. ToSet(s) = {s[k] : k \in 1 .. Len(s)} /\ ToSet(t) = {t[k] : k \in 1 .. Len(t)}
        BY DEF ToSet
    <2>2. s[i] \in {t[k] : k \in 1 .. Len(t)}
        BY <1>2, <2>1
    <2> QED BY <2>2
<1> DEFINE m == Len(a)
           n == Len(b)
           P == {k \in Nat : \A i \in 1 .. k : i <= m /\ i <= n => a[i] = b[i]}
<1>3. /\ m \in Nat /\ n \in Nat
      /\ \A i \in 1 .. m : a[i] \in S /\ \E k \in 1 .. n : b[k] = a[i]
      /\ \A i \in 1 .. n : b[i] \in S /\ \E k \in 1 .. m : a[k] = b[i]
      /\ \A i \in 1 .. m, j \in 1 .. m : i < j => <<a[i], a[j]>> \in R
      /\ \A i \in 1 .. n, j \in 1 .. n : i < j => <<b[i], b[j]>> \in R
    <2>1. m \in Nat /\ n \in Nat /\ (\A i \in 1 .. m : a[i] \in S) /\ (\A i \in 1 .. n : b[i] \in S)
        OBVIOUS
    <2>2. \A i \in 1 .. m : \E k \in 1 .. n : b[k] = a[i]
        BY <1>2
    <2>3. \A i \in 1 .. n : \E k \in 1 .. m : a[k] = b[i]
        BY <1>2
    <2>4. \A i \in 1 .. m, j \in 1 .. m : i < j => <<a[i], a[j]>> \in R
        BY <1>1
    <2>5. \A i \in 1 .. n, j \in 1 .. n : i < j => <<b[i], b[j]>> \in R
        BY <1>1
    <2> HIDE DEF m, n
    <2> QED BY <2>1, <2>2, <2>3, <2>4, <2>5
<1> HIDE DEF m, n
<1>4. 0 \in P
    OBVIOUS
<1>5. ASSUME NEW k \in Nat, k \in P PROVE k + 1 \in P
    <2> SUFFICES ASSUME k + 1 <= m, k + 1 <= n PROVE a[k + 1] = b[k + 1]
        BY <1>5
    <2> DEFINE i == k + 1
    <2>1. i \in 1 .. m /\ i \in 1 .. n /\ a[i] \in S /\ b[i] \in S
        BY <1>3
    <2>2. \A j \in Nat : j > 0 /\ j < i => a[j] = b[j]
        BY <1>3, <1>5
    <2> HIDE DEF i, P
    <2>3. PICK u \in 1 .. n : b[u] = a[i]
        BY <1>3, <2>1
    <2>4. PICK v \in 1 .. m : a[v] = b[i]
        BY <1>3, <2>1
    <2>5. ~(u < i)
        <3> SUFFICES ASSUME u < i PROVE FALSE
            OBVIOUS
        <3>1. u \in 1 .. m /\ a[u] = a[i]
            BY <1>3, <2>1, <2>2, <2>3
        <3>2. <<a[u], a[i]>> \in R
            BY <1>3, <2>1, <3>1
        <3> QED BY <2>1, <3>1, <3>2 DEF Order
    <2>6. ~(v < i)
        <3> SUFFICES ASSUME v < i PROVE FALSE
            OBVIOUS
        <3>1. v \in 1 .. n /\ b[v] = b[i]
            BY <1>3, <2>1, <2>2, <2>4
        <3>2. <<b[v], b[i]>> \in R
            BY <1>3, <2>1, <3>1
        <3> QED BY <2>1, <3>1, <3>2 DEF Order
    <2>7. CASE u = i \/ v = i
        BY <2>3, <2>4, <2>7 DEF i
    <2>8. CASE u # i /\ v # i
        <3>1. i < u /\ i < v
            BY <1>3, <2>1, <2>5, <2>6, <2>8
        <3>2. <<b[i], b[u]>> \in R /\ <<a[i], a[v]>> \in R
            BY <1>3, <2>1, <3>1
        <3>3. <<b[i], a[i]>> \in R /\ <<a[i], b[i]>> \in R
            BY <2>3, <2>4, <3>2
        <3> QED BY <2>1, <3>3 DEF Order
    <2> QED BY <2>7, <2>8
<1>6. \A k \in Nat : k \in P
    <2> HIDE DEF P
    <2> QED BY <1>4, <1>5, OverNat
<1>7. \A i \in Nat : 0 < i /\ i <= m /\ i <= n => a[i] = b[i]
    <2> SUFFICES ASSUME NEW i \in Nat, 0 < i, i <= m, i <= n PROVE a[i] = b[i]
        OBVIOUS
    <2>1. i \in P /\ i \in 1 .. i
        BY <1>6
    <2> QED BY <2>1
<1>8. ~(m < n)
    <2> SUFFICES ASSUME m < n PROVE FALSE
        OBVIOUS
    <2>1. m + 1 \in 1 .. n
        BY <1>3
    <2>2. PICK k \in 1 .. m : a[k] = b[m + 1]
        BY <1>3, <2>1
    <2>3. k \in 1 .. n /\ k < m + 1 /\ a[k] = b[k]
        BY <1>3, <1>7
    <2>4. <<b[k], b[m + 1]>> \in R /\ b[k] \in S
        BY <1>3, <2>1, <2>3
    <2> QED BY <2>2, <2>3, <2>4 DEF Order
<1>9. ~(n < m)
    <2> SUFFICES ASSUME n < m PROVE FALSE
        OBVIOUS
    <2>1. n + 1 \in 1 .. m
        BY <1>3
    <2>2. PICK k \in 1 .. n : b[k] = a[n + 1]
        BY <1>3, <2>1
    <2>3. k \in 1 .. m /\ k < n + 1 /\ a[k] = b[k]
        BY <1>3, <1>7
    <2>4. <<a[k], a[n + 1]>> \in R /\ a[k] \in S
        BY <1>3, <2>1, <2>3
    <2> QED BY <2>2, <2>3, <2>4 DEF Order
<1>10. m = n /\ \A i \in 1 .. m : a[i] = b[i]
    BY <1>3, <1>7, <1>8, <1>9
<1> QED BY <1>10, SeqEqual DEF m, n

\* Identifiers are in the order of numbers.
LEMMA IdsAscend ==
    /\ \A s \in Seq(Nat) :
         (\A pair \in Neighbours(s) : IdBelow(pair[1], pair[2]))
            <=> (\A pair \in Pairs(s) : IdBelow(pair[1], pair[2]))
    /\ \A s, t \in Seq(Nat) :
         /\ \A pair \in Pairs(s) : IdBelow(pair[1], pair[2])
         /\ \A pair \in Pairs(t) : IdBelow(pair[1], pair[2])
         /\ ToSet(s) = ToSet(t)
         => s = t
<1> DEFINE R == {p \in (Nat) \X (Nat) : IdBelow(p[1], p[2])}
<1>1. Order(R, Nat)
    BY DEF Order, IdBelow
<1>2. ASSUME NEW s \in Seq(Nat)
      PROVE  /\ \A p \in Neighbours(s) : p \in R <=> IdBelow(p[1], p[2])
             /\ \A p \in Pairs(s) : p \in R <=> IdBelow(p[1], p[2])
    <2>1. ASSUME NEW p \in Neighbours(s) PROVE p \in (Nat) \X (Nat)
        <3>1. PICK i \in 1 .. Len(s) - 1 : p = <<s[i], s[i + 1]>>
            BY DEF Neighbours
        <3>2. i \in 1 .. Len(s) /\ i + 1 \in 1 .. Len(s)
            OBVIOUS
        <3> QED BY <3>1, <3>2
    <2>2. ASSUME NEW p \in Pairs(s) PROVE p \in (Nat) \X (Nat)
        <3>1. PICK x \in {y \in (DOMAIN s) \X (DOMAIN s) : y[1] < y[2]} : p = <<s[x[1]], s[x[2]]>>
            BY DEF Pairs
        <3>2. x[1] \in 1 .. Len(s) /\ x[2] \in 1 .. Len(s)
            OBVIOUS
        <3> QED BY <3>1, <3>2
    <2> QED BY <2>1, <2>2
<1> HIDE DEF R
<1>3. ASSUME NEW s \in Seq(Nat)
      PROVE  (\A pair \in Neighbours(s) : IdBelow(pair[1], pair[2]))
                <=> (\A pair \in Pairs(s) : IdBelow(pair[1], pair[2]))
    <2> DEFINE S == Nat
    <2>1. Order(R, S) /\ s \in Seq(S)
        BY <1>1
    <2> HIDE DEF S
    <2>2. (\A pair \in Neighbours(s) : pair \in R) <=> (\A pair \in Pairs(s) : pair \in R)
        BY <2>1, NeighboursAscend
    <2> QED BY <1>2, <2>2
<1>4. ASSUME NEW s \in Seq(Nat), NEW t \in Seq(Nat), \A pair \in Pairs(s) : IdBelow(pair[1], pair[2]),
             \A pair \in Pairs(t) : IdBelow(pair[1], pair[2]), ToSet(s) = ToSet(t)
      PROVE  s = t
    <2> DEFINE S == Nat
    <2>1. Order(R, S) /\ s \in Seq(S) /\ t \in Seq(S)
        BY <1>1
    <2> HIDE DEF S
    <2>2. (\A pair \in Pairs(s) : pair \in R) /\ (\A pair \in Pairs(t) : pair \in R)
        BY <1>2, <1>4
    <2> QED BY <1>4, <2>1, <2>2, AscendingOnce
<1> QED BY <1>3, <1>4

\* Signatures are in the order of their seats.
LEMMA SeatsAscend ==
    /\ \A s \in Seq(SeatSignatures) :
         (\A pair \in Neighbours(s) : SeatBelow(pair[1], pair[2]))
            <=> (\A pair \in Pairs(s) : SeatBelow(pair[1], pair[2]))
    /\ \A s, t \in Seq(SeatSignatures) :
         /\ \A pair \in Pairs(s) : SeatBelow(pair[1], pair[2])
         /\ \A pair \in Pairs(t) : SeatBelow(pair[1], pair[2])
         /\ ToSet(s) = ToSet(t)
         => s = t
<1> DEFINE R == {p \in (SeatSignatures) \X (SeatSignatures) : SeatBelow(p[1], p[2])}
<1>1. Order(R, SeatSignatures)
    BY DEF Order, SeatBelow, SeatSignatures
<1>2. ASSUME NEW s \in Seq(SeatSignatures)
      PROVE  /\ \A p \in Neighbours(s) : p \in R <=> SeatBelow(p[1], p[2])
             /\ \A p \in Pairs(s) : p \in R <=> SeatBelow(p[1], p[2])
    <2>1. ASSUME NEW p \in Neighbours(s) PROVE p \in (SeatSignatures) \X (SeatSignatures)
        <3>1. PICK i \in 1 .. Len(s) - 1 : p = <<s[i], s[i + 1]>>
            BY DEF Neighbours
        <3>2. i \in 1 .. Len(s) /\ i + 1 \in 1 .. Len(s)
            OBVIOUS
        <3> QED BY <3>1, <3>2
    <2>2. ASSUME NEW p \in Pairs(s) PROVE p \in (SeatSignatures) \X (SeatSignatures)
        <3>1. PICK x \in {y \in (DOMAIN s) \X (DOMAIN s) : y[1] < y[2]} : p = <<s[x[1]], s[x[2]]>>
            BY DEF Pairs
        <3>2. x[1] \in 1 .. Len(s) /\ x[2] \in 1 .. Len(s)
            OBVIOUS
        <3> QED BY <3>1, <3>2
    <2> QED BY <2>1, <2>2
<1> HIDE DEF R
<1>3. ASSUME NEW s \in Seq(SeatSignatures)
      PROVE  (\A pair \in Neighbours(s) : SeatBelow(pair[1], pair[2]))
                <=> (\A pair \in Pairs(s) : SeatBelow(pair[1], pair[2]))
    <2> DEFINE S == SeatSignatures
    <2>1. Order(R, S) /\ s \in Seq(S)
        BY <1>1
    <2> HIDE DEF S
    <2>2. (\A pair \in Neighbours(s) : pair \in R) <=> (\A pair \in Pairs(s) : pair \in R)
        BY <2>1, NeighboursAscend
    <2> QED BY <1>2, <2>2
<1>4. ASSUME NEW s \in Seq(SeatSignatures), NEW t \in Seq(SeatSignatures), \A pair \in Pairs(s) : SeatBelow(pair[1], pair[2]),
             \A pair \in Pairs(t) : SeatBelow(pair[1], pair[2]), ToSet(s) = ToSet(t)
      PROVE  s = t
    <2> DEFINE S == SeatSignatures
    <2>1. Order(R, S) /\ s \in Seq(S) /\ t \in Seq(S)
        BY <1>1
    <2> HIDE DEF S
    <2>2. (\A pair \in Pairs(s) : pair \in R) /\ (\A pair \in Pairs(t) : pair \in R)
        BY <1>2, <1>4
    <2> QED BY <1>4, <2>1, <2>2, AscendingOnce
<1> QED BY <1>3, <1>4

\* Inputs are in the order of their references.
LEMMA InputsAscend ==
    /\ \A s \in Seq(TxIns) :
         (\A pair \in Neighbours(s) : RefBelow(pair[1], pair[2]))
            <=> (\A pair \in Pairs(s) : RefBelow(pair[1], pair[2]))
    /\ \A s, t \in Seq(TxIns) :
         /\ \A pair \in Pairs(s) : RefBelow(pair[1], pair[2])
         /\ \A pair \in Pairs(t) : RefBelow(pair[1], pair[2])
         /\ ToSet(s) = ToSet(t)
         => s = t
<1> DEFINE R == {p \in (TxIns) \X (TxIns) : RefBelow(p[1], p[2])}
<1>1. Order(R, TxIns)
    BY DEF Order, RefBelow, TxIns
<1>2. ASSUME NEW s \in Seq(TxIns)
      PROVE  /\ \A p \in Neighbours(s) : p \in R <=> RefBelow(p[1], p[2])
             /\ \A p \in Pairs(s) : p \in R <=> RefBelow(p[1], p[2])
    <2>1. ASSUME NEW p \in Neighbours(s) PROVE p \in (TxIns) \X (TxIns)
        <3>1. PICK i \in 1 .. Len(s) - 1 : p = <<s[i], s[i + 1]>>
            BY DEF Neighbours
        <3>2. i \in 1 .. Len(s) /\ i + 1 \in 1 .. Len(s)
            OBVIOUS
        <3> QED BY <3>1, <3>2
    <2>2. ASSUME NEW p \in Pairs(s) PROVE p \in (TxIns) \X (TxIns)
        <3>1. PICK x \in {y \in (DOMAIN s) \X (DOMAIN s) : y[1] < y[2]} : p = <<s[x[1]], s[x[2]]>>
            BY DEF Pairs
        <3>2. x[1] \in 1 .. Len(s) /\ x[2] \in 1 .. Len(s)
            OBVIOUS
        <3> QED BY <3>1, <3>2
    <2> QED BY <2>1, <2>2
<1> HIDE DEF R
<1>3. ASSUME NEW s \in Seq(TxIns)
      PROVE  (\A pair \in Neighbours(s) : RefBelow(pair[1], pair[2]))
                <=> (\A pair \in Pairs(s) : RefBelow(pair[1], pair[2]))
    <2> DEFINE S == TxIns
    <2>1. Order(R, S) /\ s \in Seq(S)
        BY <1>1
    <2> HIDE DEF S
    <2>2. (\A pair \in Neighbours(s) : pair \in R) <=> (\A pair \in Pairs(s) : pair \in R)
        BY <2>1, NeighboursAscend
    <2> QED BY <1>2, <2>2
<1>4. ASSUME NEW s \in Seq(TxIns), NEW t \in Seq(TxIns), \A pair \in Pairs(s) : RefBelow(pair[1], pair[2]),
             \A pair \in Pairs(t) : RefBelow(pair[1], pair[2]), ToSet(s) = ToSet(t)
      PROVE  s = t
    <2> DEFINE S == TxIns
    <2>1. Order(R, S) /\ s \in Seq(S) /\ t \in Seq(S)
        BY <1>1
    <2> HIDE DEF S
    <2>2. (\A pair \in Pairs(s) : pair \in R) /\ (\A pair \in Pairs(t) : pair \in R)
        BY <1>2, <1>4
    <2> QED BY <1>4, <2>1, <2>2, AscendingOnce
<1> QED BY <1>3, <1>4

----------------------------------------------------------------------------
(* The containers: what a reader takes is what the writer writes.          *)

\* Fields written one by one after a part are written together.
Joins(p, a, b, c, d, e) ==
    /\ (((p \o <<a>>) \o <<b>>) \o <<c>>) \o <<d>> = p \o <<a, b, c, d>>
    /\ ((((p \o <<a>>) \o <<b>>) \o <<c>>) \o <<d>>) \o <<e>> = p \o <<a, b, c, d, e>>

\* They are, whatever the fields.
LEMMA TailJoined ==
    ASSUME NEW p \in Seq(Nat), NEW a \in Nat, NEW b \in Nat, NEW c \in Nat, NEW d \in Nat, NEW e \in Nat
    PROVE  Joins(p, a, b, c, d, e)
<1>1. /\ <<a>> \in Seq(Nat) /\ <<b>> \in Seq(Nat) /\ <<c>> \in Seq(Nat) /\ <<d>> \in Seq(Nat)
      /\ <<e>> \in Seq(Nat) /\ <<a, b>> \in Seq(Nat) /\ <<a, b, c>> \in Seq(Nat)
      /\ <<a, b, c, d>> \in Seq(Nat)
    OBVIOUS
<1>2. <<a>> \o <<b>> = <<a, b>> /\ <<a, b>> \o <<c>> = <<a, b, c>> /\ <<a, b, c>> \o <<d>> = <<a, b, c, d>>
    BY FieldsJoined
<1>3. <<a, b, c, d>> \o <<e>> = <<a, b, c, d, e>>
    <2> DEFINE s == <<a, b, c, d>>
               u == <<a, b, c, d, e>>
               n == 4
    <2>1. s \in Seq(Nat) /\ u \in Seq(Nat) /\ n \in Nat /\ Len(s) = n /\ Len(u) = n + 1 /\ u[n + 1] = e
        OBVIOUS
    <2>2. \A i \in 1 .. n : s[i] = u[i]
        <3>1. s[1] = u[1] /\ s[2] = u[2] /\ s[3] = u[3] /\ s[4] = u[4]
              /\ \A i \in 1 .. n : i = 1 \/ i = 2 \/ i = 3 \/ i = 4
            OBVIOUS
        <3> HIDE DEF s, u, n
        <3> QED BY <3>1
    <2> HIDE DEF s, u, n
    <2>3. s \o <<e>> = u
        BY <2>1, <2>2, OneMore
    <2> QED BY <2>3 DEF s, u
<1>4. ASSUME NEW x \in Seq(Nat), NEW y \in Seq(Nat) PROVE (p \o x) \o y = p \o (x \o y)
    BY ConcatAssociative
<1> DEFINE ta == <<a>>
           tb == <<b>>
           tc == <<c>>
           td == <<d>>
           te == <<e>>
           ab == <<a, b>>
           abc == <<a, b, c>>
           abcd == <<a, b, c, d>>
           abcde == <<a, b, c, d, e>>
<1>5. /\ ta \in Seq(Nat) /\ tb \in Seq(Nat) /\ tc \in Seq(Nat) /\ td \in Seq(Nat) /\ te \in Seq(Nat)
      /\ ab \in Seq(Nat) /\ abc \in Seq(Nat) /\ abcd \in Seq(Nat)
      /\ ta \o tb = ab /\ ab \o tc = abc /\ abc \o td = abcd /\ abcd \o te = abcde
    BY <1>1, <1>2, <1>3
<1> HIDE DEF ta, tb, tc, td, te, ab, abc, abcd, abcde
<1>6. (p \o ta) \o tb = p \o ab
    BY <1>4, <1>5
<1>7. (p \o ab) \o tc = p \o abc
    BY <1>4, <1>5
<1>8. (p \o abc) \o td = p \o abcd
    BY <1>4, <1>5
<1>9. (p \o abcd) \o te = p \o abcde
    BY <1>4, <1>5
<1>10. (((p \o ta) \o tb) \o tc) \o td = p \o abcd
    BY <1>6, <1>7, <1>8
<1>11. ((((p \o ta) \o tb) \o tc) \o td) \o te = p \o abcde
    BY <1>9, <1>10
<1> QED BY <1>10, <1>11 DEF ta, tb, tc, td, te, abcd, abcde, Joins

\* A reader of nothing but fields holds what it has read.
LEMMA FlatHas ==
    ASSUME NEW word \in Seq(Nat), NEW r, NEW a, Has(r, word, a, a), NEW S
    PROVE  /\ ReadField(r).ok =>
                \E value \in Nat : Has(ReadField(r), word, a \o <<value>>, a \o <<value>>)
           /\ \A value \in Nat : Stands(word, 0, a \o <<value>>) =>
                Has(ReadField(r), word, a \o <<value>>, a \o <<value>>)
           /\ ReadFieldIn(r, S).ok =>
                \E value \in Nat \cap S :
                    Has(ReadFieldIn(r, S), word, a \o <<value>>, a \o <<value>>)
           /\ \A value \in Nat \cap S : Stands(word, 0, a \o <<value>>) =>
                Has(ReadFieldIn(r, S), word, a \o <<value>>, a \o <<value>>)
<1>1. a \in Seq(Nat)
    BY DEF Has
<1>2. \A value \in Nat : Append(a, value) = a \o <<value>>
    BY <1>1, AppendIsConcat
<1>3. /\ ReadField(r).ok =>
           \E value \in Nat : Has(ReadField(r), word, a \o <<value>>, Append(a, value))
      /\ \A value \in Nat : Stands(word, 0, a \o <<value>>) =>
           Has(ReadField(r), word, a \o <<value>>, Append(a, value))
      /\ ReadFieldIn(r, S).ok =>
           \E value \in Nat \cap S :
               Has(ReadFieldIn(r, S), word, a \o <<value>>, Append(a, value))
      /\ \A value \in Nat \cap S : Stands(word, 0, a \o <<value>>) =>
           Has(ReadFieldIn(r, S), word, a \o <<value>>, Append(a, value))
    BY FieldHas
<1> QED BY <1>2, <1>3

\* Whatever stands longer stands shorter.
LEMMA StandsShorter ==
    ASSUME NEW word \in Seq(Nat), NEW a \in Seq(Nat), NEW b \in Seq(Nat), Stands(word, 0, a \o b)
    PROVE  Stands(word, 0, a)
<1>1. 0 \in Nat
    OBVIOUS
<1> QED BY <1>1, StandsJoined

\* A message, wherever it begins.
LEMMA MessageRuns ==
    ASSUME NEW word \in Seq(Nat), NEW r, Runs(r, word)
    PROVE  Runs(ReadMessage(r), word) /\ (ReadMessage(r).ok => r.ok)
<1> DEFINE r1 == ReadFieldIn(r, {Version1})
           r2 == ReadFieldIn(r1, Nat \ {0})
           r3 == ReadFieldIn(r2, Nat \ {0})
           r4 == ReadFieldIn(r3, Nat \ {0})
<1>1. Runs(r1, word) /\ (r1.ok => r.ok)
    BY FieldReadsIn
<1> HIDE DEF r1
<1>2. Runs(r2, word) /\ (r2.ok => r1.ok)
    BY <1>1, FieldReadsIn
<1> HIDE DEF r2
<1>3. Runs(r3, word) /\ (r3.ok => r2.ok)
    BY <1>2, FieldReadsIn
<1> HIDE DEF r3
<1>4. Runs(r4, word) /\ (r4.ok => r3.ok)
    BY <1>3, FieldReadsIn
<1> HIDE DEF r4
<1>5. Runs(ReadField(r4), word) /\ (ReadField(r4).ok => r4.ok)
    BY <1>4, FieldReads
<1>6. ReadMessage(r) = ReadField(r4)
    BY DEF ReadMessage, r4, r3, r2, r1
<1> QED BY <1>1, <1>2, <1>3, <1>4, <1>5, <1>6

\* The message of a checkpoint or an evidence is read as it was written.
LEMMA MessageHas ==
    ASSUME NEW word \in Seq(Nat), NEW r, NEW a, Has(r, word, a, a)
    PROVE  /\ ReadMessage(r).ok =>
                \E m \in Messages : /\ MessageInForm(m)
                                    /\ Has(ReadMessage(r), word, a \o EncodeMessage(m), a \o EncodeMessage(m))
           /\ \A m \in Messages :
                MessageInForm(m) /\ Stands(word, 0, a \o EncodeMessage(m))
                => Has(ReadMessage(r), word, a \o EncodeMessage(m), a \o EncodeMessage(m))
<1> DEFINE r1 == ReadFieldIn(r, {Version1})
           r2 == ReadFieldIn(r1, Nat \ {0})
           r3 == ReadFieldIn(r2, Nat \ {0})
           r4 == ReadFieldIn(r3, Nat \ {0})
           r5 == ReadField(r4)
<1>1. ReadMessage(r) = r5
    BY DEF ReadMessage
<1>2. Runs(r, word) /\ a \in Seq(Nat)
    BY DEF Has
<1>3. /\ Runs(r1, word) /\ (r1.ok => r.ok) /\ Runs(r2, word) /\ (r2.ok => r1.ok)
      /\ Runs(r3, word) /\ (r3.ok => r2.ok) /\ Runs(r4, word) /\ (r4.ok => r3.ok)
      /\ (r5.ok => r4.ok)
    <2>1. Runs(r1, word) /\ (r1.ok => r.ok)
        BY <1>2, FieldReadsIn
    <2> HIDE DEF r1
    <2>2. Runs(r2, word) /\ (r2.ok => r1.ok)
        BY <2>1, FieldReadsIn
    <2> HIDE DEF r2
    <2>3. Runs(r3, word) /\ (r3.ok => r2.ok)
        BY <2>2, FieldReadsIn
    <2> HIDE DEF r3
    <2>4. Runs(r4, word) /\ (r4.ok => r3.ok)
        BY <2>3, FieldReadsIn
    <2> HIDE DEF r4
    <2>5. r5.ok => r4.ok
        BY <2>4, FieldReads
    <2> QED BY <2>1, <2>2, <2>3, <2>4, <2>5
<1>4. ASSUME r5.ok
      PROVE  \E m \in Messages : MessageInForm(m) /\ Has(r5, word, a \o EncodeMessage(m), a \o EncodeMessage(m))
    <2> HIDE DEF r1, r2, r3, r4, r5
    <2>1. PICK v1 \in Nat \cap {Version1} : Has(r1, word, a \o <<v1>>, a \o <<v1>>)
        BY <1>3, <1>4, FlatHas DEF r1
    <2> DEFINE a1 == a \o <<v1>>
    <2>a. Has(r1, word, a1, a1)
        BY <2>1
    <2> HIDE DEF a1
    <2>2. PICK v2 \in Nat \cap (Nat \ {0}) : Has(r2, word, a1 \o <<v2>>, a1 \o <<v2>>)
        BY <1>3, <1>4, <2>a, FlatHas DEF r2
    <2> DEFINE a2 == a1 \o <<v2>>
    <2>b. Has(r2, word, a2, a2)
        BY <2>2
    <2> HIDE DEF a2
    <2>3. PICK v3 \in Nat \cap (Nat \ {0}) : Has(r3, word, a2 \o <<v3>>, a2 \o <<v3>>)
        BY <1>3, <1>4, <2>b, FlatHas DEF r3
    <2> DEFINE a3 == a2 \o <<v3>>
    <2>c. Has(r3, word, a3, a3)
        BY <2>3
    <2> HIDE DEF a3
    <2>4. PICK v4 \in Nat \cap (Nat \ {0}) : Has(r4, word, a3 \o <<v4>>, a3 \o <<v4>>)
        BY <1>3, <1>4, <2>c, FlatHas DEF r4
    <2> DEFINE a4 == a3 \o <<v4>>
    <2>d. Has(r4, word, a4, a4)
        BY <2>4
    <2> HIDE DEF a4
    <2>5. PICK v5 \in Nat : Has(r5, word, a4 \o <<v5>>, a4 \o <<v5>>)
        BY <1>3, <1>4, <2>d, FlatHas DEF r5
    <2> DEFINE m == [era |-> v2, sequence |-> v3, tip |-> v4, orderRoot |-> v5]
    <2>6. m \in Messages /\ MessageInForm(m)
        BY DEF Messages, MessageInForm
    <2>7. EncodeMessage(m) = <<v1, v2, v3, v4, v5>>
        BY <2>1 DEF EncodeMessage
    <2>8. a4 \o <<v5>> = a \o <<v1, v2, v3, v4, v5>>
        <3>1. v1 \in Nat /\ v2 \in Nat /\ v3 \in Nat /\ v4 \in Nat /\ v5 \in Nat
            OBVIOUS
        <3>2. Joins(a, v1, v2, v3, v4, v5)
            BY <1>2, <3>1, TailJoined
        <3> QED BY <3>2 DEF a4, a3, a2, a1, Joins
    <2>9. Has(r5, word, a \o EncodeMessage(m), a \o EncodeMessage(m))
        BY <2>5, <2>7, <2>8
    <2> HIDE DEF m
    <2> QED BY <2>6, <2>9
<1>5. ASSUME NEW m \in Messages, MessageInForm(m), Stands(word, 0, a \o EncodeMessage(m))
      PROVE  Has(r5, word, a \o EncodeMessage(m), a \o EncodeMessage(m))
    <2> DEFINE v1 == Version1
               v2 == m.era
               v3 == m.sequence
               v4 == m.tip
               v5 == m.orderRoot
               a1 == a \o <<v1>>
               a2 == a1 \o <<v2>>
               a3 == a2 \o <<v3>>
               a4 == a3 \o <<v4>>
               a5 == a4 \o <<v5>>
    <2>1. /\ v1 \in Nat \cap {Version1} /\ v2 \in Nat \cap (Nat \ {0}) /\ v3 \in Nat \cap (Nat \ {0})
          /\ v4 \in Nat \cap (Nat \ {0}) /\ v5 \in Nat /\ v1 \in Nat
        BY <1>5 DEF Messages, MessageInForm, Version1
    <2>2. EncodeMessage(m) = <<v1, v2, v3, v4, v5>>
        BY DEF EncodeMessage
    <2> HIDE DEF v1, v2, v3, v4, v5, r1, r2, r3, r4, r5
    <2>3. a5 = a \o EncodeMessage(m)
        <3>1. v1 \in Nat /\ v2 \in Nat /\ v3 \in Nat /\ v4 \in Nat /\ v5 \in Nat
            BY <2>1
        <3>2. Joins(a, v1, v2, v3, v4, v5)
            BY <1>2, <3>1, TailJoined
        <3> QED BY <2>2, <3>2 DEF Joins
    <2>4. /\ <<v1>> \in Seq(Nat) /\ <<v2>> \in Seq(Nat) /\ <<v3>> \in Seq(Nat) /\ <<v4>> \in Seq(Nat)
          /\ <<v5>> \in Seq(Nat)
        BY <2>1
    <2>5. a1 \in Seq(Nat) /\ a2 \in Seq(Nat) /\ a3 \in Seq(Nat) /\ a4 \in Seq(Nat)
        BY <1>2, <2>4, ConcatProperties
    <2>6. Stands(word, 0, a5)
        BY <1>5, <2>3
    <2>7. Stands(word, 0, a4)
        BY <2>4, <2>5, <2>6, StandsShorter
    <2>8. Stands(word, 0, a3)
        BY <2>4, <2>5, <2>7, StandsShorter
    <2>9. Stands(word, 0, a2)
        BY <2>4, <2>5, <2>8, StandsShorter
    <2>10. Stands(word, 0, a1)
        BY <2>4, <2>5, <2>9, StandsShorter
    <2>11. Has(r1, word, a1, a1)
        BY <2>1, <2>10, FlatHas DEF r1
    <2> HIDE DEF a1
    <2>12. Has(r2, word, a2, a2)
        BY <2>1, <2>9, <2>11, FlatHas DEF r2
    <2> HIDE DEF a2
    <2>13. Has(r3, word, a3, a3)
        BY <2>1, <2>8, <2>12, FlatHas DEF r3
    <2> HIDE DEF a3
    <2>14. Has(r4, word, a4, a4)
        BY <2>1, <2>7, <2>13, FlatHas DEF r4
    <2> HIDE DEF a4
    <2>15. Has(r5, word, a5, a5)
        BY <2>1, <2>6, <2>14, FlatHas DEF r5
    <2> QED BY <2>3, <2>15
<1> HIDE DEF r5
<1> QED BY <1>1, <1>4, <1>5

\* Keccak-256 as the model takes it: a field for every word, another for another.
DigestIsIdeal ==
    /\ \A word \in Seq(Nat) : Digest(word) \in Nat
    /\ \A v, w \in Seq(Nat) : Digest(v) = Digest(w) => v = w

\* A reader of a kind: what it takes from a word has the form and is written
\* as that word, and it takes every word written from what has the form.
Canonical(kind, word) ==
    /\ Decode(kind, word).ok =>
         /\ Decode(kind, word).val \in ValuesOf(kind)
         /\ InForm(kind, Decode(kind, word).val)
         /\ Encode(kind, Decode(kind, word).val) = word
    /\ \A value \in ValuesOf(kind) :
         InForm(kind, value) /\ Encode(kind, value) = word => Decode(kind, word).ok

\* The authority of a spend.
LEMMA AuthorityCanonical ==
    ASSUME NEW word \in Seq(Nat), DigestIsIdeal
    PROVE  Canonical("authority", word)
<1> DEFINE r1 == ReadField(Open(word))
           r2 == ReadField(r1)
           r3 == Finish(r2)
<1>1. /\ Decode("authority", word) = AuthorityFrom(r3)
      /\ ValuesOf("authority") = Nat /\ \A v : InForm("authority", v) /\ Encode("authority", v) = <<v, Pad(v)>>
    BY DEF Decode, WellFormedAuthority, ValuesOf, InForm, Encode, EncodeAuthority
<1>2. Has(Open(word), word, <<>>, <<>>)
    BY OpenHas
<1>3. Runs(r1, word) /\ Runs(r2, word) /\ (r3.ok => r2.ok) /\ (r2.ok => r1.ok)
    <2>1. Runs(r1, word)
        BY <1>2, FieldReads DEF Has
    <2> HIDE DEF r1
    <2>2. Runs(r2, word) /\ (r2.ok => r1.ok)
        BY <2>1, FieldReads
    <2> HIDE DEF r2
    <2>3. (Remaining(r2) = 0) \in BOOLEAN
        OBVIOUS
    <2>4. r3.ok => r2.ok
        BY <2>2, <2>3, RequireRuns DEF Finish
    <2> QED BY <2>1, <2>2, <2>4
<1>4. AuthorityFrom(r3).ok <=> r3.ok /\ r3.vals[2] = Pad(r3.vals[1])
    <2> HIDE DEF r3
    <2> QED BY DEF AuthorityFrom
<1>5. AuthorityFrom(r3).val = r3.vals[1]
    <2> HIDE DEF r3
    <2> QED BY DEF AuthorityFrom
<1> HIDE DEF r1, r2, r3
<1>6. ASSUME AuthorityFrom(r3).ok
      PROVE  AuthorityFrom(r3).val \in Nat /\ <<AuthorityFrom(r3).val, Pad(AuthorityFrom(r3).val)>> = word
    <2>1. PICK v1 \in Nat : Has(r1, word, <<>> \o <<v1>>, <<>> \o <<v1>>)
        BY <1>2, <1>3, <1>4, <1>6, FlatHas DEF r1
    <2>2. <<>> \o <<v1>> = <<v1>>
        BY FieldsJoined
    <2> DEFINE a1 == <<v1>>
    <2>3. Has(r1, word, a1, a1)
        BY <2>1, <2>2
    <2> HIDE DEF a1
    <2>4. PICK v2 \in Nat : Has(r2, word, a1 \o <<v2>>, a1 \o <<v2>>)
        BY <1>3, <1>4, <1>6, <2>3, FlatHas DEF r2
    <2>5. a1 \o <<v2>> = <<v1, v2>>
        BY FieldsJoined DEF a1
    <2>6. Has(r2, word, <<v1, v2>>, <<v1, v2>>)
        BY <2>4, <2>5
    <2>7. <<v1, v2>> = word /\ r3 = r2
        BY <1>4, <1>6, <2>6, FinishHas DEF r3
    <2>8. r3.vals = <<v1, v2>>
        BY <2>6, <2>7 DEF Has
    <2> QED BY <1>4, <1>5, <1>6, <2>7, <2>8
<1>7. ASSUME NEW v1 \in Nat, <<v1, Pad(v1)>> = word
      PROVE  AuthorityFrom(r3).ok
    <2> DEFINE v2 == Pad(v1)
               a1 == <<v1>>
               a2 == <<v1, v2>>
    <2>1. v2 \in Nat
        <3>1. <<0, v1>> \in Seq(Nat)
            OBVIOUS
        <3> QED BY <3>1 DEF Pad, DigestIsIdeal
    <2>2. a2 = word
        BY <1>7
    <2> HIDE DEF v2
    <2>3. <<>> \o <<v1>> = a1 /\ a1 \o <<v2>> = a2 /\ a1 \in Seq(Nat) /\ a2 \in Seq(Nat) /\ <<v2>> \in Seq(Nat)
        <3>1. <<>> \o <<v1>> = <<v1>> /\ <<v1>> \o <<v2>> = <<v1, v2>>
            BY <2>1, FieldsJoined
        <3> QED BY <2>1, <3>1
    <2>4. a2[1] = v1 /\ a2[2] = v2
        OBVIOUS
    <2> HIDE DEF a1, a2
    <2>5. Stands(word, 0, a2)
        BY <2>2, <2>3, StandsWhole
    <2>6. Stands(word, 0, a1)
        BY <2>3, <2>5, StandsShorter
    <2>7. Has(r1, word, a1, a1)
        <3>1. Has(r1, word, <<>> \o <<v1>>, <<>> \o <<v1>>)
            BY <1>2, <2>3, <2>6, FlatHas DEF r1
        <3> QED BY <2>3, <3>1
    <2>8. Has(r2, word, a2, a2)
        <3>1. Has(r2, word, a1 \o <<v2>>, a1 \o <<v2>>)
            BY <2>1, <2>3, <2>5, <2>7, FlatHas DEF r2
        <3> QED BY <2>3, <3>1
    <2>9. r3.ok /\ r3 = r2
        BY <2>2, <2>8, FinishHas DEF r3
    <2>10. r3.vals = a2
        BY <2>8, <2>9 DEF Has
    <2> QED BY <1>4, <2>4, <2>9, <2>10 DEF v2
<1> QED BY <1>1, <1>6, <1>7 DEF Canonical

\* The first field of a word.
LEMMA FirstHas ==
    ASSUME NEW word \in Seq(Nat), NEW S
    PROVE  /\ Runs(ReadField(Open(word)), word) /\ Runs(ReadFieldIn(Open(word), S), word)
           /\ ReadField(Open(word)).ok =>
                \E value \in Nat : Has(ReadField(Open(word)), word, <<value>>, <<value>>)
           /\ \A value \in Nat : Stands(word, 0, <<value>>) =>
                Has(ReadField(Open(word)), word, <<value>>, <<value>>)
           /\ ReadFieldIn(Open(word), S).ok =>
                \E value \in Nat \cap S :
                    Has(ReadFieldIn(Open(word), S), word, <<value>>, <<value>>)
           /\ \A value \in Nat \cap S : Stands(word, 0, <<value>>) =>
                Has(ReadFieldIn(Open(word), S), word, <<value>>, <<value>>)
<1> DEFINE r == Open(word)
           e == <<>>
<1>1. Has(r, word, e, e) /\ Runs(r, word)
    BY OpenHas DEF Has
<1>2. \A value \in Nat : e \o <<value>> = <<value>>
    BY FieldsJoined
<1> HIDE DEF r, e
<1>3. Runs(ReadField(r), word) /\ Runs(ReadFieldIn(r, S), word)
    BY <1>1, FieldReads, FieldReadsIn
<1>4. /\ ReadField(r).ok =>
           \E value \in Nat : Has(ReadField(r), word, e \o <<value>>, e \o <<value>>)
      /\ \A value \in Nat : Stands(word, 0, e \o <<value>>) =>
           Has(ReadField(r), word, e \o <<value>>, e \o <<value>>)
      /\ ReadFieldIn(r, S).ok =>
           \E value \in Nat \cap S :
               Has(ReadFieldIn(r, S), word, e \o <<value>>, e \o <<value>>)
      /\ \A value \in Nat \cap S : Stands(word, 0, e \o <<value>>) =>
           Has(ReadFieldIn(r, S), word, e \o <<value>>, e \o <<value>>)
    BY <1>1, FlatHas
<1> QED BY <1>2, <1>3, <1>4 DEF r

\* A reader that finishes was one that had not refused.
LEMMA FinishRuns ==
    ASSUME NEW word, NEW r, Runs(r, word)
    PROVE  Finish(r).ok => r.ok
<1>1. (Remaining(r) = 0) \in BOOLEAN
    OBVIOUS
<1> QED BY <1>1, RequireRuns DEF Finish

\* Where the fields of a message and of an evidence are.
LEMMA MessageWord ==
    ASSUME NEW m \in Messages
    PROVE  /\ EncodeMessage(m) \in Seq(Nat) /\ Len(EncodeMessage(m)) = 5
           /\ EncodeMessage(m)[2] = m.era /\ EncodeMessage(m)[3] = m.sequence
           /\ EncodeMessage(m)[4] = m.tip /\ EncodeMessage(m)[5] = m.orderRoot
BY DEF EncodeMessage, Messages, Version1

\* A message is known from its four fields.
LEMMA MessageIs ==
    ASSUME NEW m \in Messages, NEW word, NEW at,
           word[at + 1] = m.era, word[at + 2] = m.sequence, word[at + 3] = m.tip, word[at + 4] = m.orderRoot
    PROVE  MessageAt(word, at) = m
BY DEF MessageAt, Messages

\* An evidence is known from its word.
LEMMA EvidenceWord ==
    ASSUME NEW e \in EvidenceValues
    PROVE  /\ EncodeEvidence(e) \in Seq(Nat)
           /\ EncodeEvidence(e)[1] = e.seat /\ MessageAt(EncodeEvidence(e), 2) = e.first
           /\ EncodeEvidence(e)[7] = e.firstSignature /\ MessageAt(EncodeEvidence(e), 8) = e.second
           /\ EncodeEvidence(e)[13] = e.secondSignature
<1> DEFINE f1 == <<e.seat>>
           f2 == EncodeMessage(e.first)
           f3 == <<e.firstSignature>>
           f4 == EncodeMessage(e.second)
           f5 == <<e.secondSignature>>
           w2 == f1 \o f2
           w3 == w2 \o f3
           w4 == w3 \o f4
           w5 == w4 \o f5
<1>1. /\ e.seat \in Nat /\ e.first \in Messages /\ e.firstSignature \in Nat
      /\ e.second \in Messages /\ e.secondSignature \in Nat
    BY DEF EvidenceValues
<1>2. /\ f1 \in Seq(Nat) /\ Len(f1) = 1 /\ f1[1] = e.seat
      /\ f3 \in Seq(Nat) /\ Len(f3) = 1 /\ f3[1] = e.firstSignature
      /\ f5 \in Seq(Nat) /\ Len(f5) = 1 /\ f5[1] = e.secondSignature
    BY <1>1
<1>3. /\ f2 \in Seq(Nat) /\ Len(f2) = 5 /\ f2[2] = e.first.era /\ f2[3] = e.first.sequence
      /\ f2[4] = e.first.tip /\ f2[5] = e.first.orderRoot
    BY <1>1, MessageWord
<1>4. /\ f4 \in Seq(Nat) /\ Len(f4) = 5 /\ f4[2] = e.second.era /\ f4[3] = e.second.sequence
      /\ f4[4] = e.second.tip /\ f4[5] = e.second.orderRoot
    BY <1>1, MessageWord
<1>5. EncodeEvidence(e) = w5
    BY DEF EncodeEvidence
<1> HIDE DEF f1, f2, f3, f4, f5
<1>6. /\ w2 \in Seq(Nat) /\ Len(w2) = 6 /\ w2[1] = e.seat /\ w2[3] = e.first.era /\ w2[4] = e.first.sequence
      /\ w2[5] = e.first.tip /\ w2[6] = e.first.orderRoot
    <2>1. /\ w2 \in Seq(Nat) /\ Len(w2) = Len(f1) + Len(f2)
          /\ \A i \in 1 .. Len(f1) + Len(f2) : w2[i] = IF i <= Len(f1) THEN f1[i] ELSE f2[i - Len(f1)]
        BY <1>2, <1>3, ConcatProperties
    <2> HIDE DEF w2
    <2>2. \A i \in 1 .. 6 : w2[i] = IF i <= 1 THEN f1[i] ELSE f2[i - 1]
        BY <1>2, <1>3, <2>1
    <2> QED BY <1>2, <1>3, <2>1, <2>2
<1> HIDE DEF w2
<1>7. /\ w3 \in Seq(Nat) /\ Len(w3) = 7 /\ w3[7] = e.firstSignature /\ \A i \in 1 .. 6 : w3[i] = w2[i]
    <2>1. /\ w3 \in Seq(Nat) /\ Len(w3) = Len(w2) + Len(f3)
          /\ \A i \in 1 .. Len(w2) + Len(f3) : w3[i] = IF i <= Len(w2) THEN w2[i] ELSE f3[i - Len(w2)]
        BY <1>2, <1>6, ConcatProperties
    <2> HIDE DEF w3
    <2> QED BY <1>2, <1>6, <2>1
<1> HIDE DEF w3
<1>8. /\ w4 \in Seq(Nat) /\ Len(w4) = 12 /\ w4[9] = e.second.era /\ w4[10] = e.second.sequence
      /\ w4[11] = e.second.tip /\ w4[12] = e.second.orderRoot /\ \A i \in 1 .. 7 : w4[i] = w3[i]
    <2>1. /\ w4 \in Seq(Nat) /\ Len(w4) = Len(w3) + Len(f4)
          /\ \A i \in 1 .. Len(w3) + Len(f4) : w4[i] = IF i <= Len(w3) THEN w3[i] ELSE f4[i - Len(w3)]
        BY <1>4, <1>7, ConcatProperties
    <2> HIDE DEF w4
    <2>2. \A i \in 1 .. 12 : w4[i] = IF i <= 7 THEN w3[i] ELSE f4[i - 7]
        BY <1>4, <1>7, <2>1
    <2> QED BY <1>4, <1>7, <2>1, <2>2
<1> HIDE DEF w4
<1>9. /\ w5 \in Seq(Nat) /\ Len(w5) = 13 /\ w5[13] = e.secondSignature /\ \A i \in 1 .. 12 : w5[i] = w4[i]
    <2>1. /\ w5 \in Seq(Nat) /\ Len(w5) = Len(w4) + Len(f5)
          /\ \A i \in 1 .. Len(w4) + Len(f5) : w5[i] = IF i <= Len(w4) THEN w4[i] ELSE f5[i - Len(w4)]
        BY <1>2, <1>8, ConcatProperties
    <2> HIDE DEF w5
    <2> QED BY <1>2, <1>8, <2>1
<1> HIDE DEF w5
<1>10. \A i \in 1 .. 6 : w5[i] = w2[i]
    BY <1>7, <1>8, <1>9
<1>11. w5[7] = e.firstSignature
    BY <1>7, <1>8, <1>9
<1>12. w5[1] = e.seat /\ w5[2 + 1] = e.first.era /\ w5[2 + 2] = e.first.sequence
       /\ w5[2 + 3] = e.first.tip /\ w5[2 + 4] = e.first.orderRoot
    BY <1>6, <1>10
<1>13. w5[8 + 1] = e.second.era /\ w5[8 + 2] = e.second.sequence
       /\ w5[8 + 3] = e.second.tip /\ w5[8 + 4] = e.second.orderRoot
    BY <1>8, <1>9
<1>14. MessageAt(w5, 2) = e.first
    BY <1>1, <1>12, MessageIs
<1>15. MessageAt(w5, 8) = e.second
    BY <1>1, <1>13, MessageIs
<1> QED BY <1>5, <1>9, <1>11, <1>12, <1>14, <1>15

\* An evidence, of two messages and two signatures.
LEMMA EvidenceCanonical ==
    ASSUME NEW word \in Seq(Nat)
    PROVE  Canonical("evidence", word)
<1> DEFINE r1 == ReadField(Open(word))
           r2 == ReadMessage(r1)
           r3 == ReadField(r2)
           r4 == ReadMessage(r3)
           r5 == ReadField(r4)
           r6 == Finish(r5)
<1>1. /\ Decode("evidence", word) = EvidenceFrom(r6) /\ ValuesOf("evidence") = EvidenceValues
      /\ \A e : /\ InForm("evidence", e) <=> EvidenceInForm(e)
                /\ Encode("evidence", e) = EncodeEvidence(e)
    BY DEF Decode, DecodeEvidence, ValuesOf, InForm, Encode
<1>2. /\ Runs(r1, word) /\ (r2.ok => r1.ok) /\ (r3.ok => r2.ok) /\ (r4.ok => r3.ok) /\ (r5.ok => r4.ok)
      /\ (r6.ok => r5.ok)
    <2>1. Runs(r1, word)
        BY FirstHas
    <2> HIDE DEF r1
    <2>2. Runs(r2, word) /\ (r2.ok => r1.ok)
        BY <2>1, MessageRuns
    <2> HIDE DEF r2
    <2>3. Runs(r3, word) /\ (r3.ok => r2.ok)
        BY <2>2, FieldReads
    <2> HIDE DEF r3
    <2>4. Runs(r4, word) /\ (r4.ok => r3.ok)
        BY <2>3, MessageRuns
    <2> HIDE DEF r4
    <2>5. Runs(r5, word) /\ (r5.ok => r4.ok)
        BY <2>4, FieldReads
    <2> HIDE DEF r5
    <2>6. r6.ok => r5.ok
        BY <2>5, FinishRuns
    <2> QED BY <2>1, <2>2, <2>3, <2>4, <2>5, <2>6
<1> HIDE DEF r6
<1>3. /\ EvidenceFrom(r6).ok <=> r6.ok
      /\ EvidenceFrom(r6).val = [seat |-> r6.vals[1],
              first |-> MessageAt(r6.vals, 2), firstSignature |-> r6.vals[7],
              second |-> MessageAt(r6.vals, 8), secondSignature |-> r6.vals[13]]
    BY DEF EvidenceFrom
<1> HIDE DEF r1, r2, r3, r4, r5
<1>4. ASSUME r6.ok
      PROVE  \E e \in EvidenceValues : EvidenceInForm(e) /\ EncodeEvidence(e) = word /\ EvidenceFrom(r6).val = e
    <2>1. PICK v1 \in Nat : Has(r1, word, <<v1>>, <<v1>>)
        BY <1>2, <1>4, FirstHas DEF r1
    <2> DEFINE a1 == <<v1>>
    <2>2. Has(r1, word, a1, a1)
        BY <2>1
    <2> HIDE DEF a1
    <2>3. PICK m \in Messages : MessageInForm(m) /\ Has(r2, word, a1 \o EncodeMessage(m), a1 \o EncodeMessage(m))
        BY <1>2, <1>4, <2>2, MessageHas DEF r2
    <2> DEFINE a2 == a1 \o EncodeMessage(m)
    <2>4. Has(r2, word, a2, a2)
        BY <2>3
    <2> HIDE DEF a2
    <2>5. PICK v3 \in Nat : Has(r3, word, a2 \o <<v3>>, a2 \o <<v3>>)
        BY <1>2, <1>4, <2>4, FlatHas DEF r3
    <2> DEFINE a3 == a2 \o <<v3>>
    <2>6. Has(r3, word, a3, a3)
        BY <2>5
    <2> HIDE DEF a3
    <2>7. PICK n \in Messages : MessageInForm(n) /\ Has(r4, word, a3 \o EncodeMessage(n), a3 \o EncodeMessage(n))
        BY <1>2, <1>4, <2>6, MessageHas DEF r4
    <2> DEFINE a4 == a3 \o EncodeMessage(n)
    <2>8. Has(r4, word, a4, a4)
        BY <2>7
    <2> HIDE DEF a4
    <2>9. PICK v5 \in Nat : Has(r5, word, a4 \o <<v5>>, a4 \o <<v5>>)
        BY <1>2, <1>4, <2>8, FlatHas DEF r5
    <2> DEFINE e == [seat |-> v1, first |-> m, firstSignature |-> v3, second |-> n, secondSignature |-> v5]
    <2>10. e \in EvidenceValues /\ EvidenceInForm(e)
        BY <2>3, <2>7 DEF EvidenceValues, EvidenceInForm
    <2>11. EncodeEvidence(e) = a4 \o <<v5>>
        BY DEF EncodeEvidence, a4, a3, a2, a1
    <2> HIDE DEF e
    <2>12. EncodeEvidence(e) = word /\ r6 = r5
        BY <1>4, <2>9, <2>11, FinishHas DEF r6
    <2>13. r6.vals = EncodeEvidence(e)
        BY <2>9, <2>11, <2>12 DEF Has
    <2>14. EvidenceFrom(r6).val = [seat |-> e.seat, first |-> e.first, firstSignature |-> e.firstSignature,
                                   second |-> e.second, secondSignature |-> e.secondSignature]
        BY <1>3, <2>10, <2>13, EvidenceWord
    <2>15. EvidenceFrom(r6).val = e
        BY <2>10, <2>14 DEF EvidenceValues
    <2> QED BY <2>10, <2>12, <2>15
<1>5. ASSUME NEW e \in EvidenceValues, EvidenceInForm(e), EncodeEvidence(e) = word
      PROVE  r6.ok
    <2> DEFINE v1 == e.seat
               m == e.first
               v3 == e.firstSignature
               n == e.second
               v5 == e.secondSignature
               f2 == EncodeMessage(m)
               f4 == EncodeMessage(n)
               a1 == <<v1>>
               a2 == a1 \o f2
               a3 == a2 \o <<v3>>
               a4 == a3 \o f4
               a5 == a4 \o <<v5>>
    <2>1. v1 \in Nat /\ m \in Messages /\ v3 \in Nat /\ n \in Messages /\ v5 \in Nat
          /\ MessageInForm(m) /\ MessageInForm(n)
        BY <1>5 DEF EvidenceValues, EvidenceInForm
    <2>2. a5 = word
        BY <1>5 DEF EncodeEvidence
    <2> HIDE DEF v1, m, v3, n, v5
    <2>3. f2 \in Seq(Nat) /\ f4 \in Seq(Nat)
        BY <2>1, MessageWord
    <2>4. a1 \in Seq(Nat) /\ <<v3>> \in Seq(Nat) /\ <<v5>> \in Seq(Nat)
        BY <2>1
    <2> HIDE DEF a1
    <2>5. a2 \in Seq(Nat)
        BY <2>3, <2>4, ConcatProperties
    <2>6. a3 \in Seq(Nat)
        BY <2>4, <2>5, ConcatProperties
    <2>7. a4 \in Seq(Nat)
        BY <2>3, <2>6, ConcatProperties
    <2>8. Stands(word, 0, a5)
        BY <2>2, StandsWhole
    <2>9. Stands(word, 0, a4)
        BY <2>4, <2>7, <2>8, StandsShorter
    <2>10. Stands(word, 0, a3)
        BY <2>3, <2>6, <2>9, StandsShorter
    <2>11. Stands(word, 0, a2)
        BY <2>4, <2>5, <2>10, StandsShorter
    <2>12. Stands(word, 0, a1)
        BY <2>3, <2>4, <2>11, StandsShorter
    <2>13. Has(r1, word, a1, a1)
        BY <2>1, <2>12, FirstHas DEF r1, a1
    <2>14. Has(r2, word, a2, a2)
        BY <2>1, <2>11, <2>13, MessageHas DEF r2
    <2> HIDE DEF a2
    <2>15. Has(r3, word, a3, a3)
        BY <2>1, <2>10, <2>14, FlatHas DEF r3
    <2> HIDE DEF a3
    <2>16. Has(r4, word, a4, a4)
        BY <2>1, <2>9, <2>15, MessageHas DEF r4
    <2> HIDE DEF a4
    <2>17. Has(r5, word, a5, a5)
        BY <2>1, <2>8, <2>16, FlatHas DEF r5
    <2> QED BY <2>2, <2>17, FinishHas DEF r6
<1>6. ASSUME EvidenceFrom(r6).ok
      PROVE  /\ EvidenceFrom(r6).val \in EvidenceValues /\ EvidenceInForm(EvidenceFrom(r6).val)
             /\ EncodeEvidence(EvidenceFrom(r6).val) = word
    BY <1>3, <1>4, <1>6
<1>7. ASSUME NEW e \in EvidenceValues, EvidenceInForm(e), EncodeEvidence(e) = word
      PROVE  EvidenceFrom(r6).ok
    BY <1>3, <1>5, <1>7
<1> QED BY <1>1, <1>6, <1>7 DEF Canonical

\* The limits are numbers, and their counts are varints a reader takes.
LEMMA LimitsFit ==
    ASSUME NEW limit \in Limits
    PROVE  limit \in Nat /\ \A count \in 0 .. limit : Fitting(count)
BY RelayAssumption DEF Fitting

\* A sequence over a set is one over a larger set.
LEMMA SeqWidens ==
    ASSUME NEW S, NEW T, S \subseteq T, NEW s \in Seq(S)
    PROVE  s \in Seq(T)
<1> DEFINE n == Len(s)
<1>1. n \in Nat /\ s \in [1 .. n -> S]
    OBVIOUS
<1> HIDE DEF n
<1>2. s \in [1 .. n -> T]
    BY <1>1
<1> QED BY <1>1, <1>2

\* A checkpoint, whose list of signatures is the last part.
LEMMA CheckpointCanonical ==
    ASSUME NEW word \in Seq(Nat)
    PROVE  Canonical("checkpoint", word)
<1> DEFINE r1 == ReadMessage(Open(word))
           r2 == ReadList(r1, MostSeats, 2)
           r3 == ReadSignatures(r2)
           r4 == Finish(r3)
           form(r) == SignaturesInForm(SignaturesOf(Last(r.vals)))
<1>1. /\ Decode("checkpoint", word) = CheckpointFrom(r4) /\ ValuesOf("checkpoint") = CheckpointValues
      /\ \A c : /\ InForm("checkpoint", c) <=> CheckpointInForm(c)
                /\ Encode("checkpoint", c) = EncodeCheckpoint(c)
    BY DEF Decode, DecodeCheckpoint, ValuesOf, InForm, Encode
<1>2. r3 = Require(r2, form(r2)) /\ form(r2) \in BOOLEAN
    BY DEF ReadSignatures, SignaturesInForm
<1>l. MostSeats \in Nat /\ Seats \in Limits /\ MostSeats = Seats /\ \A count \in 0 .. MostSeats : Fitting(count)
    <2>1. Seats \in Limits
        BY DEF Limits
    <2> QED BY <2>1, LimitsFit DEF MostSeats
<1>3. /\ Runs(r1, word) /\ (r2.ok => r1.ok) /\ (r3.ok => r2.ok) /\ (r4.ok => r3.ok)
    <2>1. Runs(r1, word)
        BY OpenRuns, MessageRuns
    <2> HIDE DEF r1, form
    <2>2. Runs(r2, word) /\ (r2.ok => r1.ok)
        <3>1. 2 \in Nat
            OBVIOUS
        <3>2. Runs(r2, word)
            BY <1>l, <2>1, <3>1, ListReads
        <3>3. r2.ok => \E fields \in Seq(Nat), count \in 0 .. MostSeats :
                         ReadsPart(r1, r2, word, WriteVarint[count] \o fields, fields)
            BY <1>l, <2>1, <3>1, ListReads
        <3> QED BY <3>2, <3>3 DEF ReadsPart
    <2> HIDE DEF r2
    <2>3. Runs(r3, word) /\ (r3.ok => r2.ok)
        BY <1>2, <2>2, RequireRuns
    <2> HIDE DEF r3
    <2>4. r4.ok => r3.ok
        BY <2>3, FinishRuns
    <2> QED BY <2>1, <2>2, <2>3, <2>4
<1> HIDE DEF r4
<1>4. /\ CheckpointFrom(r4).ok <=> r4.ok
      /\ CheckpointFrom(r4).val = [message |-> MessageAt(r4.vals, 1), signatures |-> SignaturesOf(r4.vals[6])]
    BY DEF CheckpointFrom
<1> HIDE DEF r3, r2, r1
<1>5. ASSUME NEW m \in Messages, NEW fields \in Seq(Nat)
      PROVE  LET vals == Append(EncodeMessage(m), fields)
             IN  Last(vals) = fields /\ vals[6] = fields /\ MessageAt(vals, 1) = m
    <2> DEFINE p == EncodeMessage(m)
               vals == Append(p, fields)
    <2>1. p \in Seq(Nat) /\ Len(p) = 5 /\ p[2] = m.era /\ p[3] = m.sequence /\ p[4] = m.tip /\ p[5] = m.orderRoot
        BY MessageWord
    <2>2. p \in Seq(Vals) /\ fields \in Vals
        <3> HIDE DEF p
        <3>1. Nat \subseteq Vals
            BY DEF Vals
        <3>3. p \in Seq(Vals)
            BY <2>1, <3>1, SeqWidens
        <3> QED BY <3>3 DEF Vals
    <2> HIDE DEF p
    <2>3. vals[Len(p) + 1] = fields /\ \A i \in 1 .. Len(p) : vals[i] = p[i]
        BY <2>2, AppendProperties
    <2>4. Last(vals) = fields
        BY <2>2, FrontOfAppend
    <2> HIDE DEF vals
    <2>5. vals[6] = fields /\ \A i \in 1 .. 5 : vals[i] = p[i]
        BY <2>1, <2>3
    <2>6. vals[1 + 1] = m.era /\ vals[1 + 2] = m.sequence /\ vals[1 + 3] = m.tip /\ vals[1 + 4] = m.orderRoot
        BY <2>1, <2>5
    <2>7. MessageAt(vals, 1) = m
        BY <2>6, MessageIs
    <2> QED BY <2>4, <2>5, <2>7 DEF vals, p
<1>6. ASSUME NEW c \in CheckpointValues
      PROVE  /\ c.message \in Messages /\ c.signatures \in Seq(SeatSignatures)
             /\ EncodeCheckpoint(c) = EncodeMessage(c.message)
                                        \o (WriteVarint[Len(c.signatures)] \o SeatFields(c.signatures))
    <2>1. c.message \in Messages /\ c.signatures \in Seq(SeatSignatures)
        BY DEF CheckpointValues
    <2> QED BY <2>1, SignaturesCodec DEF EncodeCheckpoint
<1>7. \A s \in Seq(SeatSignatures) :
        SignaturesInForm(s) <=> \A pair \in Pairs(s) : SeatBelow(pair[1], pair[2])
    BY SeatsAscend DEF SignaturesInForm
<1>8. \A m : EncodeMessage(m) \in Seq(Nat) => <<>> \o EncodeMessage(m) = EncodeMessage(m)
    BY ConcatEmptySeq
<1>9. ASSUME r4.ok
      PROVE  \E c \in CheckpointValues : CheckpointInForm(c) /\ EncodeCheckpoint(c) = word /\ CheckpointFrom(r4).val = c
    <2> DEFINE e == <<>>
               r0 == Open(word)
    <2>1. Has(r0, word, e, e)
        BY OpenHas
    <2> HIDE DEF e, r0
    <2>2. PICK m \in Messages : MessageInForm(m) /\ Has(r1, word, e \o EncodeMessage(m), e \o EncodeMessage(m))
        BY <1>3, <1>9, <2>1, MessageHas DEF r1, r0
    <2> DEFINE a == EncodeMessage(m)
    <2>3. Has(r1, word, a, a) /\ a \in Seq(Nat)
        BY <1>8, <2>2, MessageWord DEF e
    <2> HIDE DEF a
    <2>4. PICK fields \in Seq(Nat), count \in 0 .. MostSeats :
             /\ Len(fields) = count * 2
             /\ Has(r2, word, a \o (WriteVarint[count] \o fields), Append(a, fields))
        <3>1. 2 \in Nat
            OBVIOUS
        <3> QED BY <1>l, <1>3, <1>9, <2>3, <3>1, ListHas DEF r2
    <2> DEFINE p == a \o (WriteVarint[count] \o fields)
               vals == Append(a, fields)
               c == [message |-> m, signatures |-> SignaturesOf(fields)]
    <2>5. Last(vals) = fields /\ vals[6] = fields /\ MessageAt(vals, 1) = m
        BY <1>5 DEF a
    <2>6. Has(r2, word, p, vals) /\ count \in Nat
        BY <1>l, <2>4
    <2>7. SignaturesOf(fields) \in Seq(SeatSignatures) /\ Len(SignaturesOf(fields)) = count
          /\ SeatFields(SignaturesOf(fields)) = fields
        BY <2>4, <2>6, SignaturesCodec
    <2> HIDE DEF p, vals
    <2>8. form(r2) /\ r3 = r2
        <3>1. Require(r2, form(r2)).ok
            BY <1>2, <1>3, <1>9
        <3> QED BY <1>2, <2>6, <3>1, RequireHas DEF Require
    <2>9. r2.vals = vals
        BY <2>6 DEF Has
    <2>10. SignaturesInForm(SignaturesOf(fields))
        BY <2>5, <2>8, <2>9
    <2>11. p = word /\ r4 = r3
        BY <1>9, <2>6, <2>8, FinishHas DEF r4
    <2>12. c \in CheckpointValues
        BY <2>7 DEF CheckpointValues
    <2>13. CheckpointInForm(c)
        <3>1. Len(c.signatures) <= Seats
            BY <1>l, <2>7
        <3> QED BY <1>7, <2>2, <2>7, <2>10, <3>1 DEF CheckpointInForm
    <2>14. EncodeCheckpoint(c) = word
        BY <1>6, <2>7, <2>11, <2>12 DEF p, a
    <2>15. CheckpointFrom(r4).val = c
        BY <1>4, <2>5, <2>8, <2>9, <2>11
    <2> QED BY <2>12, <2>13, <2>14, <2>15
<1>10. ASSUME NEW c \in CheckpointValues, CheckpointInForm(c), EncodeCheckpoint(c) = word
       PROVE  r4.ok
    <2> DEFINE m == c.message
               count == Len(c.signatures)
               fields == SeatFields(c.signatures)
               a == EncodeMessage(m)
               b == WriteVarint[count] \o fields
               p == a \o b
               vals == Append(a, fields)
    <2>1. m \in Messages /\ MessageInForm(m) /\ c.signatures \in Seq(SeatSignatures) /\ p = word
        BY <1>6, <1>10 DEF CheckpointInForm
    <2>2. fields \in Seq(Nat) /\ Len(fields) = count * 2 /\ SignaturesOf(fields) = c.signatures
        BY <2>1, SignaturesCodec
    <2>3. count \in 0 .. MostSeats /\ Fitting(count)
        <3>1. count \in Nat /\ count <= Seats
            BY <1>10, <2>1 DEF CheckpointInForm
        <3> QED BY <1>l, <3>1
    <2>4. a \in Seq(Nat) /\ b \in Seq(Nat)
        <3>1. a \in Seq(Nat)
            BY <2>1, MessageWord
        <3>2. WriteVarint[count] \in Seq(Nat)
            BY <2>1, VarintWritten DEF IsVarint
        <3> QED BY <2>2, <3>1, <3>2, ConcatProperties
    <2>5. Last(vals) = fields
        BY <1>5, <2>1, <2>2
    <2>6. SignaturesInForm(SignaturesOf(fields))
        BY <1>7, <1>10, <2>1, <2>2 DEF CheckpointInForm
    <2> DEFINE e == <<>>
               r0 == Open(word)
    <2>7. Has(r0, word, e, e) /\ e \o a = a
        BY <2>4, OpenHas, ConcatEmptySeq
    <2> HIDE DEF e, r0, count, fields
    <2>8. Stands(word, 0, p)
        BY <2>1, StandsWhole
    <2>9. Stands(word, 0, a)
        <3> HIDE DEF a, b
        <3> QED BY <2>4, <2>8, StandsShorter
    <2>10. Has(r1, word, a, a)
        <3>1. Has(r1, word, e \o EncodeMessage(m), e \o EncodeMessage(m))
            BY <2>1, <2>7, <2>9, MessageHas DEF r1, r0
        <3> QED BY <2>7, <3>1
    <2> HIDE DEF a, m
    <2>11. Has(r2, word, p, vals)
        <3>1. 2 \in Nat
            OBVIOUS
        <3> QED BY <1>l, <2>2, <2>3, <2>8, <2>10, <3>1, ListHas DEF r2
    <2> HIDE DEF p, vals
    <2>12. form(r2)
        BY <2>5, <2>6, <2>11 DEF Has
    <2>13. Has(r3, word, p, vals)
        BY <1>2, <2>11, <2>12, RequireHas
    <2> QED BY <2>1, <2>13, FinishHas DEF r4
<1>11. ASSUME CheckpointFrom(r4).ok
       PROVE  /\ CheckpointFrom(r4).val \in CheckpointValues /\ CheckpointInForm(CheckpointFrom(r4).val)
              /\ EncodeCheckpoint(CheckpointFrom(r4).val) = word
    BY <1>4, <1>9, <1>11
<1>12. ASSUME NEW c \in CheckpointValues, CheckpointInForm(c), EncodeCheckpoint(c) = word
       PROVE  CheckpointFrom(r4).ok
    BY <1>4, <1>10, <1>12
<1> QED BY <1>1, <1>11, <1>12 DEF Canonical

\* What a reader of a header holds.
HeaderVals(h) == <<h.version, h.parents, h.height, h.timestamp, h.nonce, h.root>>

\* A header is known from the six values.
LEMMA HeaderValIs ==
    ASSUME NEW h \in HeaderValues, NEW r,
           r.vals[1] = h.version, r.vals[2] = h.parents, r.vals[3] = h.height,
           r.vals[4] = h.timestamp, r.vals[5] = h.nonce, r.vals[6] = h.root
    PROVE  HeaderFrom(r).val = h
BY DEF HeaderFrom, HeaderValues

\* The parts of the word of a header.
LEMMA HeaderWord ==
    ASSUME NEW h \in HeaderValues
    PROVE  /\ h.version \in Nat /\ h.parents \in Seq(Nat) /\ h.height \in Nat /\ h.timestamp \in Nat
           /\ h.nonce \in Nat /\ h.root \in Nat
           /\ EncodeHeader(h) = (<<h.version>> \o (WriteVarint[Len(h.parents)] \o h.parents))
                                  \o <<h.height, h.timestamp, h.nonce, h.root>>
           /\ EncodeHeader(h) \in Seq(Nat)
<1>1. /\ h.version \in Nat /\ h.parents \in Seq(Nat) /\ h.height \in Nat /\ h.timestamp \in Nat
      /\ h.nonce \in Nat /\ h.root \in Nat
    BY DEF HeaderValues
<1>2. WriteHashes(h.parents) = WriteVarint[Len(h.parents)] \o h.parents
    BY <1>1, HashesCodec
<1> DEFINE a == <<h.version>>
           b == WriteVarint[Len(h.parents)]
           c == <<h.height, h.timestamp, h.nonce, h.root>>
<1>3. a \in Seq(Nat) /\ c \in Seq(Nat)
    BY <1>1
<1>4. b \in Seq(Nat)
    BY <1>1, VarintWritten DEF IsVarint
<1>5. EncodeHeader(h) = (a \o (b \o h.parents)) \o c
    BY <1>2 DEF EncodeHeader
<1> HIDE DEF a, b, c
<1>6. b \o h.parents \in Seq(Nat)
    BY <1>1, <1>4, ConcatProperties
<1>7. a \o (b \o h.parents) \in Seq(Nat)
    BY <1>3, <1>6, ConcatProperties
<1>8. (a \o (b \o h.parents)) \o c \in Seq(Nat)
    BY <1>3, <1>7, ConcatProperties
<1> QED BY <1>1, <1>5, <1>8 DEF a, b, c

\* A header at the front of a word is read as it was written; a block starts
\* with one.
LEMMA HeaderHas ==
    ASSUME NEW word \in Seq(Nat)
    PROVE  /\ Runs(ReadHeader(Open(word)), word)
           /\ ReadHeader(Open(word)).ok =>
                \E h \in HeaderValues :
                    HeaderInForm(h) /\ Has(ReadHeader(Open(word)), word, EncodeHeader(h), HeaderVals(h))
           /\ \A h \in HeaderValues :
                HeaderInForm(h) /\ Stands(word, 0, EncodeHeader(h))
                => Has(ReadHeader(Open(word)), word, EncodeHeader(h), HeaderVals(h))
<1> DEFINE r1 == ReadFieldIn(Open(word), {Version1})
           r2 == ReadList(r1, MaxParents, 1)
           r3 == ReadParents(r2)
           r4 == ReadField(r3)
           r5 == ReadField(r4)
           r6 == ReadField(r5)
           r7 == ReadField(r6)
           form(r) == ParentsInForm(Last(r.vals))
<1>1. ReadHeader(Open(word)) = r7
    BY DEF ReadHeader
<1>2. r3 = Require(r2, form(r2)) /\ form(r2) \in BOOLEAN
    BY DEF ReadParents, ParentsInForm
<1>l. MaxParents \in Nat /\ 1 \in Nat /\ \A count \in 0 .. MaxParents : Fitting(count)
    <2>1. MaxParents \in Limits
        BY DEF Limits
    <2> QED BY <2>1, LimitsFit
<1> HIDE DEF form
<1>3. /\ Runs(r7, word) /\ (r2.ok => r1.ok) /\ (r3.ok => r2.ok) /\ (r4.ok => r3.ok) /\ (r5.ok => r4.ok)
      /\ (r6.ok => r5.ok) /\ (r7.ok => r6.ok)
    <2>1. Runs(r1, word)
        BY FirstHas
    <2> HIDE DEF r1
    <2>2. Runs(r2, word) /\ (r2.ok => r1.ok)
        <3>1. Runs(r2, word)
            BY <1>l, <2>1, ListReads
        <3>2. r2.ok => \E fields \in Seq(Nat), count \in 0 .. MaxParents :
                         ReadsPart(r1, r2, word, WriteVarint[count] \o fields, fields)
            BY <1>l, <2>1, ListReads
        <3> QED BY <3>1, <3>2 DEF ReadsPart
    <2> HIDE DEF r2
    <2>3. Runs(r3, word) /\ (r3.ok => r2.ok)
        BY <1>2, <2>2, RequireRuns
    <2> HIDE DEF r3
    <2>4. Runs(r4, word) /\ (r4.ok => r3.ok)
        BY <2>3, FieldReads
    <2> HIDE DEF r4
    <2>5. Runs(r5, word) /\ (r5.ok => r4.ok)
        BY <2>4, FieldReads
    <2> HIDE DEF r5
    <2>6. Runs(r6, word) /\ (r6.ok => r5.ok)
        BY <2>5, FieldReads
    <2> HIDE DEF r6
    <2>7. Runs(r7, word) /\ (r7.ok => r6.ok)
        BY <2>6, FieldReads
    <2> QED BY <2>2, <2>3, <2>4, <2>5, <2>6, <2>7
<1> HIDE DEF r1, r2, r3, r4, r5, r6, r7
<1>4. ASSUME NEW v1 \in Nat, NEW fields \in Seq(Nat)
      PROVE  Last(Append(<<v1>>, fields)) = fields
    <2> DEFINE p == <<v1>>
    <2>1. p \in Seq(Nat)
        OBVIOUS
    <2> HIDE DEF p
    <2>2. p \in Seq(Vals) /\ fields \in Vals
        <3>1. Nat \subseteq Vals
            BY DEF Vals
        <3>2. p \in Seq(Vals)
            BY <2>1, <3>1, SeqWidens
        <3> QED BY <3>2 DEF Vals
    <2>3. Last(Append(p, fields)) = fields
        BY <2>2, FrontOfAppend
    <2> QED BY <2>3 DEF p
<1>5. ASSUME NEW v1 \in Nat, NEW f \in Seq(Nat), NEW v3 \in Nat, NEW v4 \in Nat, NEW v5 \in Nat, NEW v6 \in Nat
      PROVE  SixVals(v1, f, v3, v4, v5, v6)
    <2>1. v1 \in Vals /\ f \in Vals /\ v3 \in Vals /\ v4 \in Vals /\ v5 \in Vals /\ v6 \in Vals
        BY DEF Vals
    <2> QED BY <2>1, SixRead
<1>6. \A s \in Seq(Nat) :
        (\A pair \in Neighbours(s) : IdBelow(pair[1], pair[2])) <=> \A pair \in Pairs(s) : IdBelow(pair[1], pair[2])
    BY IdsAscend
<1>7. ASSUME r7.ok
      PROVE  \E h \in HeaderValues : HeaderInForm(h) /\ Has(r7, word, EncodeHeader(h), HeaderVals(h))
    <2>1. PICK v1 \in Nat \cap {Version1} : Has(r1, word, <<v1>>, <<v1>>)
        BY <1>3, <1>7, FirstHas DEF r1
    <2> DEFINE a1 == <<v1>>
    <2>2. Has(r1, word, a1, a1)
        BY <2>1
    <2> HIDE DEF a1
    <2>3. PICK f \in Seq(Nat), count \in 0 .. MaxParents :
             /\ Len(f) = count * 1
             /\ Has(r2, word, a1 \o (WriteVarint[count] \o f), Append(a1, f))
        BY <1>l, <1>3, <1>7, <2>2, ListHas DEF r2
    <2> DEFINE a2 == a1 \o (WriteVarint[count] \o f)
               b2 == Append(a1, f)
    <2>4. Has(r2, word, a2, b2) /\ count = Len(f)
        BY <1>l, <2>3
    <2>5. Last(b2) = f
        BY <1>4, <2>1 DEF a1
    <2> HIDE DEF a2, b2
    <2>6. form(r2) /\ r3 = r2
        <3>1. Require(r2, form(r2)).ok
            BY <1>2, <1>3, <1>7
        <3> QED BY <1>2, <2>4, <3>1, RequireHas DEF Require
    <2>7. r2.vals = b2
        BY <2>4 DEF Has
    <2>8. ParentsInForm(f)
        BY <2>5, <2>6, <2>7 DEF form
    <2>9. Has(r3, word, a2, b2)
        BY <2>4, <2>6
    <2>10. PICK v3 \in Nat : Has(r4, word, a2 \o <<v3>>, Append(b2, v3))
        BY <1>3, <1>7, <2>9, FieldHas DEF r4
    <2> DEFINE a4 == a2 \o <<v3>>
               b4 == Append(b2, v3)
    <2>11. Has(r4, word, a4, b4)
        BY <2>10
    <2> HIDE DEF a4, b4
    <2>12. PICK v4 \in Nat : Has(r5, word, a4 \o <<v4>>, Append(b4, v4))
        BY <1>3, <1>7, <2>11, FieldHas DEF r5
    <2> DEFINE a5 == a4 \o <<v4>>
               b5 == Append(b4, v4)
    <2>13. Has(r5, word, a5, b5)
        BY <2>12
    <2> HIDE DEF a5, b5
    <2>14. PICK v5 \in Nat : Has(r6, word, a5 \o <<v5>>, Append(b5, v5))
        BY <1>3, <1>7, <2>13, FieldHas DEF r6
    <2> DEFINE a6 == a5 \o <<v5>>
               b6 == Append(b5, v5)
    <2>15. Has(r6, word, a6, b6)
        BY <2>14
    <2> HIDE DEF a6, b6
    <2>16. PICK v6 \in Nat : Has(r7, word, a6 \o <<v6>>, Append(b6, v6))
        BY <1>3, <1>7, <2>15, FieldHas DEF r7
    <2> DEFINE h == [version |-> v1, parents |-> f, height |-> v3, timestamp |-> v4, nonce |-> v5, root |-> v6]
    <2>17. h \in HeaderValues
        BY DEF HeaderValues
    <2>18. HeaderInForm(h)
        <3>1. h.version = Version1 /\ h.parents = f
            BY <2>1
        <3>2. Len(f) \in 1 .. MaxParents
            BY <1>l, <2>4, <2>8 DEF ParentsInForm
        <3>3. \A pair \in Pairs(f) : IdBelow(pair[1], pair[2])
            BY <1>6, <2>8 DEF ParentsInForm
        <3> HIDE DEF h
        <3> QED BY <3>1, <3>2, <3>3 DEF HeaderInForm
    <2>19. Append(b6, v6) = HeaderVals(h)
        <3>1. v1 \in Nat
            OBVIOUS
        <3>2. SixVals(v1, f, v3, v4, v5, v6)
            BY <1>5, <3>1
        <3> QED BY <3>2 DEF SixVals, HeaderVals, b6, b5, b4, b2, a1
    <2>20. a6 \o <<v6>> = EncodeHeader(h)
        <3>1. a2 \in Seq(Nat)
            BY <2>4 DEF Has
        <3>2. Joins(a2, v3, v4, v5, v6, 0)
            BY <3>1, TailJoined
        <3>3. a6 \o <<v6>> = a2 \o <<v3, v4, v5, v6>>
            BY <3>2 DEF Joins, a6, a5, a4
        <3>4. EncodeHeader(h) = (<<v1>> \o (WriteVarint[Len(f)] \o f)) \o <<v3, v4, v5, v6>>
            BY <2>17, HeaderWord
        <3> QED BY <2>4, <3>3, <3>4 DEF a2, a1
    <2>21. Has(r7, word, EncodeHeader(h), HeaderVals(h))
        BY <2>16, <2>19, <2>20
    <2> HIDE DEF h
    <2> QED BY <2>17, <2>18, <2>21
<1>8. ASSUME NEW h \in HeaderValues, HeaderInForm(h), Stands(word, 0, EncodeHeader(h))
      PROVE  Has(r7, word, EncodeHeader(h), HeaderVals(h))
    <2> DEFINE v1 == h.version
               f == h.parents
               v3 == h.height
               v4 == h.timestamp
               v5 == h.nonce
               v6 == h.root
               count == Len(f)
               w == WriteVarint[count]
               part == w \o f
               a1 == <<v1>>
               a2 == a1 \o part
               a4 == a2 \o <<v3>>
               a5 == a4 \o <<v4>>
               a6 == a5 \o <<v5>>
               a7 == a6 \o <<v6>>
               b2 == Append(a1, f)
               b4 == Append(b2, v3)
               b5 == Append(b4, v4)
               b6 == Append(b5, v5)
               b7 == Append(b6, v6)
    <2>1. /\ v1 \in Nat /\ f \in Seq(Nat) /\ v3 \in Nat /\ v4 \in Nat /\ v5 \in Nat /\ v6 \in Nat
          /\ EncodeHeader(h) = a2 \o <<v3, v4, v5, v6>>
        BY HeaderWord
    <2>2. v1 \in Nat \cap {Version1} /\ count \in 0 .. MaxParents /\ count \in Nat /\ count > 0
          /\ \A pair \in Pairs(f) : IdBelow(pair[1], pair[2])
        BY <1>8, <2>1 DEF HeaderInForm
    <2>3. HeaderVals(h) = <<v1, f, v3, v4, v5, v6>>
        BY DEF HeaderVals
    <2> HIDE DEF v1, f, v3, v4, v5, v6
    <2>4. b7 = HeaderVals(h)
        <3>1. SixVals(v1, f, v3, v4, v5, v6)
            BY <1>5, <2>1
        <3> QED BY <2>3, <3>1 DEF SixVals
    <2>5. ParentsInForm(f)
        BY <1>6, <2>1, <2>2 DEF ParentsInForm
    <2>6. Last(b2) = f
        BY <1>4, <2>1
    <2>7. w \in Seq(Nat)
        BY <2>2, VarintWritten DEF IsVarint
    <2>8. a1 \in Seq(Nat) /\ <<v3>> \in Seq(Nat) /\ <<v4>> \in Seq(Nat) /\ <<v5>> \in Seq(Nat) /\ <<v6>> \in Seq(Nat)
        BY <2>1
    <2>9. Len(f) = count * 1 /\ Fitting(count)
        BY <1>l, <2>2
    <2> HIDE DEF a1, w, b2, count
    <2>10. part \in Seq(Nat)
        BY <2>1, <2>7, ConcatProperties
    <2>p. part = WriteVarint[count] \o f
        BY DEF w
    <2> HIDE DEF part
    <2>11. a2 \in Seq(Nat)
        BY <2>8, <2>10, ConcatProperties
    <2>12. a7 = EncodeHeader(h)
        <3> HIDE DEF a2
        <3>1. Joins(a2, v3, v4, v5, v6, 0)
            BY <2>1, <2>11, TailJoined
        <3> QED BY <2>1, <3>1 DEF Joins
    <2>13. a4 \in Seq(Nat)
        BY <2>8, <2>11, ConcatProperties
    <2>14. a5 \in Seq(Nat)
        BY <2>8, <2>13, ConcatProperties
    <2>15. a6 \in Seq(Nat)
        BY <2>8, <2>14, ConcatProperties
    <2>16. Stands(word, 0, a7)
        BY <1>8, <2>12
    <2>17. Stands(word, 0, a6)
        BY <2>8, <2>15, <2>16, StandsShorter
    <2>18. Stands(word, 0, a5)
        BY <2>8, <2>14, <2>17, StandsShorter
    <2>19. Stands(word, 0, a4)
        BY <2>8, <2>13, <2>18, StandsShorter
    <2>20. Stands(word, 0, a2)
        BY <2>8, <2>11, <2>19, StandsShorter
    <2>21. Stands(word, 0, a1)
        BY <2>8, <2>10, <2>20, StandsShorter
    <2>22. Has(r1, word, a1, a1)
        BY <2>2, <2>21, FirstHas DEF r1, a1
    <2>23. Has(r2, word, a2, b2)
        <3>1. Stands(word, 0, a1 \o (WriteVarint[count] \o f))
            BY <2>20, <2>p
        <3>2. Has(r2, word, a1 \o (WriteVarint[count] \o f), Append(a1, f))
            BY <1>l, <2>1, <2>2, <2>9, <2>22, <3>1, ListHas DEF r2
        <3> QED BY <2>p, <3>2 DEF b2
    <2> HIDE DEF a2
    <2>24. form(r2)
        BY <2>5, <2>6, <2>23 DEF Has, form
    <2>25. Has(r3, word, a2, b2)
        BY <1>2, <2>23, <2>24, RequireHas
    <2>26. Has(r4, word, a4, b4)
        BY <2>1, <2>19, <2>25, FieldHas DEF r4
    <2> HIDE DEF a4, b4
    <2>27. Has(r5, word, a5, b5)
        BY <2>1, <2>18, <2>26, FieldHas DEF r5
    <2> HIDE DEF a5, b5
    <2>28. Has(r6, word, a6, b6)
        BY <2>1, <2>17, <2>27, FieldHas DEF r6
    <2> HIDE DEF a6, b6
    <2>29. Has(r7, word, a7, b7)
        BY <2>1, <2>16, <2>28, FieldHas DEF r7
    <2> QED BY <2>4, <2>12, <2>29
<1> QED BY <1>1, <1>3, <1>7, <1>8

\* A header that is the whole word.
LEMMA HeaderCanonical ==
    ASSUME NEW word \in Seq(Nat)
    PROVE  Canonical("header", word)
<1> DEFINE r == ReadHeader(Open(word))
           s == Finish(r)
<1>1. /\ Decode("header", word) = HeaderFrom(s) /\ ValuesOf("header") = HeaderValues
      /\ \A h : /\ InForm("header", h) <=> HeaderInForm(h)
                /\ Encode("header", h) = EncodeHeader(h)
    BY DEF Decode, DecodeHeader, ValuesOf, InForm, Encode
<1>2. Runs(r, word) /\ (s.ok => r.ok)
    <2>1. Runs(r, word)
        BY HeaderHas
    <2> HIDE DEF r
    <2> QED BY <2>1, FinishRuns
<1> HIDE DEF s, r
<1>3. HeaderFrom(s).ok <=> s.ok
    BY DEF HeaderFrom
<1>4. ASSUME s.ok
      PROVE  \E h \in HeaderValues : HeaderInForm(h) /\ EncodeHeader(h) = word /\ HeaderFrom(s).val = h
    <2>1. PICK h \in HeaderValues : HeaderInForm(h) /\ Has(r, word, EncodeHeader(h), HeaderVals(h))
        BY <1>2, <1>4, HeaderHas DEF r
    <2>2. EncodeHeader(h) = word /\ s = r
        BY <1>4, <2>1, FinishHas DEF s
    <2>3. s.vals = HeaderVals(h)
        BY <2>1, <2>2 DEF Has
    <2>4. /\ s.vals[1] = h.version /\ s.vals[2] = h.parents /\ s.vals[3] = h.height
          /\ s.vals[4] = h.timestamp /\ s.vals[5] = h.nonce /\ s.vals[6] = h.root
        BY <2>3 DEF HeaderVals
    <2>5. HeaderFrom(s).val = h
        BY <2>4, HeaderValIs
    <2> QED BY <2>1, <2>2, <2>5
<1>5. ASSUME NEW h \in HeaderValues, HeaderInForm(h), EncodeHeader(h) = word
      PROVE  s.ok
    <2>1. Stands(word, 0, EncodeHeader(h))
        BY <1>5, StandsWhole
    <2>2. Has(r, word, EncodeHeader(h), HeaderVals(h))
        BY <1>5, <2>1, HeaderHas DEF r
    <2> QED BY <1>5, <2>2, FinishHas DEF s
<1>6. ASSUME HeaderFrom(s).ok
      PROVE  /\ HeaderFrom(s).val \in HeaderValues /\ HeaderInForm(HeaderFrom(s).val)
             /\ EncodeHeader(HeaderFrom(s).val) = word
    BY <1>3, <1>4, <1>6
<1>7. ASSUME NEW h \in HeaderValues, HeaderInForm(h), EncodeHeader(h) = word
      PROVE  HeaderFrom(s).ok
    BY <1>3, <1>5, <1>7
<1> QED BY <1>1, <1>6, <1>7 DEF Canonical

\* The list that was read last.
LEMMA LastHas ==
    ASSUME NEW word, NEW r, NEW a, NEW vals, Has(r, word, a, vals), NEW fields \in Seq(Nat)
    PROVE  Last(Append(vals, fields)) = fields
<1>1. vals \in Seq(Vals) /\ fields \in Vals
    BY DEF Has, Runs, Vals
<1> QED BY <1>1, FrontOfAppend

\* A block, whose payload its header commits to.
LEMMA BlockCanonical ==
    ASSUME NEW word \in Seq(Nat)
    PROVE  Canonical("block", word)
<1> DEFINE r1 == ReadHeader(Open(word))
           r2 == ReadList(r1, MaxTxs, 1)
           r3 == ReadIds(r2)
           r4 == Finish(r3)
           form(r) == IdsInForm(Last(r.vals))
<1>1. /\ Decode("block", word) = BlockFrom(r4) /\ ValuesOf("block") = BlockValues
      /\ \A b : /\ InForm("block", b) <=> BlockInForm(b)
                /\ Encode("block", b) = EncodeBlock(b)
    BY DEF Decode, DecodeBlock, ValuesOf, InForm, Encode
<1>2. r3 = Require(r2, form(r2)) /\ form(r2) \in BOOLEAN
    BY DEF ReadIds, IdsInForm
<1>l. MaxTxs \in Nat /\ 1 \in Nat /\ \A count \in 0 .. MaxTxs : Fitting(count)
    <2>1. MaxTxs \in Limits
        BY DEF Limits
    <2> QED BY <2>1, LimitsFit
<1> HIDE DEF form
<1>3. Runs(r1, word) /\ (r2.ok => r1.ok) /\ (r3.ok => r2.ok) /\ (r4.ok => r3.ok)
    <2>1. Runs(r1, word)
        BY HeaderHas
    <2> HIDE DEF r1
    <2>2. Runs(r2, word) /\ (r2.ok => r1.ok)
        <3>1. Runs(r2, word)
            BY <1>l, <2>1, ListReads
        <3>2. r2.ok => \E fields \in Seq(Nat), count \in 0 .. MaxTxs :
                         ReadsPart(r1, r2, word, WriteVarint[count] \o fields, fields)
            BY <1>l, <2>1, ListReads
        <3> QED BY <3>1, <3>2 DEF ReadsPart
    <2> HIDE DEF r2
    <2>3. Runs(r3, word) /\ (r3.ok => r2.ok)
        BY <1>2, <2>2, RequireRuns
    <2> HIDE DEF r3
    <2>4. r4.ok => r3.ok
        BY <2>3, FinishRuns
    <2> QED BY <2>1, <2>2, <2>3, <2>4
<1> HIDE DEF r1, r2, r3, r4
<1>4. /\ BlockFrom(r4).ok <=> r4.ok /\ Commits(HeaderFrom(r4).val, r4.vals[7])
      /\ BlockFrom(r4).val = [header |-> HeaderFrom(r4).val, txIds |-> r4.vals[7]]
    BY DEF BlockFrom
<1>5. \A s \in Seq(Nat) : IdsInForm(s) <=> \A pair \in Pairs(s) : IdBelow(pair[1], pair[2])
    BY IdsAscend DEF IdsInForm
<1>6. ASSUME NEW b \in BlockValues
      PROVE  /\ b.header \in HeaderValues /\ b.txIds \in Seq(Nat)
             /\ EncodeBlock(b) = EncodeHeader(b.header) \o (WriteVarint[Len(b.txIds)] \o b.txIds)
    <2>1. b.header \in HeaderValues /\ b.txIds \in Seq(Nat)
        BY DEF BlockValues
    <2> QED BY <2>1, HashesCodec DEF EncodeBlock
<1>7. ASSUME NEW h \in HeaderValues, NEW ids \in Seq(Nat), Has(r1, word, EncodeHeader(h), HeaderVals(h)),
             NEW r, r.vals = Append(HeaderVals(h), ids)
      PROVE  Last(r.vals) = ids /\ HeaderFrom(r).val = h /\ r.vals[7] = ids
    <2> DEFINE p == HeaderVals(h)
    <2>1. p \in Seq(Vals) /\ ids \in Vals
        BY <1>7 DEF Has, Runs, Vals
    <2>2. /\ Len(p) = 6 /\ p[1] = h.version /\ p[2] = h.parents /\ p[3] = h.height /\ p[4] = h.timestamp
          /\ p[5] = h.nonce /\ p[6] = h.root
        BY DEF HeaderVals
    <2>3. Last(Append(p, ids)) = ids
        BY <1>7, LastHas
    <2> HIDE DEF p
    <2>4. Append(p, ids)[Len(p) + 1] = ids /\ \A i \in 1 .. Len(p) : Append(p, ids)[i] = p[i]
        BY <2>1, AppendProperties
    <2> DEFINE q == Append(p, ids)
    <2>5. q[Len(p) + 1] = ids /\ (\A i \in 1 .. Len(p) : q[i] = p[i]) /\ r.vals = q
        BY <1>7, <2>4 DEF p
    <2> HIDE DEF q
    <2>6. q[7] = ids /\ \A i \in 1 .. 6 : q[i] = p[i]
        BY <2>2, <2>5
    <2>7. /\ q[1] = h.version /\ q[2] = h.parents /\ q[3] = h.height /\ q[4] = h.timestamp
          /\ q[5] = h.nonce /\ q[6] = h.root
        BY <2>2, <2>6
    <2>8. HeaderFrom(r).val = h
        BY <2>5, <2>7, HeaderValIs
    <2>9. Last(r.vals) = ids
        BY <1>7, <2>3 DEF p
    <2> QED BY <2>5, <2>6, <2>8, <2>9
<1>8. ASSUME BlockFrom(r4).ok
      PROVE  \E b \in BlockValues : BlockInForm(b) /\ EncodeBlock(b) = word /\ BlockFrom(r4).val = b
    <2>1. PICK h \in HeaderValues : HeaderInForm(h) /\ Has(r1, word, EncodeHeader(h), HeaderVals(h))
        BY <1>3, <1>4, <1>8, HeaderHas DEF r1
    <2> DEFINE a == EncodeHeader(h)
               vals == HeaderVals(h)
    <2>2. Has(r1, word, a, vals)
        BY <2>1
    <2> HIDE DEF a, vals
    <2>3. PICK f \in Seq(Nat), count \in 0 .. MaxTxs :
             /\ Len(f) = count * 1
             /\ Has(r2, word, a \o (WriteVarint[count] \o f), Append(vals, f))
        BY <1>l, <1>3, <1>4, <1>8, <2>2, ListHas DEF r2
    <2> DEFINE p == a \o (WriteVarint[count] \o f)
               q == Append(vals, f)
               b == [header |-> h, txIds |-> f]
    <2>4. Has(r2, word, p, q) /\ count = Len(f) /\ Len(f) <= MaxTxs
        BY <1>l, <2>3
    <2>5. r2.vals = Append(HeaderVals(h), f)
        BY <2>4 DEF Has, vals
    <2> HIDE DEF p, q
    <2>6. form(r2) /\ r3 = r2
        <3>1. Require(r2, form(r2)).ok
            BY <1>2, <1>3, <1>4, <1>8
        <3> QED BY <1>2, <2>4, <3>1, RequireHas DEF Require
    <2>7. p = word /\ r4 = r3
        BY <1>4, <1>8, <2>4, <2>6, FinishHas DEF r4
    <2>8. Last(r4.vals) = f /\ HeaderFrom(r4).val = h /\ r4.vals[7] = f
        BY <1>7, <2>1, <2>5, <2>6, <2>7
    <2>9. IdsInForm(f)
        BY <2>6, <2>7, <2>8 DEF form
    <2>10. b \in BlockValues /\ BlockFrom(r4).val = b
        BY <1>4, <2>8 DEF BlockValues
    <2>11. Commits(h, f)
        BY <1>4, <1>8, <2>8
    <2>12. BlockInForm(b)
        <3>1. b.header = h /\ b.txIds = f
            OBVIOUS
        <3>2. h.root = PayloadRoot(f)
            BY <2>11 DEF Commits
        <3> HIDE DEF b
        <3> QED BY <1>5, <2>1, <2>4, <2>9, <3>1, <3>2 DEF BlockInForm
    <2>13. EncodeBlock(b) = word
        BY <1>6, <2>4, <2>7, <2>10 DEF p, a
    <2> HIDE DEF b
    <2> QED BY <2>10, <2>12, <2>13
<1>9. ASSUME NEW b \in BlockValues, BlockInForm(b), EncodeBlock(b) = word
      PROVE  BlockFrom(r4).ok
    <2> DEFINE h == b.header
               f == b.txIds
               count == Len(f)
               a == EncodeHeader(h)
               part == WriteVarint[count] \o f
               p == a \o part
               vals == HeaderVals(h)
               q == Append(vals, f)
    <2>1. h \in HeaderValues /\ f \in Seq(Nat) /\ p = word
        BY <1>6, <1>9
    <2>2. HeaderInForm(h) /\ count \in 0 .. MaxTxs /\ count \in Nat /\ IdsInForm(f) /\ Commits(h, f)
        BY <1>5, <1>9, <2>1 DEF BlockInForm, Commits
    <2> HIDE DEF h, f
    <2>3. a \in Seq(Nat)
        BY <2>1, HeaderWord
    <2>4. part \in Seq(Nat)
        <3>1. WriteVarint[count] \in Seq(Nat)
            BY <2>2, VarintWritten DEF IsVarint
        <3> QED BY <2>1, <3>1, ConcatProperties
    <2>5. Len(f) = count * 1 /\ Fitting(count)
        BY <1>l, <2>2
    <2>6. Stands(word, 0, p)
        BY <2>1, StandsWhole
    <2>7. Stands(word, 0, a)
        <3> HIDE DEF a, part
        <3> QED BY <2>3, <2>4, <2>6, StandsShorter
    <2>8. Has(r1, word, a, vals)
        BY <2>1, <2>2, <2>7, HeaderHas DEF r1
    <2> HIDE DEF a, vals, count
    <2>9. Has(r2, word, p, q)
        BY <1>l, <2>1, <2>2, <2>5, <2>6, <2>8, ListHas DEF r2
    <2>10. r2.vals = Append(HeaderVals(h), f)
        BY <2>9 DEF Has, vals
    <2>11. Has(r1, word, EncodeHeader(h), HeaderVals(h))
        BY <2>8 DEF a, vals
    <2>12. Last(r2.vals) = f /\ HeaderFrom(r2).val = h /\ r2.vals[7] = f
        BY <1>7, <2>1, <2>10, <2>11
    <2> HIDE DEF p, q
    <2>13. form(r2)
        BY <2>2, <2>12 DEF form
    <2>14. Has(r3, word, p, q) /\ r3 = r2
        BY <1>2, <2>9, <2>13, RequireHas DEF Require
    <2>15. r4.ok /\ r4 = r3
        BY <2>1, <2>14, FinishHas DEF r4
    <2> QED BY <1>4, <2>2, <2>12, <2>14, <2>15
<1>10. ASSUME BlockFrom(r4).ok
       PROVE  /\ BlockFrom(r4).val \in BlockValues /\ BlockInForm(BlockFrom(r4).val)
              /\ EncodeBlock(BlockFrom(r4).val) = word
    BY <1>8, <1>10
<1> QED BY <1>1, <1>9, <1>10 DEF Canonical

\* What a reader of a transaction holds.
TxVals(t) == <<t.version, t.type, t.fee, InFields(t.inputs), OutFields(t.outputs), t.extra>>

\* The parts of a transaction, from the first.
TxHead(t)  == <<t.version, t.type, t.fee>>
TxIn(t)    == WriteVarint[Len(t.inputs)] \o InFields(t.inputs)
TxOut(t)   == WriteVarint[Len(t.outputs)] \o OutFields(t.outputs)
TxExtra(t) == WriteVarint[Len(t.extra)] \o t.extra

\* The lists of a transaction are known from their fields, and its word from
\* its parts.
LEMMA TxWord ==
    ASSUME NEW t \in Transactions
    PROVE  /\ t.version \in Nat /\ t.type \in Nat /\ t.fee \in Nat /\ t.inputs \in Seq(TxIns)
           /\ t.outputs \in Seq(TxOuts) /\ t.extra \in Seq(Nat)
           /\ InFields(t.inputs) \in Seq(Nat) /\ Len(InFields(t.inputs)) = Len(t.inputs) * 4
           /\ InputsOf(InFields(t.inputs)) = t.inputs
           /\ OutFields(t.outputs) \in Seq(Nat) /\ Len(OutFields(t.outputs)) = Len(t.outputs) * 2
           /\ OutputsOf(OutFields(t.outputs)) = t.outputs
           /\ EncodeTx(t) = ((TxHead(t) \o TxIn(t)) \o TxOut(t)) \o TxExtra(t)
           /\ TxHead(t) \in Seq(Nat) /\ TxIn(t) \in Seq(Nat) /\ TxOut(t) \in Seq(Nat) /\ TxExtra(t) \in Seq(Nat)
<1>1. /\ t.version \in Nat /\ t.type \in Nat /\ t.fee \in Nat /\ t.inputs \in Seq(TxIns)
      /\ t.outputs \in Seq(TxOuts) /\ t.extra \in Seq(Nat)
    BY DEF Transactions
<1>2. /\ InFields(t.inputs) \in Seq(Nat) /\ Len(InFields(t.inputs)) = Len(t.inputs) * 4
      /\ InputsOf(InFields(t.inputs)) = t.inputs
      /\ WriteList([i \in DOMAIN t.inputs |-> WriteTxIn(t.inputs[i])]) = TxIn(t)
    BY <1>1, InputsCodec DEF TxIn
<1>3. /\ OutFields(t.outputs) \in Seq(Nat) /\ Len(OutFields(t.outputs)) = Len(t.outputs) * 2
      /\ OutputsOf(OutFields(t.outputs)) = t.outputs
      /\ WriteList([i \in DOMAIN t.outputs |-> WriteTxOut(t.outputs[i])]) = TxOut(t)
    BY <1>1, OutputsCodec DEF TxOut
<1>4. EncodeTx(t) = ((TxHead(t) \o TxIn(t)) \o TxOut(t)) \o TxExtra(t)
    BY <1>2, <1>3 DEF EncodeTx, WriteBytes, TxHead, TxExtra
<1>5. TxHead(t) \in Seq(Nat)
    BY <1>1 DEF TxHead
<1>6. \A n \in Nat, f \in Seq(Nat) : WriteVarint[n] \o f \in Seq(Nat)
    <2> SUFFICES ASSUME NEW n \in Nat, NEW f \in Seq(Nat) PROVE WriteVarint[n] \o f \in Seq(Nat)
        OBVIOUS
    <2>1. WriteVarint[n] \in Seq(Nat)
        BY VarintWritten DEF IsVarint
    <2> QED BY <2>1, ConcatProperties
<1>7. Len(t.inputs) \in Nat /\ Len(t.outputs) \in Nat /\ Len(t.extra) \in Nat
    BY <1>1
<1>8. TxIn(t) \in Seq(Nat) /\ TxOut(t) \in Seq(Nat) /\ TxExtra(t) \in Seq(Nat)
    BY <1>1, <1>2, <1>3, <1>6, <1>7 DEF TxIn, TxOut, TxExtra
<1> QED BY <1>1, <1>2, <1>3, <1>4, <1>5, <1>8

\* A transaction is known from the six values.
LEMMA TxValIs ==
    ASSUME NEW t \in Transactions, NEW r, r.vals = TxVals(t)
    PROVE  TxFrom(r).val = t
<1>1. /\ InputsOf(InFields(t.inputs)) = t.inputs /\ OutputsOf(OutFields(t.outputs)) = t.outputs
    BY TxWord
<1>2. /\ r.vals[1] = t.version /\ r.vals[2] = t.type /\ r.vals[3] = t.fee
      /\ r.vals[4] = InFields(t.inputs) /\ r.vals[5] = OutFields(t.outputs) /\ r.vals[6] = t.extra
    BY DEF TxVals
<1>3. TxFrom(r).val = [version |-> t.version, type |-> t.type, fee |-> t.fee,
                       inputs |-> t.inputs, outputs |-> t.outputs, extra |-> t.extra]
    BY <1>1, <1>2 DEF TxFrom
<1> QED BY <1>3 DEF Transactions

\* Two parts that have run, one after the other.
LEMMA ListRuns ==
    ASSUME NEW word \in Seq(Nat), NEW r, Runs(r, word), NEW most, r.ok => most \in Nat, NEW width \in Nat
    PROVE  Runs(ReadList(r, most, width), word) /\ (ReadList(r, most, width).ok => r.ok)
<1>1. Runs(ReadList(r, most, width), word)
    BY ListReads
<1>2. ReadList(r, most, width).ok =>
        \E fields \in Seq(Nat), count \in 0 .. most :
            ReadsPart(r, ReadList(r, most, width), word, WriteVarint[count] \o fields, fields)
    BY ListReads
<1> QED BY <1>1, <1>2 DEF ReadsPart

\* A transaction, of three lists.
LEMMA TransactionCanonical ==
    ASSUME NEW word \in Seq(Nat)
    PROVE  Canonical("transaction", word)
<1> DEFINE r1 == ReadFieldIn(Open(word), {Version1})
           r2 == ReadFieldIn(r1, Supported)
           r3 == ReadField(r2)
           r4 == ReadList(r3, MaxInputs, 4)
           r5 == ReadInputs(r4)
           r6 == ReadList(r5, MaxOutputs, 2)
           r7 == ReadOutputs(r6)
           r8 == ReadBytes(r7)
           r9 == ReadExtra(r8)
           s  == Finish(r9)
           ins(r) == InputsInForm(InputsOf(Last(r.vals)))
           outs(r) == OutputsInForm(OutputsOf(Last(r.vals)))
           few(r) == Len(Last(r.vals)) <= MaxExtra
<1>1. /\ Decode("transaction", word) = TxFrom(s) /\ ValuesOf("transaction") = Transactions
      /\ \A t : /\ InForm("transaction", t) <=> TxInForm(t)
                /\ Encode("transaction", t) = EncodeTx(t)
    BY DEF Decode, DecodeTx, ValuesOf, InForm, Encode
<1>2. /\ r5 = Require(r4, ins(r4)) /\ ins(r4) \in BOOLEAN
      /\ r7 = Require(r6, outs(r6)) /\ outs(r6) \in BOOLEAN
      /\ r9 = Require(r8, few(r8)) /\ few(r8) \in BOOLEAN
      /\ r8 = ReadList(r7, Remaining(r7), 1)
    <2>1. r8 = ReadList(r7, Remaining(r7), 1)
        BY DEF ReadBytes
    <2> HIDE DEF r8
    <2>2. r9 = Require(r8, few(r8)) /\ few(r8) \in BOOLEAN
        BY DEF ReadExtra
    <2> HIDE DEF r6, r7, r9
    <2>3. outs(r6) \in BOOLEAN
        BY DEF OutputsInForm
    <2>4. r7 = Require(r6, outs(r6))
        BY DEF ReadOutputs, r7
    <2> HIDE DEF r4, r5
    <2>5. ins(r4) \in BOOLEAN
        BY DEF InputsInForm
    <2>6. r5 = Require(r4, ins(r4))
        BY DEF ReadInputs, r5
    <2> QED BY <2>1, <2>2, <2>3, <2>4, <2>5, <2>6
<1>l. /\ MaxInputs \in Nat /\ \A count \in 0 .. MaxInputs : Fitting(count)
      /\ MaxOutputs \in Nat /\ \A count \in 0 .. MaxOutputs : Fitting(count)
      /\ MaxExtra \in Nat /\ \A count \in 0 .. MaxExtra : Fitting(count)
      /\ 1 \in Nat /\ 2 \in Nat /\ 4 \in Nat
    <2>1. MaxInputs \in Limits /\ MaxOutputs \in Limits /\ MaxExtra \in Limits
        BY DEF Limits
    <2> QED BY <2>1, LimitsFit
<1> HIDE DEF ins, outs, few
<1>3. /\ (r2.ok => r1.ok) /\ (r3.ok => r2.ok) /\ (r4.ok => r3.ok) /\ (r5.ok => r4.ok)
      /\ (r6.ok => r5.ok) /\ (r7.ok => r6.ok) /\ (r8.ok => r7.ok) /\ (r9.ok => r8.ok) /\ (s.ok => r9.ok)
    <2>1. Runs(r1, word)
        BY FirstHas
    <2> HIDE DEF r1
    <2>2. Runs(r2, word) /\ (r2.ok => r1.ok)
        BY <2>1, FieldReadsIn
    <2> HIDE DEF r2
    <2>3. Runs(r3, word) /\ (r3.ok => r2.ok)
        BY <2>2, FieldReads
    <2> HIDE DEF r3
    <2>4. Runs(r4, word) /\ (r4.ok => r3.ok)
        BY <1>l, <2>3, ListRuns
    <2> HIDE DEF r4
    <2>5. Runs(r5, word) /\ (r5.ok => r4.ok)
        BY <1>2, <2>4, RequireRuns
    <2> HIDE DEF r5
    <2>6. Runs(r6, word) /\ (r6.ok => r5.ok)
        BY <1>l, <2>5, ListRuns
    <2> HIDE DEF r6
    <2>7. Runs(r7, word) /\ (r7.ok => r6.ok)
        BY <1>2, <2>6, RequireRuns
    <2> HIDE DEF r7
    <2>8. Runs(r8, word) /\ (r8.ok => r7.ok)
        <3>1. r7.ok => Remaining(r7) \in Nat
            BY <2>7 DEF Runs, Remaining
        <3> DEFINE most == Remaining(r7)
                   list == ReadList(r7, most, 1)
        <3>2. r8 = list
            BY <1>2
        <3>3. r7.ok => most \in Nat
            BY <3>1
        <3> HIDE DEF r8, r9, most
        <3>4. Runs(list, word) /\ (list.ok => r7.ok)
            BY <1>l, <2>7, <3>3, ListRuns
        <3> HIDE DEF list
        <3> QED BY <3>2, <3>4
    <2> HIDE DEF r8
    <2>9. Runs(r9, word) /\ (r9.ok => r8.ok)
        BY <1>2, <2>8, RequireRuns
    <2> HIDE DEF r9
    <2>10. s.ok => r9.ok
        BY <2>9, FinishRuns
    <2> QED BY <2>2, <2>3, <2>4, <2>5, <2>6, <2>7, <2>8, <2>9, <2>10
<1> HIDE DEF r1, r2, r3, r4, r5, r6, r7, r8, r9, s
<1>4. TxFrom(s).ok <=> s.ok
    BY DEF TxFrom
<1>5. \A ii \in Seq(TxIns) :
        InputsInForm(ii) <=> /\ \A i \in DOMAIN ii : IsPoint(ii[i].key)
                             /\ \A pair \in Pairs(ii) : RefBelow(pair[1], pair[2])
    BY InputsAscend DEF InputsInForm
<1>7. \A a \in Nat, b \in Nat, c \in Nat : (<<a>> \o <<b>>) \o <<c>> = <<a, b, c>>
    <2> SUFFICES ASSUME NEW a \in Nat, NEW b \in Nat, NEW c \in Nat
                 PROVE  (<<a>> \o <<b>>) \o <<c>> = <<a, b, c>>
        OBVIOUS
    <2>1. <<a>> \o <<b>> = <<a, b>>
        BY FieldsJoined
    <2>2. <<a, b>> \o <<c>> = <<a, b, c>>
        BY FieldsJoined
    <2> QED BY <2>1, <2>2
<1>8. ASSUME s.ok
      PROVE  \E t \in Transactions : TxInForm(t) /\ EncodeTx(t) = word /\ TxFrom(s).val = t
    <2>1. PICK v1 \in Nat \cap {Version1} : Has(r1, word, <<v1>>, <<v1>>)
        BY <1>3, <1>8, FirstHas DEF r1
    <2> DEFINE a1 == <<v1>>
    <2>2. Has(r1, word, a1, a1) /\ v1 \in Nat /\ v1 = Version1
        BY <2>1
    <2> HIDE DEF a1
    <2>3. PICK v2 \in Nat \cap Supported : Has(r2, word, a1 \o <<v2>>, Append(a1, v2))
        BY <1>3, <1>8, <2>2, FieldHas DEF r2
    <2> DEFINE a2 == a1 \o <<v2>>
               b2 == Append(a1, v2)
    <2>4. Has(r2, word, a2, b2) /\ v2 \in Nat /\ v2 \in Supported
        BY <2>3
    <2> HIDE DEF a2, b2
    <2>5. PICK v3 \in Nat : Has(r3, word, a2 \o <<v3>>, Append(b2, v3))
        BY <1>3, <1>8, <2>4, FieldHas DEF r3
    <2> DEFINE a3 == a2 \o <<v3>>
               b3 == Append(b2, v3)
    <2>6. Has(r3, word, a3, b3)
        BY <2>5
    <2> HIDE DEF a3, b3
    <2>7. PICK f4 \in Seq(Nat), m \in 0 .. MaxInputs :
             /\ Len(f4) = m * 4
             /\ Has(r4, word, a3 \o (WriteVarint[m] \o f4), Append(b3, f4))
        BY <1>l, <1>3, <1>8, <2>6, ListHas DEF r4
    <2> DEFINE a4 == a3 \o (WriteVarint[m] \o f4)
               b4 == Append(b3, f4)
               ii == InputsOf(f4)
    <2>8. Has(r4, word, a4, b4) /\ m \in Nat /\ m <= MaxInputs
        BY <1>l, <2>7
    <2>9. ii \in Seq(TxIns) /\ Len(ii) = m /\ InFields(ii) = f4
        BY <2>7, <2>8, InputsCodec
    <2>10. r4.vals = b4 /\ Last(b4) = f4
        BY <2>6, <2>8, LastHas DEF Has
    <2> HIDE DEF a4, b4, ii
    <2>11. InputsInForm(ii) /\ Has(r5, word, a4, b4)
        <3>1. Require(r4, ins(r4)).ok
            BY <1>2, <1>3, <1>8
        <3>2. ins(r4)
            BY <1>2, <2>8, <3>1, RequireHas
        <3>3. Has(r5, word, a4, b4)
            BY <1>2, <2>8, <3>2, RequireHas
        <3> QED BY <2>10, <3>2, <3>3 DEF ins, ii
    <2>12. PICK f5 \in Seq(Nat), n \in 0 .. MaxOutputs :
             /\ Len(f5) = n * 2
             /\ Has(r6, word, a4 \o (WriteVarint[n] \o f5), Append(b4, f5))
        BY <1>l, <1>3, <1>8, <2>11, ListHas DEF r6
    <2> DEFINE a5 == a4 \o (WriteVarint[n] \o f5)
               b5 == Append(b4, f5)
               oo == OutputsOf(f5)
    <2>13. Has(r6, word, a5, b5) /\ n \in Nat /\ n <= MaxOutputs
        BY <1>l, <2>12
    <2>14. oo \in Seq(TxOuts) /\ Len(oo) = n /\ OutFields(oo) = f5
        BY <2>12, <2>13, OutputsCodec
    <2>15. r6.vals = b5 /\ Last(b5) = f5
        BY <2>11, <2>13, LastHas DEF Has
    <2> HIDE DEF a5, b5, oo
    <2>16. OutputsInForm(oo) /\ Has(r7, word, a5, b5)
        <3>1. Require(r6, outs(r6)).ok
            BY <1>2, <1>3, <1>8
        <3>2. outs(r6)
            BY <1>2, <2>13, <3>1, RequireHas
        <3>3. Has(r7, word, a5, b5)
            BY <1>2, <2>13, <3>2, RequireHas
        <3> QED BY <2>15, <3>2, <3>3 DEF outs, oo
    <2>17. Remaining(r7) \in Nat
        BY <2>16 DEF Has, Runs, Remaining
    <2>18. PICK f6 \in Seq(Nat), k \in 0 .. Remaining(r7) :
             /\ Len(f6) = k * 1
             /\ Has(r8, word, a5 \o (WriteVarint[k] \o f6), Append(b5, f6))
        <3>1. ReadList(r7, Remaining(r7), 1).ok
            BY <1>2, <1>3, <1>8
        <3> QED BY <1>2, <1>l, <2>16, <2>17, <3>1, ListHas
    <2> DEFINE a6 == a5 \o (WriteVarint[k] \o f6)
               b6 == Append(b5, f6)
    <2>19. Has(r8, word, a6, b6) /\ k = Len(f6)
        BY <2>17, <2>18
    <2>20. r8.vals = b6 /\ Last(b6) = f6
        BY <2>16, <2>19, LastHas DEF Has
    <2> HIDE DEF a6, b6
    <2>21. Len(f6) <= MaxExtra /\ Has(r9, word, a6, b6)
        <3>1. Require(r8, few(r8)).ok
            BY <1>2, <1>3, <1>8
        <3>2. few(r8)
            BY <1>2, <2>19, <3>1, RequireHas
        <3>3. Has(r9, word, a6, b6)
            BY <1>2, <2>19, <3>2, RequireHas
        <3> QED BY <2>20, <3>2, <3>3 DEF few
    <2>22. a6 = word /\ s = r9
        BY <1>8, <2>21, FinishHas DEF s
    <2> DEFINE t == [version |-> v1, type |-> v2, fee |-> v3, inputs |-> ii, outputs |-> oo, extra |-> f6]
    <2>23. t \in Transactions
        BY <2>2, <2>4, <2>9, <2>14 DEF Transactions
    <2>24. /\ t.version = v1 /\ t.type = v2 /\ t.fee = v3 /\ t.inputs = ii /\ t.outputs = oo /\ t.extra = f6
        OBVIOUS
    <2> HIDE DEF t
    <2>25. TxInForm(t)
        BY <1>5, <2>2, <2>4, <2>8, <2>9, <2>11, <2>13, <2>14, <2>16, <2>21, <2>24
           DEF TxInForm, OutputsInForm
    <2>26. EncodeTx(t) = word
        <3>1. a3 = <<v1, v2, v3>>
            BY <1>7, <2>2, <2>4 DEF a3, a2, a1
        <3>2. TxHead(t) = a3 /\ TxIn(t) = WriteVarint[m] \o f4 /\ TxOut(t) = WriteVarint[n] \o f5
              /\ TxExtra(t) = WriteVarint[k] \o f6
            BY <2>9, <2>14, <2>19, <2>24, <3>1 DEF TxHead, TxIn, TxOut, TxExtra
        <3>3. EncodeTx(t) = ((TxHead(t) \o TxIn(t)) \o TxOut(t)) \o TxExtra(t)
            BY <2>23, TxWord
        <3> QED BY <2>22, <3>2, <3>3 DEF a6, a5, a4
    <2>27. b6 = TxVals(t)
        <3>1. v1 \in Vals /\ v2 \in Vals /\ v3 \in Vals /\ f4 \in Vals /\ f5 \in Vals /\ f6 \in Vals
            BY <2>2, <2>4, <2>5, <2>7, <2>12, <2>18 DEF Vals
        <3>2. SixVals(v1, v2, v3, f4, f5, f6)
            BY <3>1, SixRead
        <3>3. b6 = <<v1, v2, v3, f4, f5, f6>>
            BY <3>2 DEF SixVals, b6, b5, b4, b3, b2, a1
        <3> QED BY <2>9, <2>14, <2>24, <3>3 DEF TxVals
    <2>28. s.vals = TxVals(t)
        BY <2>21, <2>22, <2>27 DEF Has
    <2>29. TxFrom(s).val = t
        BY <2>23, <2>28, TxValIs
    <2> QED BY <2>23, <2>25, <2>26, <2>29
<1>9. ASSUME NEW t \in Transactions, TxInForm(t), EncodeTx(t) = word
      PROVE  s.ok
    <2> DEFINE v1 == t.version
               v2 == t.type
               v3 == t.fee
               f4 == InFields(t.inputs)
               f5 == OutFields(t.outputs)
               f6 == t.extra
               m == Len(t.inputs)
               n == Len(t.outputs)
               k == Len(t.extra)
               p4 == WriteVarint[m] \o f4
               p5 == WriteVarint[n] \o f5
               p6 == WriteVarint[k] \o f6
               a1 == <<v1>>
               a2 == a1 \o <<v2>>
               a3 == a2 \o <<v3>>
               a4 == a3 \o p4
               a5 == a4 \o p5
               a6 == a5 \o p6
               b2 == Append(a1, v2)
               b3 == Append(b2, v3)
               b4 == Append(b3, f4)
               b5 == Append(b4, f5)
               b6 == Append(b5, f6)
    <2>1. /\ v1 \in Nat /\ v2 \in Nat /\ v3 \in Nat
          /\ f4 \in Seq(Nat) /\ Len(f4) = m * 4 /\ InputsOf(f4) = t.inputs
          /\ f5 \in Seq(Nat) /\ Len(f5) = n * 2 /\ OutputsOf(f5) = t.outputs
          /\ f6 \in Seq(Nat) /\ t.inputs \in Seq(TxIns) /\ t.outputs \in Seq(TxOuts)
        BY TxWord
    <2>2. /\ v1 \in Nat \cap {Version1} /\ v2 \in Nat \cap Supported
          /\ m \in Nat /\ m <= MaxInputs /\ n \in Nat /\ n <= MaxOutputs /\ k \in Nat /\ k <= MaxExtra
        BY <1>9, <2>1 DEF TxInForm
    <2>3. InputsInForm(InputsOf(f4)) /\ OutputsInForm(OutputsOf(f5))
        BY <1>5, <1>9, <2>1 DEF TxInForm, OutputsInForm
    <2>4. /\ p4 \in Seq(Nat) /\ p5 \in Seq(Nat) /\ p6 \in Seq(Nat)
        BY TxWord DEF TxIn, TxOut, TxExtra
    <2>5. a6 = word
        <3>1. a3 = TxHead(t)
            BY <1>7, <2>1 DEF TxHead
        <3>2. p4 = TxIn(t) /\ p5 = TxOut(t) /\ p6 = TxExtra(t)
            BY DEF TxIn, TxOut, TxExtra
        <3>3. EncodeTx(t) = ((TxHead(t) \o TxIn(t)) \o TxOut(t)) \o TxExtra(t)
            BY TxWord
        <3> QED BY <1>9, <3>1, <3>2, <3>3
    <2>6. /\ Len(f6) = k * 1 /\ Fitting(m) /\ Fitting(n) /\ Fitting(k)
          /\ m \in 0 .. MaxInputs /\ n \in 0 .. MaxOutputs
        <3>1. k * 1 = k /\ m \in 0 .. MaxInputs /\ n \in 0 .. MaxOutputs /\ k \in 0 .. MaxExtra
            BY <1>l, <2>2
        <3> QED BY <1>l, <3>1
    <2>p. p4 = WriteVarint[m] \o f4 /\ p5 = WriteVarint[n] \o f5 /\ p6 = WriteVarint[k] \o f6
        OBVIOUS
    <2>q. Len(f6) = k
        OBVIOUS
    <2> HIDE DEF v1, v2, v3, f4, f5, f6, m, n, k, p4, p5, p6
    <2>7. a1 \in Seq(Nat) /\ <<v2>> \in Seq(Nat) /\ <<v3>> \in Seq(Nat)
        BY <2>1
    <2> HIDE DEF a1
    <2>8. a2 \in Seq(Nat)
        BY <2>7, ConcatProperties
    <2>9. a3 \in Seq(Nat)
        BY <2>7, <2>8, ConcatProperties
    <2>10. a4 \in Seq(Nat)
        BY <2>4, <2>9, ConcatProperties
    <2>11. a5 \in Seq(Nat)
        BY <2>4, <2>10, ConcatProperties
    <2>12. Stands(word, 0, a6)
        BY <2>5, StandsWhole
    <2>13. Stands(word, 0, a5)
        BY <2>4, <2>11, <2>12, StandsShorter
    <2>14. Stands(word, 0, a4)
        BY <2>4, <2>10, <2>13, StandsShorter
    <2>15. Stands(word, 0, a3)
        BY <2>4, <2>9, <2>14, StandsShorter
    <2>16. Stands(word, 0, a2)
        BY <2>7, <2>8, <2>15, StandsShorter
    <2>17. Stands(word, 0, a1)
        BY <2>7, <2>16, StandsShorter
    <2>18. Has(r1, word, a1, a1)
        BY <2>2, <2>17, FirstHas DEF r1, a1
    <2>19. Has(r2, word, a2, b2)
        BY <2>2, <2>16, <2>18, FieldHas DEF r2
    <2> HIDE DEF a2, b2
    <2>20. Has(r3, word, a3, b3)
        BY <2>1, <2>15, <2>19, FieldHas DEF r3
    <2> HIDE DEF a3, b3
    <2>21. Has(r4, word, a4, b4)
        <3>1. Stands(word, 0, a3 \o (WriteVarint[m] \o f4))
            BY <2>14, <2>p
        <3>2. Has(r4, word, a3 \o (WriteVarint[m] \o f4), Append(b3, f4))
            BY <1>l, <2>1, <2>6, <2>20, <3>1, ListHas DEF r4
        <3> QED BY <2>p, <3>2
    <2>22. r4.vals = b4 /\ Last(b4) = f4
        BY <2>1, <2>20, <2>21, LastHas DEF Has
    <2> HIDE DEF a4, b4
    <2>23. Has(r5, word, a4, b4)
        <3>1. ins(r4)
            BY <2>3, <2>22 DEF ins
        <3> QED BY <1>2, <2>21, <3>1, RequireHas
    <2>24. Has(r6, word, a5, b5)
        <3>1. Stands(word, 0, a4 \o (WriteVarint[n] \o f5))
            BY <2>13, <2>p
        <3>2. Has(r6, word, a4 \o (WriteVarint[n] \o f5), Append(b4, f5))
            BY <1>l, <2>1, <2>6, <2>23, <3>1, ListHas DEF r6
        <3> QED BY <2>p, <3>2
    <2>25. r6.vals = b5 /\ Last(b5) = f5
        BY <2>1, <2>23, <2>24, LastHas DEF Has
    <2> HIDE DEF a5, b5
    <2>26. Has(r7, word, a5, b5)
        <3>1. outs(r6)
            BY <2>3, <2>25 DEF outs
        <3> QED BY <1>2, <2>24, <3>1, RequireHas
    <2>27. Remaining(r7) \in Nat /\ k \in 0 .. Remaining(r7)
        <3>1. r7.pos = Len(a5) /\ r7.buf = word /\ Len(a5) \in Nat /\ Len(a5) <= Len(word) /\ Len(word) \in Nat
            BY <2>11, <2>26 DEF Has, Runs
        <3>2. Stands(word, 0 + Len(a5), p6)
            BY <2>4, <2>11, <2>12, StandsJoined
        <3>3. Len(a5) + Len(p6) <= Len(word)
            BY <3>1, <3>2 DEF Stands
        <3>4. WriteVarint[k] \in Seq(Nat)
            BY <2>2, VarintWritten DEF IsVarint
        <3>5. Len(p6) = Len(WriteVarint[k]) + k /\ Len(WriteVarint[k]) \in Nat
            <4> DEFINE w == WriteVarint[k]
            <4>1. w \in Seq(Nat)
                BY <3>4
            <4>2. p6 = w \o f6
                BY <2>p
            <4> HIDE DEF w
            <4>3. Len(w \o f6) = Len(w) + Len(f6) /\ Len(w) \in Nat
                BY <2>1, <4>1, ConcatProperties
            <4>4. Len(p6) = Len(w) + k /\ Len(w) \in Nat
                BY <2>q, <4>2, <4>3
            <4> QED BY <4>4 DEF w
        <3> DEFINE l == Len(WriteVarint[k])
        <3>6. Len(p6) = l + k /\ l \in Nat
            BY <3>5
        <3> HIDE DEF l
        <3> QED BY <2>2, <3>1, <3>3, <3>6 DEF Remaining
    <2>28. Has(r8, word, a6, b6)
        <3>1. Stands(word, 0, a5 \o (WriteVarint[k] \o f6))
            BY <2>12, <2>p
        <3>2. Has(ReadList(r7, Remaining(r7), 1), word, a5 \o (WriteVarint[k] \o f6), Append(b5, f6))
            BY <1>l, <2>1, <2>6, <2>26, <2>27, <3>1, ListHas
        <3> QED BY <1>2, <2>p, <3>2
    <2>29. r8.vals = b6 /\ Last(b6) = f6
        BY <2>1, <2>26, <2>28, LastHas DEF Has
    <2> HIDE DEF a6, b6
    <2>30. Has(r9, word, a6, b6)
        <3>1. few(r8)
            BY <2>2, <2>q, <2>29 DEF few
        <3> QED BY <1>2, <2>28, <3>1, RequireHas
    <2> QED BY <2>5, <2>30, FinishHas DEF s
<1>10. ASSUME TxFrom(s).ok
       PROVE  /\ TxFrom(s).val \in Transactions /\ TxInForm(TxFrom(s).val) /\ EncodeTx(TxFrom(s).val) = word
    BY <1>4, <1>8, <1>10
<1>11. ASSUME NEW t \in Transactions, TxInForm(t), EncodeTx(t) = word
       PROVE  TxFrom(s).ok
    BY <1>4, <1>9, <1>11
<1> QED BY <1>1, <1>10, <1>11 DEF Canonical

----------------------------------------------------------------------------
(* Two values are not written as one word.                                 *)

\* The parts of a word stand one after the other.
LEMMA PartsStand ==
    ASSUME NEW a \in Seq(Nat), NEW b \in Seq(Nat), NEW c \in Seq(Nat), NEW word, word = (a \o b) \o c
    PROVE  /\ word \in Seq(Nat) /\ Stands(word, 0, a) /\ Stands(word, Len(a), b)
           /\ Stands(word, Len(a \o b), c)
<1>1. a \o b \in Seq(Nat)
    BY ConcatProperties
<1> DEFINE ab == a \o b
<1>2. ab \in Seq(Nat) /\ word = ab \o c
    BY <1>1
<1>3. ab = a \o b
    OBVIOUS
<1> HIDE DEF ab
<1>4. word \in Seq(Nat)
    BY <1>2, ConcatProperties
<1>5. Stands(word, 0, ab \o c)
    BY <1>2, <1>4, StandsWhole
<1>6. Stands(word, 0, ab) /\ Stands(word, 0 + Len(ab), c)
    BY <1>2, <1>4, <1>5, StandsJoined
<1>7. Stands(word, 0, a) /\ Stands(word, 0 + Len(a), b)
    BY <1>3, <1>4, <1>6, StandsJoined
<1>8. 0 + Len(ab) = Len(ab) /\ 0 + Len(a) = Len(a)
    BY <1>2
<1> QED BY <1>3, <1>4, <1>6, <1>7, <1>8

\* A list of fields after a part of a known length.
LEMMA HashesWritten ==
    ASSUME NEW f \in Seq(Nat)
    PROVE  WriteVarint[Len(f)] \o f \in Seq(Nat)
<1> DEFINE w == WriteVarint[Len(f)]
<1>1. w \in Seq(Nat)
    BY VarintWritten DEF IsVarint
<1> HIDE DEF w
<1>2. w \o f \in Seq(Nat)
    BY <1>1, ConcatProperties
<1> QED BY <1>2 DEF w

\* Two words that part in two in the same place.
LEMMA PartsOnce ==
    ASSUME NEW a \in Seq(Nat), NEW b \in Seq(Nat), NEW word, word = a \o b
    PROVE  word \in Seq(Nat) /\ Stands(word, 0, a) /\ Stands(word, Len(a), b)
<1>1. word \in Seq(Nat)
    BY ConcatProperties
<1>2. Stands(word, 0, a \o b)
    BY <1>1, StandsWhole
<1>3. Stands(word, 0, a) /\ Stands(word, 0 + Len(a), b)
    BY <1>1, <1>2, StandsJoined
<1> QED BY <1>1, <1>3

\* The same identifiers are behind the same written hashes.
LEMMA HashesOnce ==
    ASSUME NEW f \in Seq(Nat), NEW g \in Seq(Nat), NEW word \in Seq(Nat), NEW at \in Nat,
           Stands(word, at, WriteVarint[Len(f)] \o f), Stands(word, at, WriteVarint[Len(g)] \o g)
    PROVE  f = g
<1>1. /\ Len(f) \in Nat /\ Len(g) \in Nat /\ 1 \in Nat /\ Len(f) = Len(f) * 1 /\ Len(g) = Len(g) * 1
    OBVIOUS
<1> QED BY <1>1, ListOnce

\* The values of a kind are written as words, and no two as one word.
WrittenOnce(kind) ==
    /\ \A v \in ValuesOf(kind) : Encode(kind, v) \in Seq(Nat)
    /\ \A v, w \in ValuesOf(kind) : Encode(kind, v) = Encode(kind, w) => v = w

\* The parts of a transaction stand in its word one after the other.
LEMMA TransactionOnce == WrittenOnce("transaction")
<1>1. /\ ValuesOf("transaction") = Transactions
      /\ \A t : Encode("transaction", t) = EncodeTx(t)
    BY DEF ValuesOf, Encode
<1>2. ASSUME NEW t \in Transactions
      PROVE  /\ EncodeTx(t) \in Seq(Nat)
             /\ Stands(EncodeTx(t), 0, TxHead(t)) /\ Stands(EncodeTx(t), Len(TxHead(t)), TxIn(t))
             /\ Stands(EncodeTx(t), Len(TxHead(t) \o TxIn(t)), TxOut(t))
             /\ Stands(EncodeTx(t), Len((TxHead(t) \o TxIn(t)) \o TxOut(t)), TxExtra(t))
    <2> DEFINE h == TxHead(t)
               i == TxIn(t)
               o == TxOut(t)
               e == TxExtra(t)
               hi == h \o i
               w == EncodeTx(t)
    <2>1. h \in Seq(Nat) /\ i \in Seq(Nat) /\ o \in Seq(Nat) /\ e \in Seq(Nat) /\ w = (hi \o o) \o e
        BY TxWord
    <2> HIDE DEF h, i, o, e, w
    <2>2. hi \in Seq(Nat)
        BY <2>1, ConcatProperties
    <2>3. hi = h \o i
        OBVIOUS
    <2> HIDE DEF hi
    <2>4. w \in Seq(Nat) /\ Stands(w, 0, hi) /\ Stands(w, Len(hi), o) /\ Stands(w, Len(hi \o o), e)
        BY <2>1, <2>2, PartsStand
    <2>5. Stands(w, 0, h) /\ Stands(w, 0 + Len(h), i)
        BY <2>1, <2>3, <2>4, StandsJoined
    <2>6. 0 + Len(h) = Len(h)
        BY <2>1
    <2> QED BY <2>3, <2>4, <2>5, <2>6 DEF h, i, o, e, w
<1>3. ASSUME NEW t \in Transactions, NEW u \in Transactions, EncodeTx(t) = EncodeTx(u)
      PROVE  t = u
    <2> DEFINE word == EncodeTx(t)
    <2>1. word \in Seq(Nat) /\ word = EncodeTx(u)
        BY <1>2, <1>3
    <2> DEFINE fits(x, y) ==
               /\ Stands(word, 0, TxHead(x)) /\ Stands(word, Len(TxHead(x)), TxIn(x))
               /\ Stands(word, Len(TxHead(x) \o TxIn(x)), TxOut(x))
               /\ Stands(word, Len((TxHead(x) \o TxIn(x)) \o TxOut(x)), TxExtra(x))
    <2>2. fits(t, t) /\ fits(u, u)
        BY <1>2, <2>1
    <2> HIDE DEF word
    <2>3. /\ t.version \in Nat /\ t.type \in Nat /\ t.fee \in Nat
          /\ u.version \in Nat /\ u.type \in Nat /\ u.fee \in Nat
        BY TxWord
    <2>4. /\ TxHead(t) \in Seq(Nat) /\ Len(TxHead(t)) = 3 /\ TxHead(u) \in Seq(Nat) /\ Len(TxHead(u)) = 3
        BY <2>3 DEF TxHead
    <2>5. TxHead(t) = TxHead(u)
        BY <2>2, <2>4, StandsOnce
    <2>6. t.version = u.version /\ t.type = u.type /\ t.fee = u.fee
        BY <2>5 DEF TxHead
    <2> DEFINE p3 == TxHead(t)
               p4 == p3 \o TxIn(t)
               p5 == p4 \o TxOut(t)
    <2>7. p3 \in Seq(Nat) /\ TxIn(t) \in Seq(Nat) /\ TxOut(t) \in Seq(Nat)
        BY TxWord
    <2> DEFINE i == TxIn(t)
               o == TxOut(t)
    <2>8. p4 \in Seq(Nat)
        <3> HIDE DEF p3
        <3>1. i \in Seq(Nat)
            BY <2>7
        <3> HIDE DEF i
        <3>2. p3 \o i \in Seq(Nat)
            BY <2>7, <3>1, ConcatProperties
        <3> QED BY <3>2 DEF i
    <2>9. p5 \in Seq(Nat)
        <3> HIDE DEF p4
        <3>1. o \in Seq(Nat)
            BY <2>7
        <3> HIDE DEF o
        <3>2. p4 \o o \in Seq(Nat)
            BY <2>8, <3>1, ConcatProperties
        <3> QED BY <3>2 DEF o
    <2>10. Len(p3) \in Nat /\ Len(p4) \in Nat /\ Len(p5) \in Nat
        <3> HIDE DEF p3, p4, p5
        <3> QED BY <2>7, <2>8, <2>9
    <2>11. /\ Len(t.inputs) \in Nat /\ Len(t.outputs) \in Nat /\ Len(t.extra) \in Nat
           /\ Len(u.inputs) \in Nat /\ Len(u.outputs) \in Nat /\ Len(u.extra) \in Nat
           /\ Len(t.extra) = Len(t.extra) * 1 /\ Len(u.extra) = Len(u.extra) * 1
        <3>1. /\ t.inputs \in Seq(TxIns) /\ t.outputs \in Seq(TxOuts) /\ t.extra \in Seq(Nat)
              /\ u.inputs \in Seq(TxIns) /\ u.outputs \in Seq(TxOuts) /\ u.extra \in Seq(Nat)
            BY TxWord
        <3> QED BY <3>1
    <2>12. Len(t.inputs) = Len(u.inputs) /\ InFields(t.inputs) = InFields(u.inputs)
        <3>1. Stands(word, Len(p3), TxIn(t)) /\ Stands(word, Len(p3), TxIn(u))
            BY <2>2, <2>5
        <3>2. /\ InFields(t.inputs) \in Seq(Nat) /\ Len(InFields(t.inputs)) = Len(t.inputs) * 4
              /\ InFields(u.inputs) \in Seq(Nat) /\ Len(InFields(u.inputs)) = Len(u.inputs) * 4
            BY TxWord
        <3> DEFINE f == InFields(t.inputs)
                   g == InFields(u.inputs)
                   m == Len(t.inputs)
                   n == Len(u.inputs)
                   at == Len(p3)
        <3>4. /\ f \in Seq(Nat) /\ g \in Seq(Nat) /\ m \in Nat /\ n \in Nat /\ at \in Nat
              /\ Len(f) = m * 4 /\ Len(g) = n * 4
            BY <2>10, <2>11, <3>2
        <3>5. Stands(word, at, WriteVarint[m] \o f) /\ Stands(word, at, WriteVarint[n] \o g)
            BY <3>1 DEF TxIn
        <3> HIDE DEF f, g, m, n, at
        <3>6. m = n /\ f = g
            BY <2>1, <3>4, <3>5, ListOnce
        <3> QED BY <3>6 DEF f, g, m, n
    <2>13. t.inputs = u.inputs /\ TxIn(t) = TxIn(u)
        <3>1. InputsOf(InFields(t.inputs)) = t.inputs /\ InputsOf(InFields(u.inputs)) = u.inputs
            BY TxWord
        <3> QED BY <2>12, <3>1 DEF TxIn
    <2>14. Len(t.outputs) = Len(u.outputs) /\ OutFields(t.outputs) = OutFields(u.outputs)
        <3>1. Stands(word, Len(p4), TxOut(t)) /\ Stands(word, Len(p4), TxOut(u))
            BY <2>2, <2>5, <2>13
        <3>2. /\ OutFields(t.outputs) \in Seq(Nat) /\ Len(OutFields(t.outputs)) = Len(t.outputs) * 2
              /\ OutFields(u.outputs) \in Seq(Nat) /\ Len(OutFields(u.outputs)) = Len(u.outputs) * 2
            BY TxWord
        <3> DEFINE f == OutFields(t.outputs)
                   g == OutFields(u.outputs)
                   m == Len(t.outputs)
                   n == Len(u.outputs)
                   at == Len(p4)
        <3>4. /\ f \in Seq(Nat) /\ g \in Seq(Nat) /\ m \in Nat /\ n \in Nat /\ at \in Nat
              /\ Len(f) = m * 2 /\ Len(g) = n * 2
            BY <2>10, <2>11, <3>2
        <3>5. Stands(word, at, WriteVarint[m] \o f) /\ Stands(word, at, WriteVarint[n] \o g)
            BY <3>1 DEF TxOut
        <3> HIDE DEF f, g, m, n, at
        <3>6. m = n /\ f = g
            BY <2>1, <3>4, <3>5, ListOnce
        <3> QED BY <3>6 DEF f, g, m, n
    <2>15. t.outputs = u.outputs /\ TxOut(t) = TxOut(u)
        <3>1. OutputsOf(OutFields(t.outputs)) = t.outputs /\ OutputsOf(OutFields(u.outputs)) = u.outputs
            BY TxWord
        <3> QED BY <2>14, <3>1 DEF TxOut
    <2>16. t.extra = u.extra
        <3>1. Stands(word, Len(p5), TxExtra(t)) /\ Stands(word, Len(p5), TxExtra(u))
            BY <2>2, <2>5, <2>13, <2>15
        <3>2. t.extra \in Seq(Nat) /\ u.extra \in Seq(Nat)
            BY TxWord
        <3> DEFINE at == Len(p5)
        <3>3. Stands(word, at, TxExtra(t)) /\ Stands(word, at, TxExtra(u)) /\ at \in Nat
            BY <2>10, <3>1
        <3> HIDE DEF at, p5
        <3> QED BY <2>1, <3>2, <3>3, HashesOnce DEF TxExtra
    <2>17. /\ t = [version |-> t.version, type |-> t.type, fee |-> t.fee,
                   inputs |-> t.inputs, outputs |-> t.outputs, extra |-> t.extra]
           /\ u = [version |-> u.version, type |-> u.type, fee |-> u.fee,
                   inputs |-> u.inputs, outputs |-> u.outputs, extra |-> u.extra]
        BY DEF Transactions
    <2> HIDE DEF p3, p4, p5, i, o, fits
    <2> QED BY <2>6, <2>13, <2>15, <2>16, <2>17
<1> QED BY <1>1, <1>2, <1>3 DEF WrittenOnce

\* A header at the front of a word, and a list at its end.
LEMMA HeaderStands ==
    ASSUME NEW h \in HeaderValues, NEW g \in HeaderValues, NEW word \in Seq(Nat),
           Stands(word, 0, EncodeHeader(h)), Stands(word, 0, EncodeHeader(g))
    PROVE  h = g
<1> DEFINE v(x) == <<x.version>>
           l(x) == WriteVarint[Len(x.parents)] \o x.parents
           f(x) == <<x.height, x.timestamp, x.nonce, x.root>>
<1>1. ASSUME NEW x \in HeaderValues, Stands(word, 0, EncodeHeader(x))
      PROVE  /\ v(x) \in Seq(Nat) /\ Len(v(x)) = 1 /\ f(x) \in Seq(Nat) /\ Len(f(x)) = 4
             /\ Stands(word, 0, v(x)) /\ Stands(word, 1, l(x)) /\ Stands(word, Len(v(x) \o l(x)), f(x))
             /\ Len(v(x) \o l(x)) \in Nat
    <2> DEFINE a == v(x)
               b == l(x)
               c == f(x)
               ab == a \o b
    <2>1. /\ a \in Seq(Nat) /\ Len(a) = 1 /\ c \in Seq(Nat) /\ Len(c) = 4 /\ EncodeHeader(x) = ab \o c
        <3>1. EncodeHeader(x) = ab \o c
            BY HeaderWord
        <3>2. x.version \in Nat /\ x.height \in Nat /\ x.timestamp \in Nat /\ x.nonce \in Nat /\ x.root \in Nat
            BY HeaderWord
        <3>3. a \in Seq(Nat) /\ Len(a) = 1
            BY <3>2
        <3>4. c \in Seq(Nat) /\ Len(c) = 4
            BY <3>2
        <3> QED BY <3>1, <3>3, <3>4
    <2>2. b \in Seq(Nat)
        <3>1. x.parents \in Seq(Nat)
            BY HeaderWord
        <3> QED BY <3>1, HashesWritten
    <2> HIDE DEF a, b, c
    <2>3. ab \in Seq(Nat)
        BY <2>1, <2>2, ConcatProperties
    <2>4. ab = a \o b
        OBVIOUS
    <2> HIDE DEF ab
    <2>5. Stands(word, 0, ab \o c)
        BY <1>1, <2>1
    <2>6. Stands(word, 0, ab) /\ Stands(word, 0 + Len(ab), c)
        BY <2>1, <2>3, <2>5, StandsJoined
    <2>7. Stands(word, 0, a) /\ Stands(word, 0 + Len(a), b)
        BY <2>1, <2>2, <2>4, <2>6, StandsJoined
    <2>8. 0 + Len(ab) = Len(ab) /\ 0 + Len(a) = 1 /\ Len(ab) \in Nat
        BY <2>1, <2>3
    <2> QED BY <2>1, <2>4, <2>6, <2>7, <2>8 DEF a, b, c
<1>2. v(h) = v(g)
    <2> DEFINE a == v(h)
               b == v(g)
    <2>1. a \in Seq(Nat) /\ b \in Seq(Nat) /\ Len(a) = Len(b) /\ Stands(word, 0, a) /\ Stands(word, 0, b)
        BY <1>1
    <2> HIDE DEF a, b
    <2>2. a = b
        BY <2>1, StandsOnce
    <2> QED BY <2>2 DEF a, b
<1>3. Len(h.parents) = Len(g.parents) /\ h.parents = g.parents
    <2>1. Stands(word, 1, l(h)) /\ Stands(word, 1, l(g))
        BY <1>1
    <2>2. h.parents \in Seq(Nat) /\ g.parents \in Seq(Nat)
        BY HeaderWord
    <2>3. /\ Len(h.parents) \in Nat /\ Len(g.parents) \in Nat /\ 1 \in Nat
          /\ Len(h.parents) = Len(h.parents) * 1 /\ Len(g.parents) = Len(g.parents) * 1
        BY <2>2
    <2> QED BY <2>1, <2>2, <2>3, ListOnce
<1>4. f(h) = f(g)
    <2> DEFINE a == f(h)
               b == f(g)
    <2>1. Len(v(h) \o l(h)) = Len(v(g) \o l(g))
        BY <1>2, <1>3
    <2>2. /\ a \in Seq(Nat) /\ b \in Seq(Nat) /\ Len(a) = Len(b)
          /\ Stands(word, Len(v(h) \o l(h)), a) /\ Stands(word, Len(v(h) \o l(h)), b)
        <3> HIDE DEF v, l, f
        <3> QED BY <1>1, <2>1
    <2> HIDE DEF a, b
    <2>3. a = b
        BY <2>2, StandsOnce
    <2> QED BY <2>3 DEF a, b
<1>5. /\ h.version = g.version /\ h.height = g.height /\ h.timestamp = g.timestamp
      /\ h.nonce = g.nonce /\ h.root = g.root
    <2>1. h.version = g.version
        BY <1>2
    <2>2. f(h)[1] = f(g)[1] /\ f(h)[2] = f(g)[2] /\ f(h)[3] = f(g)[3] /\ f(h)[4] = f(g)[4]
        BY <1>4
    <2> QED BY <2>1, <2>2
<1>6. /\ h = [version |-> h.version, parents |-> h.parents, height |-> h.height,
               timestamp |-> h.timestamp, nonce |-> h.nonce, root |-> h.root]
      /\ g = [version |-> g.version, parents |-> g.parents, height |-> g.height,
               timestamp |-> g.timestamp, nonce |-> g.nonce, root |-> g.root]
    BY DEF HeaderValues
<1> HIDE DEF v, l, f
<1> QED BY <1>3, <1>5, <1>6

\* A header is the front of its own word.
LEMMA HeaderOnce == WrittenOnce("header")
<1>1. /\ ValuesOf("header") = HeaderValues
      /\ \A h : Encode("header", h) = EncodeHeader(h)
    BY DEF ValuesOf, Encode
<1>2. \A h \in HeaderValues : EncodeHeader(h) \in Seq(Nat)
    BY HeaderWord
<1>3. ASSUME NEW h \in HeaderValues, NEW g \in HeaderValues, EncodeHeader(h) = EncodeHeader(g)
      PROVE  h = g
    <2>1. Stands(EncodeHeader(h), 0, EncodeHeader(h))
        BY <1>2, StandsWhole
    <2> QED BY <1>2, <1>3, <2>1, HeaderStands
<1> QED BY <1>1, <1>2, <1>3 DEF WrittenOnce

\* A block is its header and, after it, its payload.
LEMMA BlockOnce == WrittenOnce("block")
<1>1. /\ ValuesOf("block") = BlockValues
      /\ \A b : Encode("block", b) = EncodeBlock(b)
    BY DEF ValuesOf, Encode
<1>2. ASSUME NEW b \in BlockValues
      PROVE  /\ b.header \in HeaderValues /\ b.txIds \in Seq(Nat) /\ EncodeHeader(b.header) \in Seq(Nat)
             /\ EncodeBlock(b) \in Seq(Nat) /\ Stands(EncodeBlock(b), 0, EncodeHeader(b.header))
             /\ Stands(EncodeBlock(b), Len(EncodeHeader(b.header)), WriteVarint[Len(b.txIds)] \o b.txIds)
    <2> DEFINE p == EncodeHeader(b.header)
               q == WriteVarint[Len(b.txIds)] \o b.txIds
               w == EncodeBlock(b)
    <2>1. b.header \in HeaderValues /\ b.txIds \in Seq(Nat)
        BY DEF BlockValues
    <2>2. p \in Seq(Nat) /\ q \in Seq(Nat) /\ w = p \o q
        BY <2>1, HeaderWord, HashesWritten, HashesCodec DEF EncodeBlock
    <2> HIDE DEF p, q, w
    <2>3. w \in Seq(Nat) /\ Stands(w, 0, p) /\ Stands(w, Len(p), q)
        BY <2>2, PartsOnce
    <2> QED BY <2>1, <2>2, <2>3 DEF p, q, w
<1>3. ASSUME NEW b \in BlockValues, NEW c \in BlockValues, EncodeBlock(b) = EncodeBlock(c)
      PROVE  b = c
    <2>1. b.header = c.header
        BY <1>2, <1>3, HeaderStands
    <2>2. Len(EncodeHeader(b.header)) \in Nat
        BY <1>2
    <2>3. b.txIds = c.txIds
        BY <1>2, <1>3, <2>1, <2>2, HashesOnce
    <2> QED BY <2>1, <2>3 DEF BlockValues
<1> QED BY <1>1, <1>2, <1>3 DEF WrittenOnce

\* The message of a checkpoint has one length.
LEMMA CheckpointOnce == WrittenOnce("checkpoint")
<1>1. /\ ValuesOf("checkpoint") = CheckpointValues
      /\ \A c : Encode("checkpoint", c) = EncodeCheckpoint(c)
    BY DEF ValuesOf, Encode
<1> DEFINE l(c) == WriteVarint[Len(c.signatures)] \o SeatFields(c.signatures)
<1>2. ASSUME NEW c \in CheckpointValues
      PROVE  /\ c.message \in Messages /\ c.signatures \in Seq(SeatSignatures)
             /\ SeatFields(c.signatures) \in Seq(Nat) /\ Len(SeatFields(c.signatures)) = Len(c.signatures) * 2
             /\ SignaturesOf(SeatFields(c.signatures)) = c.signatures /\ Len(c.signatures) \in Nat
             /\ EncodeCheckpoint(c) \in Seq(Nat) /\ Stands(EncodeCheckpoint(c), 0, EncodeMessage(c.message))
             /\ Stands(EncodeCheckpoint(c), 5, l(c))
    <2> DEFINE p == EncodeMessage(c.message)
               s == SeatFields(c.signatures)
               v == WriteVarint[Len(c.signatures)]
               w == EncodeCheckpoint(c)
    <2>1. c.message \in Messages /\ c.signatures \in Seq(SeatSignatures)
        BY DEF CheckpointValues
    <2>2. /\ s \in Seq(Nat) /\ Len(s) = Len(c.signatures) * 2 /\ SignaturesOf(s) = c.signatures
          /\ w = p \o (v \o s)
        BY <2>1, SignaturesCodec DEF EncodeCheckpoint
    <2>3. p \in Seq(Nat) /\ Len(p) = 5
        BY <2>1, MessageWord
    <2>4. Len(c.signatures) \in Nat
        BY <2>1
    <2>5. v \in Seq(Nat)
        BY <2>4, VarintWritten DEF IsVarint
    <2>6. l(c) = v \o s
        OBVIOUS
    <2> HIDE DEF p, s, v, w
    <2>7. v \o s \in Seq(Nat)
        BY <2>2, <2>5, ConcatProperties
    <2> DEFINE q == v \o s
    <2>8. q \in Seq(Nat) /\ w = p \o q
        BY <2>2, <2>7
    <2> HIDE DEF q
    <2>9. w \in Seq(Nat) /\ Stands(w, 0, p) /\ Stands(w, Len(p), q)
        BY <2>3, <2>8, PartsOnce
    <2> QED BY <2>1, <2>2, <2>3, <2>4, <2>6, <2>9 DEF p, s, w, q
<1> HIDE DEF l
<1>3. ASSUME NEW b \in CheckpointValues, NEW c \in CheckpointValues, EncodeCheckpoint(b) = EncodeCheckpoint(c)
      PROVE  b = c
    <2> DEFINE word == EncodeCheckpoint(b)
               m == EncodeMessage(b.message)
               n == EncodeMessage(c.message)
    <2>1. word \in Seq(Nat) /\ Stands(word, 0, m) /\ Stands(word, 0, n) /\ Stands(word, 5, l(b)) /\ Stands(word, 5, l(c))
        BY <1>2, <1>3
    <2>2. m \in Seq(Nat) /\ n \in Seq(Nat) /\ Len(m) = Len(n)
        BY <1>2, MessageWord
    <2>3. /\ m[2] = b.message.era /\ m[3] = b.message.sequence /\ m[4] = b.message.tip
          /\ m[5] = b.message.orderRoot
        BY <1>2, MessageWord
    <2>4. /\ n[2] = c.message.era /\ n[3] = c.message.sequence /\ n[4] = c.message.tip
          /\ n[5] = c.message.orderRoot
        BY <1>2, MessageWord
    <2> HIDE DEF word, m, n
    <2>5. m = n
        BY <2>1, <2>2, StandsOnce
    <2>6. b.message = c.message
        <3>1. b.message \in Messages /\ c.message \in Messages
            BY <1>2
        <3>2. /\ b.message = [era |-> b.message.era, sequence |-> b.message.sequence,
                              tip |-> b.message.tip, orderRoot |-> b.message.orderRoot]
              /\ c.message = [era |-> c.message.era, sequence |-> c.message.sequence,
                              tip |-> c.message.tip, orderRoot |-> c.message.orderRoot]
            BY <3>1 DEF Messages
        <3> QED BY <2>3, <2>4, <2>5, <3>2
    <2>7. SeatFields(b.signatures) = SeatFields(c.signatures)
        <3> DEFINE f == SeatFields(b.signatures)
                   g == SeatFields(c.signatures)
                   i == Len(b.signatures)
                   j == Len(c.signatures)
                   at == 5
        <3>1. /\ f \in Seq(Nat) /\ g \in Seq(Nat) /\ i \in Nat /\ j \in Nat /\ at \in Nat
              /\ Len(f) = i * 2 /\ Len(g) = j * 2
            BY <1>2
        <3>2. /\ Stands(word, at, WriteVarint[i] \o f) /\ Stands(word, at, WriteVarint[j] \o g)
              /\ word \in Seq(Nat)
            BY <2>1 DEF l
        <3> HIDE DEF f, g, i, j, at
        <3>3. i = j /\ f = g
            BY <3>1, <3>2, ListOnce
        <3> QED BY <3>3 DEF f, g
    <2>8. b.signatures = c.signatures
        BY <1>2, <2>7
    <2> QED BY <2>6, <2>8 DEF CheckpointValues
<1> QED BY <1>1, <1>2, <1>3 DEF WrittenOnce

\* Every field of an evidence has its place.
LEMMA EvidenceOnce == WrittenOnce("evidence")
<1>1. /\ ValuesOf("evidence") = EvidenceValues
      /\ \A e : Encode("evidence", e) = EncodeEvidence(e)
    BY DEF ValuesOf, Encode
<1>2. \A e \in EvidenceValues : EncodeEvidence(e) \in Seq(Nat)
    BY EvidenceWord
<1>3. ASSUME NEW d \in EvidenceValues, NEW e \in EvidenceValues, EncodeEvidence(d) = EncodeEvidence(e)
      PROVE  d = e
    <2>1. /\ d.seat = e.seat /\ d.first = e.first /\ d.firstSignature = e.firstSignature
          /\ d.second = e.second /\ d.secondSignature = e.secondSignature
        BY <1>3, EvidenceWord
    <2> QED BY <2>1 DEF EvidenceValues
<1> QED BY <1>1, <1>2, <1>3 DEF WrittenOnce

\* An authority is the first field of its word.
LEMMA AuthorityOnce == ASSUME DigestIsIdeal PROVE WrittenOnce("authority")
<1>1. /\ ValuesOf("authority") = Nat
      /\ \A v : Encode("authority", v) = <<v, Pad(v)>>
    BY DEF ValuesOf, Encode, EncodeAuthority
<1>2. ASSUME NEW v \in Nat PROVE <<v, Pad(v)>> \in Seq(Nat)
    <2>1. Pad(v) \in Nat
        <3>1. <<0, v>> \in Seq(Nat)
            OBVIOUS
        <3> QED BY <3>1 DEF Pad, DigestIsIdeal
    <2> QED BY <2>1
<1>3. \A v, w \in Nat : <<v, Pad(v)>> = <<w, Pad(w)>> => v = w
    OBVIOUS
<1> QED BY <1>1, <1>2, <1>3 DEF WrittenOnce

\* Both facts, of every kind.
LEMMA EveryKindCanonical ==
    ASSUME DigestIsIdeal, NEW kind \in Kinds
    PROVE  WrittenOnce(kind) /\ \A word \in Seq(Nat) : Canonical(kind, word)
<1>1. CASE kind = "transaction" BY <1>1, TransactionOnce, TransactionCanonical
<1>2. CASE kind = "header" BY <1>2, HeaderOnce, HeaderCanonical
<1>3. CASE kind = "block" BY <1>3, BlockOnce, BlockCanonical
<1>4. CASE kind = "checkpoint" BY <1>4, CheckpointOnce, CheckpointCanonical
<1>5. CASE kind = "evidence" BY <1>5, EvidenceOnce, EvidenceCanonical
<1>6. CASE kind = "authority" BY <1>6, AuthorityOnce, AuthorityCanonical
<1> QED BY <1>1, <1>2, <1>3, <1>4, <1>5, <1>6 DEF Kinds

----------------------------------------------------------------------------
(* Signing: an attempt that fails half-way leaves signatures that a later  *)
(* attempt can keep.  The argument is that the message does not depend on  *)
(* the signatures: it is the same before and after every attempt, so a     *)
(* signature once made stays good.                                         *)

\* The signatures of the transaction in hand are good or not there.
SignedInputs ==
    \A i \in DOMAIN held.value.inputs :
        \/ held.value.inputs[i].signature = 0
        \/ VerifySignature(held.value.inputs[i].signature, SigningMessage(held.value),
                  held.value.inputs[i].key)

SignInv ==
    /\ held = [kind |-> held.kind, value |-> held.value]
    /\ held.kind = "transaction" => held.value \in Transactions /\ SignedInputs

\* The message covers the inputs up to their signatures.
LEMMA MessageIgnoresSignatures ==
    ASSUME NEW t \in Transactions, NEW inputs \in Seq(TxIns),
           Len(inputs) = Len(t.inputs),
           \A i \in DOMAIN inputs : Unsigned(inputs[i]) = Unsigned(t.inputs[i])
    PROVE  SigningMessage([t EXCEPT !.inputs = inputs]) = SigningMessage(t)
<1> DEFINE u == [t EXCEPT !.inputs = inputs]
<1>1. DOMAIN inputs = DOMAIN t.inputs
  BY DEF Transactions
<1>2. u.inputs = inputs
  BY DEF Transactions
<1>3. [i \in DOMAIN u.inputs |-> Unsigned(u.inputs[i])]
        = [i \in DOMAIN t.inputs |-> Unsigned(t.inputs[i])]
  BY <1>1, <1>2
<1>4. ZeroSigned(u) = ZeroSigned(t)
  <2> DEFINE zero == [i \in DOMAIN t.inputs |-> Unsigned(t.inputs[i])]
  <2>1. [u EXCEPT !.inputs = zero] = [t EXCEPT !.inputs = zero]
    BY DEF Transactions
  <2> QED BY <2>1, <1>3 DEF ZeroSigned
<1> QED BY <1>4 DEF SigningMessage

\* The builder's containers are unsigned.
LEMMA InitSignInv == RelayInit => SignInv
<1> SUFFICES ASSUME RelayInit PROVE SignInv
  OBVIOUS
<1>1. /\ held = [kind |-> held.kind, value |-> held.value]
      /\ held.value \in ValuesOf(held.kind)
      /\ held.kind = "transaction" =>
            \A i \in DOMAIN held.value.inputs : held.value.inputs[i].signature = 0
  BY RelayAssumption DEF RelayInit
<1>2. held.kind = "transaction" => held.value \in Transactions
  BY <1>1 DEF ValuesOf
<1> QED BY <1>1, <1>2 DEF SignInv, SignedInputs

\* An attempt to sign keeps the message and the good signatures.
LEMMA SignKeeps ==
    ASSUME SignInv, NEW keys \in Seq(Points), Sign(keys)
    PROVE  /\ SignInv'
           /\ held.kind = "transaction" /\ held'.kind = "transaction"
           /\ SigningMessage(held'.value) = SigningMessage(held.value)
<1> DEFINE t      == held.value
           inputs == t.inputs
           signs  == Matching(inputs, keys)
           after  == [i \in DOMAIN inputs |->
                        IF i \in signs THEN [inputs[i] EXCEPT !.signature = Mark(keys[i])]
                                       ELSE inputs[i]]
<1>1. /\ held.kind = "transaction"
      /\ held = [kind |-> held.kind, value |-> held.value]
      /\ t \in Transactions
      /\ SignedInputs
  BY DEF Sign, SignInv
<1>2. /\ Len(keys) = Len(inputs)
      /\ held' = [held EXCEPT !.value.inputs = after]
      /\ signed' = signed \cup {<<keys[i], SigningMessage(t)>> : i \in signs}
  BY DEF Sign
<1>3. inputs \in Seq(TxIns)
  BY <1>1 DEF Transactions
<1>4. \A i \in DOMAIN inputs : inputs[i] \in TxIns
  BY <1>3
<1>5. \A i \in signs : i \in DOMAIN inputs /\ keys[i] = inputs[i].key /\ keys[i] \in Points
  <2> TAKE i \in signs
  <2>1. i \in DOMAIN inputs /\ \A j \in 1 .. i : keys[j] = inputs[j].key
    BY DEF Matching
  <2>2. i \in Nat /\ i >= 1 /\ i <= Len(keys)
    BY <2>1, <1>2, <1>3
  <2>3. i \in 1 .. i
    BY <2>2
  <2>4. i \in DOMAIN keys
    BY <2>2
  <2> QED BY <2>1, <2>3, <2>4
<1>6. \A i \in DOMAIN inputs :
        /\ after[i] \in TxIns
        /\ Unsigned(after[i]) = Unsigned(inputs[i])
        /\ after[i].key = inputs[i].key
        /\ after[i].signature = IF i \in signs THEN Mark(keys[i]) ELSE inputs[i].signature
  <2> TAKE i \in DOMAIN inputs
  <2>1. inputs[i] \in TxIns
    BY <1>4
  <2>2. CASE i \in signs
    <3>1. Mark(keys[i]) \in Nat
      BY <2>2, <1>5, RelayAssumption DEF Mark
    <3>2. after[i] = [inputs[i] EXCEPT !.signature = Mark(keys[i])]
      BY <2>2
    <3> QED BY <2>1, <2>2, <3>1, <3>2 DEF TxIns, Unsigned
  <2>3. CASE i \notin signs
    BY <2>1, <2>3
  <2> QED BY <2>2, <2>3
<1>7. after \in Seq(TxIns) /\ Len(after) = Len(inputs) /\ DOMAIN after = DOMAIN inputs
  <2>1. DOMAIN after = 1 .. Len(inputs) /\ Len(inputs) \in Nat
    BY <1>3
  <2>2. after = [i \in DOMAIN after |-> after[i]]
    OBVIOUS
  <2>3. \A i \in DOMAIN after : after[i] \in TxIns
    BY <1>6
  <2> HIDE DEF after
  <2>4. after \in Seq(TxIns) /\ Len(after) = Len(inputs)
    BY <2>1, <2>2, <2>3
  <2>5. DOMAIN inputs = 1 .. Len(inputs)
    BY <1>3
  <2> QED BY <2>1, <2>4, <2>5
<1>8. held' = [kind |-> held.kind, value |-> [t EXCEPT !.inputs = after]]
  BY <1>1, <1>2
<1>9. held'.value = [t EXCEPT !.inputs = after] /\ held'.kind = "transaction"
  BY <1>8, <1>1
<1>10. held'.value \in Transactions /\ held'.value.inputs = after
  BY <1>9, <1>1, <1>7 DEF Transactions
<1>11. SigningMessage(held'.value) = SigningMessage(t)
  <2>1. \A i \in DOMAIN after : Unsigned(after[i]) = Unsigned(t.inputs[i])
    BY <1>6, <1>7
  <2> HIDE DEF after
  <2>2. SigningMessage([t EXCEPT !.inputs = after]) = SigningMessage(t)
    BY <1>1, <1>7, <2>1, MessageIgnoresSignatures
  <2> QED BY <2>2, <1>9
<1>12. \A i \in DOMAIN after :
         \/ after[i].signature = 0
         \/ after[i].signature = Mark(after[i].key) /\ <<after[i].key, SigningMessage(t)>> \in signed'
  <2> TAKE i \in DOMAIN after
  <2>1. i \in DOMAIN inputs
    BY <1>7
  <2>2. CASE i \in signs
    <3>1. after[i].signature = Mark(inputs[i].key) /\ after[i].key = inputs[i].key
      BY <2>1, <2>2, <1>5, <1>6
    <3>2. <<keys[i], SigningMessage(t)>> \in signed'
      BY <2>2, <1>2
    <3>3. keys[i] = inputs[i].key
      BY <2>2, <1>5
    <3> QED BY <3>1, <3>2, <3>3
  <2>3. CASE i \notin signs
    <3>1. after[i].signature = inputs[i].signature /\ after[i].key = inputs[i].key
      BY <2>1, <2>3, <1>6
    <3>2. \/ inputs[i].signature = 0
          \/ /\ inputs[i].signature = Mark(inputs[i].key)
             /\ <<inputs[i].key, SigningMessage(t)>> \in signed
      BY <2>1, <1>1 DEF SignedInputs, VerifySignature
    <3>3. signed \subseteq signed'
      BY <1>2
    <3> QED BY <3>1, <3>2, <3>3
  <2> QED BY <2>2, <2>3
<1>13. SignedInputs'
  <2> HIDE DEF after
  <2> QED BY <1>10, <1>11, <1>12 DEF SignedInputs, VerifySignature
<1>14. held' = [kind |-> held'.kind, value |-> held'.value]
  <2> HIDE DEF after
  <2> QED BY <1>8
<1> QED BY <1>1, <1>9, <1>10, <1>11, <1>13, <1>14 DEF SignInv

\* Collecting concerns checkpoints.
LEMMA CollectKeeps ==
    ASSUME SignInv, NEW seat, NEW key, Collect(seat, key)
    PROVE  SignInv'
<1>1. held.kind = "checkpoint" /\ held = [kind |-> held.kind, value |-> held.value]
  BY DEF Collect, SignInv
<1>2. PICK v : held' = [held EXCEPT !.value = v]
  BY DEF Collect
<1>3. held' = [kind |-> "checkpoint", value |-> v]
  BY <1>1, <1>2
<1> QED BY <1>3 DEF SignInv

\* Every other step leaves the container and the signatures alone.
LEMMA OthersKeepSigned ==
    ASSUME SignInv, UNCHANGED <<held, signed>>
    PROVE  SignInv'
BY DEF SignInv, SignedInputs, VerifySignature

\* What signing rests on, of every reachable state.
THEOREM RelayInvariant == RelaySpec => []SignInv
<1>1. ASSUME SignInv, [RelayNext]_relayVars PROVE SignInv'
  <2>1. CASE \E keys \in SeqOf(Points, MaxInputs + 1) : Sign(keys)
    <3>1. PICK keys \in SeqOf(Points, MaxInputs + 1) : Sign(keys)
      BY <2>1
    <3>2. keys \in Seq(Points)
      BY DEF SeqOf
    <3> QED BY <1>1, <3>1, <3>2, SignKeeps
  <2>2. CASE \E seat \in 1 .. Seats, key \in Points : Collect(seat, key)
    BY <1>1, <2>2, CollectKeeps
  <2>3. CASE Send \/ Change \/ Lose \/ Receive \/ UNCHANGED relayVars
    <3>1. UNCHANGED <<held, signed>>
      BY <2>3 DEF Send, Change, Lose, Receive, relayVars
    <3> QED BY <1>1, <3>1, OthersKeepSigned
  <2> QED BY <1>1, <2>1, <2>2, <2>3 DEF RelayNext
<1> QED BY InitSignInv, <1>1, PTL DEF RelaySpec

\* A transaction that carries a signature on every input verifies, whatever
\* attempts to sign it failed before (tx.rs:492-507).
THEOREM RetriedSigningHolds == RelaySpec => []WhollySignedVerifies
<1>1. SignInv => WhollySignedVerifies
  BY DEF SignInv, SignedInputs, WhollySignedVerifies, VerifySignatures
<1> QED BY RelayInvariant, <1>1, PTL

----------------------------------------------------------------------------
(* The relay: what the keys signed and what is on the wire.                *)

\* The container in hand is one of its kind.
HeldInv ==
    /\ held = [kind |-> held.kind, value |-> held.value]
    /\ held.kind \in Kinds /\ held.value \in ValuesOf(held.kind)

\* What the keys sign.
Meant ==
    IF held.kind = "transaction" THEN SigningMessage(held.value) ELSE EncodeMessage(held.value.message)

\* The invariant of the relay: the word under way is one of naturals and, as
\* long as nobody changed it, the writer's; all that was ever signed is the
\* message of what is in hand; an accepted transfer has an input, and its
\* signatures verify.
RelayInv ==
    /\ SignInv /\ HeldInv
    /\ wire \in Seq(Nat) /\ faults \in Nat
    /\ faults = 0 /\ wire # <<>> => wire = Encode(held.kind, held.value)
    /\ signed # {} => held.kind \in {"transaction", "checkpoint"}
    /\ \A x \in signed : x[2] = Meant
    /\ \A t \in accepted :
         t \in Transactions /\ (t.type = Transfer => t.inputs # <<>> /\ VerifySignatures(t))

\* It holds of what a builder hands over.
LEMMA InitRelayInv == ASSUME RelayInit PROVE RelayInv
<1>1. SignInv
    BY InitSignInv
<1>2. HeldInv
    BY RelayAssumption DEF RelayInit, HeldInv
<1>3. /\ wire = <<>> /\ faults = 0 /\ signed = {} /\ accepted = {}
    BY DEF RelayInit
<1> QED BY <1>1, <1>2, <1>3 DEF RelayInv

\* A verified signature stays verified.
LEMMA VerifiedStays ==
    ASSUME signed \subseteq signed', NEW t, VerifySignatures(t)
    PROVE  VerifySignatures(t)'
BY DEF VerifySignatures, VerifySignature

\* Signing changes signatures, and not the message.
LEMMA SignStep ==
    ASSUME RelayInv, NEW keys \in Seq(Points), Sign(keys)
    PROVE  RelayInv'
<1>1. /\ SignInv' /\ held.kind = "transaction" /\ held'.kind = "transaction"
      /\ SigningMessage(held'.value) = SigningMessage(held.value)
    BY SignKeeps DEF RelayInv
<1>2. HeldInv'
    BY <1>1 DEF SignInv, HeldInv, Kinds, ValuesOf
<1>3. /\ wire = <<>> /\ wire' = wire /\ faults' = faults /\ accepted' = accepted
      /\ signed' = signed \cup {<<keys[i], SigningMessage(held.value)>> : i \in Matching(held.value.inputs, keys)}
    BY DEF Sign
<1>4. Meant' = Meant /\ Meant = SigningMessage(held.value)
    BY <1>1 DEF Meant
<1>5. \A x \in signed' : x[2] = Meant'
    <2> SUFFICES ASSUME NEW x \in signed' PROVE x[2] = Meant'
        OBVIOUS
    <2>1. CASE x \in signed
        BY <1>4, <2>1 DEF RelayInv
    <2>2. CASE \E i \in Matching(held.value.inputs, keys) : x = <<keys[i], SigningMessage(held.value)>>
        BY <1>4, <2>2
    <2> QED BY <1>3, <2>1, <2>2
<1>6. \A t \in accepted' :
        t \in Transactions /\ (t.type = Transfer => t.inputs # <<>> /\ VerifySignatures(t)')
    BY <1>3, VerifiedStays DEF RelayInv
<1>7. wire' \in Seq(Nat) /\ faults' \in Nat /\ wire' = <<>>
    BY <1>3 DEF RelayInv
<1> QED BY <1>1, <1>2, <1>5, <1>6, <1>7 DEF RelayInv

\* A seat signs the message of the checkpoint it joins.
LEMMA CollectStep ==
    ASSUME RelayInv, NEW seat \in 1 .. Seats, NEW key \in Points, Collect(seat, key)
    PROVE  RelayInv'
<1> DEFINE c == held.value
           after == Append(c.signatures, [seat |-> seat, signature |-> Mark(key)])
<1>1. /\ held.kind = "checkpoint" /\ held = [kind |-> held.kind, value |-> c]
      /\ c \in CheckpointValues
    BY DEF RelayInv, HeldInv, ValuesOf, Collect
<1>2. /\ wire = <<>> /\ wire' = wire /\ faults' = faults /\ accepted' = accepted
      /\ signed' = signed \cup {<<key, EncodeMessage(c.message)>>}
      /\ held' = [held EXCEPT !.value.signatures = after]
    BY DEF Collect
<1>3. after \in Seq(SeatSignatures)
    <2> DEFINE one == [seat |-> seat, signature |-> Mark(key)]
    <2>1. Seats \in Nat /\ key \in Nat
        BY RelayAssumption DEF Limits
    <2>2. one \in SeatSignatures
        BY <2>1 DEF SeatSignatures, Mark
    <2>3. c.signatures \in Seq(SeatSignatures)
        BY <1>1 DEF CheckpointValues
    <2> HIDE DEF one
    <2>4. Append(c.signatures, one) \in Seq(SeatSignatures)
        BY <2>2, <2>3, AppendProperties
    <2> QED BY <2>4 DEF one
<1> HIDE DEF after
<1>4. /\ held' = [kind |-> "checkpoint", value |-> [message |-> c.message, signatures |-> after]]
    BY <1>1, <1>2 DEF CheckpointValues
<1>5. /\ held'.kind = "checkpoint" /\ held'.value \in CheckpointValues /\ held'.value.message = c.message
      /\ held' = [kind |-> held'.kind, value |-> held'.value]
    BY <1>1, <1>3, <1>4 DEF CheckpointValues
<1>6. HeldInv' /\ SignInv'
    BY <1>5 DEF HeldInv, SignInv, Kinds, ValuesOf
<1>7. Meant' = Meant /\ Meant = EncodeMessage(c.message)
    BY <1>1, <1>5 DEF Meant
<1>8. \A x \in signed' : x[2] = Meant'
    <2> SUFFICES ASSUME NEW x \in signed' PROVE x[2] = Meant'
        OBVIOUS
    <2>1. CASE x \in signed
        BY <1>7, <2>1 DEF RelayInv
    <2>2. CASE x = <<key, EncodeMessage(c.message)>>
        BY <1>7, <2>2
    <2> QED BY <1>2, <2>1, <2>2
<1>9. \A t \in accepted' :
        t \in Transactions /\ (t.type = Transfer => t.inputs # <<>> /\ VerifySignatures(t)')
    BY <1>2, VerifiedStays DEF RelayInv
<1>10. wire' \in Seq(Nat) /\ faults' \in Nat /\ wire' = <<>>
    BY <1>2 DEF RelayInv
<1> QED BY <1>5, <1>6, <1>8, <1>9, <1>10 DEF RelayInv

\* A step that leaves the container, the signatures and what was accepted alone.
LEMMA WireStep ==
    ASSUME RelayInv, UNCHANGED <<held, signed, accepted>>, wire' \in Seq(Nat), faults' \in Nat,
           faults' = 0 /\ wire' # <<>> => wire' = Encode(held.kind, held.value)
    PROVE  RelayInv'
<1>1. SignInv' /\ HeldInv' /\ Meant' = Meant
    BY OthersKeepSigned DEF RelayInv, HeldInv, Meant
<1>2. \A t \in accepted' :
        t \in Transactions /\ (t.type = Transfer => t.inputs # <<>> /\ VerifySignatures(t)')
    BY VerifiedStays DEF RelayInv
<1>3. /\ signed' # {} => held'.kind \in {"transaction", "checkpoint"}
      /\ \A x \in signed' : x[2] = Meant'
    BY <1>1 DEF RelayInv
<1> QED BY <1>1, <1>2, <1>3 DEF RelayInv

\* A changed word is one of naturals.
LEMMA ChangedWords ==
    ASSUME NEW word \in Seq(Nat)
    PROVE  Changed(word) \subseteq Seq(Nat)
<1> DEFINE n == Len(word)
<1>1. n \in Nat /\ DOMAIN word = 1 .. n /\ \A i \in 1 .. n : word[i] \in Nat
    OBVIOUS
<1>2. Tokens \subseteq Nat /\ Base \in Nat
    BY RelayAssumption, WireAssumption
<1>3. ASSUME NEW i \in 1 .. n, NEW b \in Nat PROVE [word EXCEPT ![i] = b] \in Seq(Nat)
    BY <1>3, ExceptSeq
<1>4. ASSUME NEW v \in Seq(Nat), NEW i \in 1 .. Len(v) + 1, NEW b \in Nat PROVE InsertAt(v, i, b) \in Seq(Nat)
    <2> DEFINE l == Len(v)
               front == SubSeq(v, 1, i - 1)
               rest == SubSeq(v, i, l)
    <2>1. l \in Nat /\ i \in Int /\ i - 1 \in Int /\ \A j \in 1 .. l : v[j] \in Nat
        OBVIOUS
    <2>2. \A j \in 1 .. i - 1 : v[j] \in Nat
        BY <2>1
    <2>3. \A j \in i .. l : v[j] \in Nat
        BY <2>1
    <2>4. front \in Seq(Nat) /\ rest \in Seq(Nat)
        BY <2>1, <2>2, <2>3, SubSeqProperties
    <2>5. <<b>> \in Seq(Nat)
        OBVIOUS
    <2>6. InsertAt(v, i, b) = (front \o <<b>>) \o rest
        BY DEF InsertAt
    <2> HIDE DEF front, rest, l
    <2>7. front \o <<b>> \in Seq(Nat)
        BY <2>4, <2>5, ConcatProperties
    <2> DEFINE joined == front \o <<b>>
    <2>8. joined \in Seq(Nat)
        BY <2>7
    <2> HIDE DEF joined
    <2>9. joined \o rest \in Seq(Nat)
        BY <2>4, <2>8, ConcatProperties
    <2> QED BY <2>6, <2>9 DEF joined
<1>5. ASSUME NEW i \in 1 .. n PROVE RemoveAt(word, i) \in Seq(Nat)
    <2> DEFINE front == SubSeq(word, 1, i - 1)
               rest == SubSeq(word, i + 1, n)
    <2>1. i - 1 \in Int /\ i + 1 \in Int /\ n \in Int
        BY <1>1
    <2>2. \A j \in 1 .. i - 1 : word[j] \in Nat
        BY <1>1
    <2>3. \A j \in i + 1 .. n : word[j] \in Nat
        BY <1>1
    <2>4. front \in Seq(Nat) /\ rest \in Seq(Nat)
        <3> HIDE DEF n
        <3> QED BY <2>1, <2>2, <2>3, SubSeqProperties
    <2>5. RemoveAt(word, i) = front \o rest
        BY DEF RemoveAt
    <2> HIDE DEF front, rest
    <2> QED BY <2>4, <2>5, ConcatProperties
<1>6. ASSUME NEW i \in 1 .. n PROVE Padded(word, i) \in Seq(Nat)
    <2> DEFINE v == [word EXCEPT ![i] = word[i] + Base]
    <2>1. word[i] + Base \in Nat
        BY <1>1, <1>2
    <2>2. v \in Seq(Nat) /\ Len(v) = n
        BY <2>1, ExceptSeq
    <2>3. Padded(word, i) = InsertAt(v, i + 1, 0)
        BY DEF Padded
    <2> HIDE DEF v
    <2>4. i + 1 \in 1 .. Len(v) + 1 /\ 0 \in Nat
        BY <1>1, <2>2
    <2> QED BY <1>4, <2>2, <2>3, <2>4
<1>7. ASSUME NEW i \in 1 .. n, NEW m \in 1 .. 4, i + 2 * m - 1 <= n PROVE Transpose(word, i, m) \in Seq(Nat)
    <2> DEFINE w == Transpose(word, i, m)
    <2>1. w = [j \in 1 .. n |-> CASE j \in i .. i + m - 1         -> word[j + m]
                                  [] j \in i + m .. i + 2 * m - 1 -> word[j - m]
                                  [] OTHER                        -> word[j]]
        BY <1>1 DEF Transpose
    <2>2. ASSUME NEW j \in 1 .. n PROVE w[j] \in Nat
        <3>1. CASE j \in i .. i + m - 1
            <4>1. j + m \in 1 .. n
                BY <1>1, <1>7, <3>1
            <4> QED BY <1>1, <2>1, <3>1, <4>1
        <3>2. CASE j \in i + m .. i + 2 * m - 1
            <4>1. j - m \in 1 .. n /\ j \notin i .. i + m - 1
                BY <1>1, <1>7, <3>2
            <4> QED BY <1>1, <2>1, <3>2, <4>1
        <3>3. CASE j \notin i .. i + m - 1 /\ j \notin i + m .. i + 2 * m - 1
            BY <1>1, <2>1, <3>3
        <3> QED BY <3>1, <3>2, <3>3
    <2>3. w = [j \in 1 .. n |-> w[j]]
        BY <2>1
    <2> HIDE DEF w
    <2> QED BY <1>1, <2>2, <2>3 DEF w
<1> SUFFICES ASSUME NEW w \in Changed(word) PROVE w \in Seq(Nat)
    OBVIOUS
<1>8. CASE \E i \in 1 .. n, b \in Tokens : w = [word EXCEPT ![i] = b]
    BY <1>2, <1>3, <1>8
<1>9. CASE \E i \in 1 .. n : w = RemoveAt(word, i)
    BY <1>5, <1>9
<1>10. CASE \E i \in 1 .. Len(word) + 1, b \in Tokens : w = InsertAt(word, i, b)
    BY <1>2, <1>4, <1>10
<1>11. CASE \E i \in 1 .. n : w = Padded(word, i)
    BY <1>6, <1>11
<1>12. CASE \E i \in 1 .. n, m \in 1 .. 4 : i + 2 * m - 1 <= n /\ w = Transpose(word, i, m)
    BY <1>7, <1>12
<1>13. CASE w \in {Transpose(word, x[1], x[2]) : x \in {y \in (DOMAIN word) \X (1 .. 4) : y[1] + 2 * y[2] - 1 <= Len(word)}}
    <2>1. PICK x \in {y \in (DOMAIN word) \X (1 .. 4) : y[1] + 2 * y[2] - 1 <= Len(word)} :
             w = Transpose(word, x[1], x[2])
        BY <1>13
    <2>2. x[1] \in 1 .. n /\ x[2] \in 1 .. 4 /\ x[1] + 2 * x[2] - 1 <= n
        BY <1>1
    <2> QED BY <1>12, <2>1, <2>2
<1> QED BY <1>1, <1>8, <1>9, <1>10, <1>11, <1>13 DEF Changed

----------------------------------------------------------------------------
(* The four properties of the relay.                                       *)

\* The relay's steps, with the reader as an ideal digest leaves it.
LEMMA RelayStep ==
    ASSUME DigestIsIdeal, RelayInv, [RelayNext]_relayVars
    PROVE  RelayInv'
<1>1. CASE \E keys \in SeqOf(Points, MaxInputs + 1) : Sign(keys)
    <2>1. PICK keys \in SeqOf(Points, MaxInputs + 1) : Sign(keys)
        BY <1>1
    <2>2. keys \in Seq(Points)
        BY DEF SeqOf
    <2> QED BY <2>1, <2>2, SignStep
<1>2. CASE \E seat \in 1 .. Seats, key \in Points : Collect(seat, key)
    BY <1>2, CollectStep
<1>3. CASE Send
    <2>1. /\ UNCHANGED <<held, signed, accepted>> /\ wire' = Encode(held.kind, held.value)
          /\ faults' = faults
        BY <1>3 DEF Send
    <2>2. held.kind \in Kinds /\ held.value \in ValuesOf(held.kind) /\ faults \in Nat
        BY DEF RelayInv, HeldInv
    <2>3. WrittenOnce(held.kind)
        BY <2>2, EveryKindCanonical
    <2>4. wire' \in Seq(Nat)
        BY <2>1, <2>2, <2>3 DEF WrittenOnce
    <2> QED BY <2>1, <2>2, <2>4, WireStep
<1>4. CASE Change
    <2>1. /\ UNCHANGED <<held, signed, accepted>> /\ wire' \in Changed(wire) /\ faults' = faults + 1
        BY <1>4 DEF Change
    <2>2. wire \in Seq(Nat) /\ faults \in Nat
        BY DEF RelayInv
    <2>3. wire' \in Seq(Nat) /\ faults' \in Nat /\ faults' # 0
        BY <2>1, <2>2, ChangedWords
    <2> QED BY <2>1, <2>3, WireStep
<1>5. CASE Lose
    <2>1. /\ UNCHANGED <<held, signed, accepted>> /\ wire' = <<>> /\ faults' = faults /\ faults \in Nat
        BY <1>5 DEF Lose, RelayInv
    <2>2. wire' \in Seq(Nat)
        BY <2>1
    <2> QED BY <2>1, <2>2, WireStep
<1>6. CASE Receive
    <2> DEFINE read == DecodeTx(wire)
    <2>1. /\ held' = held /\ signed' = signed /\ wire' = <<>> /\ faults' = faults
          /\ read.ok /\ Validate(read.val) /\ VerifySignatures(read.val)
          /\ accepted' = accepted \cup {read.val}
        BY <1>6 DEF Receive
    <2>2. read.val \in Transactions
        <3>1. wire \in Seq(Nat) /\ Decode("transaction", wire) = DecodeTx(wire)
              /\ ValuesOf("transaction") = Transactions
            BY DEF RelayInv, Decode, ValuesOf
        <3> QED BY <2>1, <3>1, TransactionCanonical DEF Canonical
    <2>3. read.val.type = Transfer => read.val.inputs # <<>>
        BY <2>1 DEF Validate, Transfer, Coinbase
    <2> HIDE DEF read
    <2>4. SignInv' /\ HeldInv' /\ Meant' = Meant
        BY <2>1, OthersKeepSigned DEF RelayInv, HeldInv, Meant
    <2>5. \A t \in accepted' :
            t \in Transactions /\ (t.type = Transfer => t.inputs # <<>> /\ VerifySignatures(t)')
        <3>1. \A t : VerifySignatures(t) => VerifySignatures(t)'
            BY <2>1, VerifiedStays
        <3> QED BY <2>1, <2>2, <2>3, <3>1 DEF RelayInv
    <2>6. /\ wire' \in Seq(Nat) /\ faults' \in Nat
          /\ signed' # {} => held'.kind \in {"transaction", "checkpoint"}
          /\ \A x \in signed' : x[2] = Meant'
        BY <2>1, <2>4 DEF RelayInv
    <2> QED BY <2>1, <2>4, <2>5, <2>6 DEF RelayInv
<1>7. CASE UNCHANGED relayVars
    <2>1. UNCHANGED <<held, signed, accepted>> /\ wire' = wire /\ faults' = faults
        BY <1>7 DEF relayVars
    <2> QED BY <2>1, WireStep DEF RelayInv
<1> QED BY <1>1, <1>2, <1>3, <1>4, <1>5, <1>6, <1>7 DEF RelayNext

\* What the relay rests on, of every reachable state: the signatures made are on
\* the message in hand, and a word nobody changed is the writer's.
THEOREM WordsAreWritten ==
    ASSUME DigestIsIdeal
    PROVE  RelaySpec => []RelayInv
<1>1. RelayInit => RelayInv
    BY InitRelayInv
<1>2. RelayInv /\ [RelayNext]_relayVars => RelayInv'
    BY RelayStep
<1> QED BY <1>1, <1>2, PTL DEF RelaySpec

\* Whatever a reader takes, off any wire and as whatever container, is the one
\* word the writer makes of what was read, hence one identifier
\* (encode.rs:5-8, varint.rs:3-8): for every base, limit, container and fault,
\* as long as no two words have one digest.
THEOREM OneWordHolds ==
    ASSUME DigestIsIdeal
    PROVE  RelaySpec => []OneWordPerValue
<1>1. RelayInv => OneWordPerValue
    <2> SUFFICES ASSUME RelayInv, NEW kind \in Kinds, Decode(kind, wire).ok
                 PROVE  Encode(kind, Decode(kind, wire).val) = wire
        BY DEF OneWordPerValue
    <2>1. Canonical(kind, wire)
        BY EveryKindCanonical DEF RelayInv
    <2> QED BY <2>1 DEF Canonical
<1> QED BY <1>1, WordsAreWritten, PTL

\* A word nobody touched is read back as the value that was written, exactly
\* when that value has the canonical form; a checkpoint signed out of the order
\* of the seats has not (checkpoint.rs:115-125 against 179-196).
THEOREM WhatIsSentIsReadHolds ==
    ASSUME DigestIsIdeal
    PROVE  RelaySpec => []WhatIsSentIsRead
<1>1. RelayInv => WhatIsSentIsRead
    <2> SUFFICES ASSUME RelayInv, wire # <<>>, faults = 0
                 PROVE  /\ Decode(held.kind, wire).ok <=> InForm(held.kind, held.value)
                        /\ Decode(held.kind, wire).ok => Decode(held.kind, wire).val = held.value
        BY DEF WhatIsSentIsRead
    <2>1. /\ held.kind \in Kinds /\ held.value \in ValuesOf(held.kind) /\ wire \in Seq(Nat)
          /\ wire = Encode(held.kind, held.value)
        BY DEF RelayInv, HeldInv
    <2>2. Canonical(held.kind, wire) /\ WrittenOnce(held.kind)
        BY <2>1, EveryKindCanonical
    <2>3. ASSUME Decode(held.kind, wire).ok
          PROVE  Decode(held.kind, wire).val = held.value /\ InForm(held.kind, held.value)
        <3>1. /\ Decode(held.kind, wire).val \in ValuesOf(held.kind)
              /\ InForm(held.kind, Decode(held.kind, wire).val)
              /\ Encode(held.kind, Decode(held.kind, wire).val) = wire
            BY <2>2, <2>3 DEF Canonical
        <3>2. Decode(held.kind, wire).val = held.value
            BY <2>1, <2>2, <3>1 DEF WrittenOnce
        <3> QED BY <3>1, <3>2
    <2>4. InForm(held.kind, held.value) => Decode(held.kind, wire).ok
        BY <2>1, <2>2 DEF Canonical
    <2> QED BY <2>3, <2>4
<1> QED BY <1>1, WordsAreWritten, PTL

\* A value of the form is known from its lists taken as sets.
LEMMA UnorderedOnce ==
    ASSUME NEW kind \in Kinds, NEW v \in ValuesOf(kind), NEW w \in ValuesOf(kind),
           InForm(kind, v), InForm(kind, w), Unordered(kind, v) = Unordered(kind, w)
    PROVE  v = w
<1>1. CASE kind = "transaction"
    <2>1. v \in Transactions /\ w \in Transactions /\ TxInForm(v) /\ TxInForm(w)
          /\ [v EXCEPT !.inputs = ToSet(v.inputs)] = [w EXCEPT !.inputs = ToSet(w.inputs)]
        BY <1>1 DEF ValuesOf, InForm, Unordered
    <2>2. /\ v.version = w.version /\ v.type = w.type /\ v.fee = w.fee /\ v.outputs = w.outputs
          /\ v.extra = w.extra /\ ToSet(v.inputs) = ToSet(w.inputs)
          /\ v.inputs \in Seq(TxIns) /\ w.inputs \in Seq(TxIns)
        BY <2>1 DEF Transactions
    <2>3. v.inputs = w.inputs
        BY <2>1, <2>2, InputsAscend DEF TxInForm
    <2>4. /\ v = [version |-> v.version, type |-> v.type, fee |-> v.fee,
                  inputs |-> v.inputs, outputs |-> v.outputs, extra |-> v.extra]
          /\ w = [version |-> w.version, type |-> w.type, fee |-> w.fee,
                  inputs |-> w.inputs, outputs |-> w.outputs, extra |-> w.extra]
        BY <2>1 DEF Transactions
    <2> QED BY <2>2, <2>3, <2>4
<1>2. CASE kind = "header"
    <2>1. v \in HeaderValues /\ w \in HeaderValues /\ HeaderInForm(v) /\ HeaderInForm(w)
          /\ [v EXCEPT !.parents = ToSet(v.parents)] = [w EXCEPT !.parents = ToSet(w.parents)]
        BY <1>2 DEF ValuesOf, InForm, Unordered
    <2>2. /\ v.version = w.version /\ v.height = w.height /\ v.timestamp = w.timestamp
          /\ v.nonce = w.nonce /\ v.root = w.root /\ ToSet(v.parents) = ToSet(w.parents)
          /\ v.parents \in Seq(Nat) /\ w.parents \in Seq(Nat)
        BY <2>1 DEF HeaderValues
    <2>3. v.parents = w.parents
        BY <2>1, <2>2, IdsAscend DEF HeaderInForm
    <2>4. /\ v = [version |-> v.version, parents |-> v.parents, height |-> v.height,
                  timestamp |-> v.timestamp, nonce |-> v.nonce, root |-> v.root]
          /\ w = [version |-> w.version, parents |-> w.parents, height |-> w.height,
                  timestamp |-> w.timestamp, nonce |-> w.nonce, root |-> w.root]
        BY <2>1 DEF HeaderValues
    <2> QED BY <2>2, <2>3, <2>4
<1>3. CASE kind = "block"
    <2> DEFINE h == v.header
               g == w.header
    <2>1. v \in BlockValues /\ w \in BlockValues /\ BlockInForm(v) /\ BlockInForm(w)
          /\ Unordered("block", v) = Unordered("block", w)
        BY <1>3 DEF ValuesOf, InForm
    <2>2. h \in HeaderValues /\ g \in HeaderValues /\ v.txIds \in Seq(Nat) /\ w.txIds \in Seq(Nat)
        BY <2>1 DEF BlockValues
    <2>3. /\ Unordered("block", v) = [header |-> [h EXCEPT !.parents = ToSet(h.parents)], txIds |-> ToSet(v.txIds)]
          /\ Unordered("block", w) = [header |-> [g EXCEPT !.parents = ToSet(g.parents)], txIds |-> ToSet(w.txIds)]
        BY <2>1 DEF Unordered, BlockValues
    <2>4. /\ [h EXCEPT !.parents = ToSet(h.parents)] = [g EXCEPT !.parents = ToSet(g.parents)]
          /\ ToSet(v.txIds) = ToSet(w.txIds)
        BY <2>1, <2>3
    <2>5. HeaderInForm(h) /\ HeaderInForm(g)
        BY <2>1 DEF BlockInForm
    <2>6. /\ v = [header |-> h, txIds |-> v.txIds] /\ w = [header |-> g, txIds |-> w.txIds]
        BY <2>1 DEF BlockValues
    <2> HIDE DEF h, g
    <2>7. /\ h.version = g.version /\ h.height = g.height /\ h.timestamp = g.timestamp
          /\ h.nonce = g.nonce /\ h.root = g.root /\ ToSet(h.parents) = ToSet(g.parents)
          /\ h.parents \in Seq(Nat) /\ g.parents \in Seq(Nat)
        BY <2>2, <2>4 DEF HeaderValues
    <2>8. h.parents = g.parents
        BY <2>5, <2>7, IdsAscend DEF HeaderInForm
    <2>9. /\ h = [version |-> h.version, parents |-> h.parents, height |-> h.height,
                  timestamp |-> h.timestamp, nonce |-> h.nonce, root |-> h.root]
          /\ g = [version |-> g.version, parents |-> g.parents, height |-> g.height,
                  timestamp |-> g.timestamp, nonce |-> g.nonce, root |-> g.root]
        BY <2>2 DEF HeaderValues
    <2>10. h = g
        BY <2>7, <2>8, <2>9
    <2>11. v.txIds = w.txIds
        BY <2>1, <2>2, <2>4, IdsAscend DEF BlockInForm
    <2> QED BY <2>6, <2>10, <2>11
<1>4. CASE kind = "checkpoint"
    <2>1. v \in CheckpointValues /\ w \in CheckpointValues /\ CheckpointInForm(v) /\ CheckpointInForm(w)
          /\ [v EXCEPT !.signatures = ToSet(v.signatures)] = [w EXCEPT !.signatures = ToSet(w.signatures)]
        BY <1>4 DEF ValuesOf, InForm, Unordered
    <2>2. /\ v.message = w.message /\ ToSet(v.signatures) = ToSet(w.signatures)
          /\ v.signatures \in Seq(SeatSignatures) /\ w.signatures \in Seq(SeatSignatures)
        BY <2>1 DEF CheckpointValues
    <2>3. v.signatures = w.signatures
        BY <2>1, <2>2, SeatsAscend DEF CheckpointInForm
    <2>4. /\ v = [message |-> v.message, signatures |-> v.signatures]
          /\ w = [message |-> w.message, signatures |-> w.signatures]
        BY <2>1 DEF CheckpointValues
    <2> QED BY <2>2, <2>3, <2>4
<1>5. CASE kind = "evidence" \/ kind = "authority"
    BY <1>5 DEF Unordered
<1> QED BY <1>1, <1>2, <1>3, <1>4, <1>5 DEF Kinds

\* No word that reads as the same items in another order gets through, and no
\* block with the header that was sent and another payload (tx.rs:17-20,
\* header.rs:13-15, checkpoint.rs:11-12, block.rs:11-19).
THEOREM SubstitutionIsRefusedHolds ==
    ASSUME DigestIsIdeal
    PROVE  RelaySpec => []SubstitutionIsRefused
<1>1. ASSUME RelayInv PROVE ~Reordered
    <2> SUFFICES ASSUME Reordered PROVE FALSE
        OBVIOUS
    <2> DEFINE kind == held.kind
               v == Decode(kind, wire).val
    <2>1. /\ Decode(kind, wire).ok /\ InForm(kind, held.value)
          /\ Unordered(kind, v) = Unordered(kind, held.value) /\ wire # Encode(kind, held.value)
        BY DEF Reordered
    <2>2. kind \in Kinds /\ held.value \in ValuesOf(kind) /\ wire \in Seq(Nat)
        BY <1>1 DEF RelayInv, HeldInv
    <2>3. Canonical(kind, wire)
        BY <2>2, EveryKindCanonical
    <2>4. v \in ValuesOf(kind) /\ InForm(kind, v) /\ Encode(kind, v) = wire
        BY <2>1, <2>3 DEF Canonical
    <2>5. v = held.value
        BY <2>1, <2>2, <2>4, UnorderedOnce
    <2> QED BY <2>1, <2>4, <2>5
<1>2. ASSUME RelayInv PROVE ~Repackaged
    <2> SUFFICES ASSUME Repackaged PROVE FALSE
        OBVIOUS
    <2> DEFINE b == held.value
               c == DecodeBlock(wire).val
    <2>1. /\ held.kind = "block" /\ BlockInForm(b) /\ DecodeBlock(wire).ok
          /\ c.header = b.header /\ c.txIds # b.txIds
        BY DEF Repackaged, InForm
    <2>2. b \in BlockValues /\ wire \in Seq(Nat)
        BY <1>2, <2>1 DEF RelayInv, HeldInv, ValuesOf
    <2>3. c \in BlockValues /\ BlockInForm(c)
        <3>1. /\ Decode("block", wire) = DecodeBlock(wire) /\ ValuesOf("block") = BlockValues
              /\ \A x : InForm("block", x) <=> BlockInForm(x)
            BY DEF Decode, ValuesOf, InForm
        <3> QED BY <2>1, <2>2, <3>1, BlockCanonical DEF Canonical
    <2> HIDE DEF b, c
    <2> DEFINE f == b.txIds
               g == c.txIds
    <2>4. f \in Seq(Nat) /\ g \in Seq(Nat)
        BY <2>2, <2>3 DEF BlockValues
    <2>5. PayloadRoot(f) = PayloadRoot(g)
        BY <2>1, <2>3 DEF BlockInForm
    <2> HIDE DEF f, g
    <2>6. /\ WriteHashes(f) = WriteVarint[Len(f)] \o f /\ WriteHashes(g) = WriteVarint[Len(g)] \o g
          /\ WriteHashes(f) \in Seq(Nat) /\ WriteHashes(g) \in Seq(Nat)
        BY <2>4, HashesCodec, HashesWritten
    <2>7. WriteHashes(f) = WriteHashes(g)
        BY <2>5, <2>6 DEF PayloadRoot, DigestIsIdeal
    <2>8. /\ Stands(WriteHashes(f), 0, WriteVarint[Len(f)] \o f)
          /\ Stands(WriteHashes(f), 0, WriteVarint[Len(g)] \o g)
        BY <2>6, <2>7, StandsWhole
    <2>9. f = g
        BY <2>4, <2>6, <2>8, HashesOnce
    <2> QED BY <2>1, <2>9 DEF f, g
<1>3. RelayInv => SubstitutionIsRefused
    BY <1>1, <1>2 DEF SubstitutionIsRefused
<1> QED BY <1>3, WordsAreWritten, PTL

\* Zeroing the signatures leaves a transaction and all else in it.
LEMMA ZeroSignedIs ==
    ASSUME NEW t \in Transactions
    PROVE  /\ ZeroSigned(t) \in Transactions
           /\ ZeroSigned(t).version = t.version /\ ZeroSigned(t).type = t.type
           /\ ZeroSigned(t).fee = t.fee /\ ZeroSigned(t).outputs = t.outputs
           /\ ZeroSigned(t).extra = t.extra /\ Len(ZeroSigned(t).inputs) = Len(t.inputs)
           /\ \A i \in 1 .. Len(t.inputs) :
                /\ t.inputs[i] \in TxIns /\ ZeroSigned(t).inputs[i].ref = t.inputs[i].ref
                /\ ZeroSigned(t).inputs[i].key = t.inputs[i].key
<1> DEFINE zero == [i \in DOMAIN t.inputs |-> Unsigned(t.inputs[i])]
<1>1. t.inputs \in Seq(TxIns)
    BY DEF Transactions
<1>2. /\ DOMAIN t.inputs = 1 .. Len(t.inputs) /\ Len(t.inputs) \in Nat
      /\ \A i \in 1 .. Len(t.inputs) : t.inputs[i] \in TxIns
    BY <1>1
<1>3. \A i \in 1 .. Len(t.inputs) :
        /\ zero[i] \in TxIns /\ zero[i].ref = t.inputs[i].ref /\ zero[i].key = t.inputs[i].key
    BY <1>2 DEF Unsigned, TxIns
<1>4. zero = [i \in 1 .. Len(t.inputs) |-> zero[i]]
    BY <1>2
<1>5. ZeroSigned(t) = [t EXCEPT !.inputs = zero]
    BY DEF ZeroSigned
<1> HIDE DEF zero
<1>6. zero \in Seq(TxIns) /\ Len(zero) = Len(t.inputs)
    BY <1>2, <1>3, <1>4
<1>7. ZeroSigned(t) = [version |-> t.version, type |-> t.type, fee |-> t.fee,
                       inputs |-> zero, outputs |-> t.outputs, extra |-> t.extra]
    BY <1>5 DEF Transactions
<1>8. ZeroSigned(t) \in Transactions
    BY <1>6, <1>7 DEF Transactions
<1> QED BY <1>2, <1>3, <1>6, <1>7, <1>8

\* One message is signed for one transaction.
LEMMA OneMessage ==
    ASSUME NEW t \in Transactions, NEW u \in Transactions, SigningMessage(t) = SigningMessage(u)
    PROVE  ZeroSigned(t) = ZeroSigned(u)
<1>1. ZeroSigned(t) \in Transactions /\ ZeroSigned(u) \in Transactions
    BY ZeroSignedIs
<1>2. EncodeTx(ZeroSigned(t)) = EncodeTx(ZeroSigned(u))
    BY DEF SigningMessage
<1> QED BY <1>1, <1>2, TransactionOnce DEF WrittenOnce, ValuesOf, Encode

\* Transactions that differ in nothing but signatures, all of them the marks
\* of the keys, do not differ.
LEMMA MarkedOnce ==
    ASSUME NEW t \in Transactions, NEW u \in Transactions, ZeroSigned(t) = ZeroSigned(u),
           \A i \in DOMAIN t.inputs : t.inputs[i].signature = Mark(t.inputs[i].key),
           \A i \in DOMAIN u.inputs : u.inputs[i].signature = Mark(u.inputs[i].key)
    PROVE  t = u
<1>1. /\ t.version = u.version /\ t.type = u.type /\ t.fee = u.fee /\ t.outputs = u.outputs
      /\ t.extra = u.extra /\ Len(t.inputs) = Len(u.inputs)
    BY ZeroSignedIs
<1>2. t.inputs \in Seq(TxIns) /\ u.inputs \in Seq(TxIns)
    BY DEF Transactions
<1>3. ASSUME NEW i \in 1 .. Len(t.inputs) PROVE t.inputs[i] = u.inputs[i]
    <2> DEFINE a == t.inputs[i]
               b == u.inputs[i]
    <2>1. a \in TxIns /\ b \in TxIns /\ a.ref = b.ref /\ a.key = b.key
        BY <1>1, ZeroSignedIs
    <2>2. a.signature = b.signature
        BY <1>1, <1>2, <2>1
    <2> HIDE DEF a, b
    <2>3. a = b
        <3>1. a = [ref |-> a.ref, key |-> a.key, signature |-> a.signature]
              /\ b = [ref |-> b.ref, key |-> b.key, signature |-> b.signature]
            BY <2>1 DEF TxIns
        <3> QED BY <2>1, <2>2, <3>1
    <2> QED BY <2>3 DEF a, b
<1>4. t.inputs = u.inputs
    BY <1>1, <1>2, <1>3, SeqEqual
<1>5. /\ t = [version |-> t.version, type |-> t.type, fee |-> t.fee,
              inputs |-> t.inputs, outputs |-> t.outputs, extra |-> t.extra]
      /\ u = [version |-> u.version, type |-> u.type, fee |-> u.fee,
              inputs |-> u.inputs, outputs |-> u.outputs, extra |-> u.extra]
    BY DEF Transactions
<1> QED BY <1>1, <1>4, <1>5

\* What is signed for a transaction with an input is longer than what is
\* signed for a checkpoint.
LEMMA MessagesDiffer ==
    ASSUME NEW t \in Transactions, t.inputs # <<>>, NEW m \in Messages
    PROVE  SigningMessage(t) # EncodeMessage(m)
<1> DEFINE z == ZeroSigned(t)
           k == Len(z.inputs)
           h == TxHead(z)
           v == WriteVarint[k]
           f == InFields(z.inputs)
           o == TxOut(z)
           e == TxExtra(z)
           w == EncodeTx(z)
<1>1. z \in Transactions /\ k = Len(t.inputs)
    BY ZeroSignedIs
<1>2. k \in Nat /\ k > 0
    <2>1. t.inputs \in Seq(TxIns)
        BY DEF Transactions
    <2> QED BY <1>1, <2>1
<1> HIDE DEF z
<1>3. /\ h \in Seq(Nat) /\ f \in Seq(Nat) /\ Len(f) = k * 4
      /\ o \in Seq(Nat) /\ e \in Seq(Nat) /\ w = ((h \o (v \o f)) \o o) \o e
    <2>1. /\ TxHead(z) \in Seq(Nat) /\ InFields(z.inputs) \in Seq(Nat)
          /\ Len(InFields(z.inputs)) = Len(z.inputs) * 4
          /\ TxOut(z) \in Seq(Nat) /\ TxExtra(z) \in Seq(Nat)
          /\ EncodeTx(z) = ((TxHead(z) \o TxIn(z)) \o TxOut(z)) \o TxExtra(z)
        BY <1>1, TxWord
    <2> QED BY <2>1 DEF TxIn
<1>4. Len(h) = 3
    BY <1>1 DEF TxHead
<1>5. v \in Seq(Nat)
    BY <1>2, VarintWritten DEF IsVarint
<1> HIDE DEF k, h, v, f, o, e, w
<1> DEFINE i == v \o f
           hi == h \o i
           hio == hi \o o
<1>6. i \in Seq(Nat) /\ Len(i) = Len(v) + Len(f)
    BY <1>3, <1>5, ConcatProperties
<1> HIDE DEF i
<1>7. hi \in Seq(Nat) /\ Len(hi) = Len(h) + Len(i)
    BY <1>3, <1>6, ConcatProperties
<1> HIDE DEF hi
<1>8. hio \in Seq(Nat) /\ Len(hio) = Len(hi) + Len(o)
    BY <1>3, <1>7, ConcatProperties
<1> HIDE DEF hio
<1>9. Len(w) = Len(hio) + Len(e)
    <2>1. w = hio \o e
        BY <1>3 DEF hio, hi, i
    <2> QED BY <1>3, <1>8, <2>1, ConcatProperties
<1>10. Len(w) > 5
    <2>1. Len(v) \in Nat /\ Len(o) \in Nat /\ Len(e) \in Nat
        BY <1>3, <1>5
    <2>2. k * 4 >= 4
        BY <1>2
    <2>3. Len(i) >= 4
        BY <1>3, <1>6, <2>1, <2>2
    <2>4. Len(hi) >= 7
        BY <1>4, <1>7, <2>3
    <2>5. Len(hio) >= 7
        BY <1>8, <2>1, <2>4
    <2> QED BY <1>9, <2>1, <2>5
<1>11. Len(EncodeMessage(m)) = 5
    BY MessageWord
<1>12. SigningMessage(t) = w
    BY DEF SigningMessage, w, z
<1>13. ASSUME SigningMessage(t) = EncodeMessage(m) PROVE FALSE
    <2>1. w = EncodeMessage(m)
        BY <1>12, <1>13
    <2>2. Len(w) = 5
        BY <1>11, <2>1, Zenon
    <2>3. 5 > 5
        BY <1>10, <2>2, Zenon
    <2> QED BY <2>3
<1> QED BY <1>13

\* Every transfer the receiver accepts is, but for the signatures, the one in
\* the sender's hand, signed by the owner of each of its inputs, and no two
\* accepted ones differ (tx.rs:17-22, 492-507).
THEOREM AcceptedWasSignedHolds ==
    ASSUME DigestIsIdeal
    PROVE  RelaySpec => []AcceptedWasSigned
<1> DEFINE transfers == {x \in accepted : x.type = Transfer}
<1>1. ASSUME RelayInv, NEW t \in transfers
      PROVE  /\ t \in Transactions /\ t.inputs # <<>>
             /\ \A i \in DOMAIN t.inputs :
                  /\ t.inputs[i].signature = Mark(t.inputs[i].key)
                  /\ <<t.inputs[i].key, SigningMessage(t)>> \in signed
    BY <1>1 DEF RelayInv, VerifySignatures, VerifySignature
<1>2. ASSUME RelayInv, NEW t \in transfers
      PROVE  /\ held.kind = "transaction" /\ held.value \in Transactions
             /\ SigningMessage(t) = SigningMessage(held.value)
    <2>1. /\ t \in Transactions /\ 1 \in DOMAIN t.inputs
        <3>1. t \in Transactions /\ t.inputs # <<>> /\ t.inputs \in Seq(TxIns)
            BY <1>1, <1>2 DEF Transactions
        <3> QED BY <3>1
    <2>2. <<t.inputs[1].key, SigningMessage(t)>> \in signed
        BY <1>1, <1>2, <2>1
    <2>3. SigningMessage(t) = Meant
        <3>1. \A x \in signed : x[2] = Meant
            BY <1>2 DEF RelayInv
        <3>2. <<t.inputs[1].key, SigningMessage(t)>>[2] = Meant
            BY <2>2, <3>1
        <3> QED BY <3>2
    <2>4. held.kind = "transaction"
        <3>1. SUFFICES ASSUME held.kind = "checkpoint" PROVE FALSE
            BY <1>2, <2>2 DEF RelayInv
        <3>2. held.value.message \in Messages
            BY <1>2, <3>1 DEF RelayInv, HeldInv, ValuesOf, CheckpointValues
        <3>3. SigningMessage(t) = EncodeMessage(held.value.message)
            BY <2>3, <3>1 DEF Meant
        <3>4. t.inputs # <<>>
            BY <1>1, <1>2
        <3> QED BY <2>1, <3>2, <3>3, <3>4, MessagesDiffer
    <2>5. held.value \in Transactions
        BY <1>2, <2>4 DEF RelayInv, SignInv
    <2> QED BY <2>3, <2>4, <2>5 DEF Meant
<1>3. ASSUME RelayInv, NEW t \in transfers
      PROVE  /\ held.kind = "transaction" /\ ZeroSigned(t) = ZeroSigned(held.value)
             /\ \A i \in DOMAIN t.inputs : <<t.inputs[i].key, SigningMessage(held.value)>> \in signed
    <2>1. ZeroSigned(t) = ZeroSigned(held.value)
        BY <1>1, <1>2, <1>3, OneMessage
    <2> QED BY <1>1, <1>2, <1>3, <2>1
<1>4. ASSUME RelayInv, NEW t \in transfers, NEW u \in transfers
      PROVE  u = t
    <2>1. ZeroSigned(u) = ZeroSigned(t)
        BY <1>3, <1>4
    <2> QED BY <1>1, <1>4, <2>1, MarkedOnce
<1>5. RelayInv => AcceptedWasSigned
    BY <1>3, <1>4 DEF AcceptedWasSigned
<1> QED BY <1>5, WordsAreWritten, PTL

=============================================================================
