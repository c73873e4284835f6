------------------------------ MODULE MCRing ------------------------------
(* The instance of the Ring that TLC checks: four identities of which one  *)
(* follows no protocol, for three seats.                                   *)
EXTENDS Ring

CONSTANTS a, b   \* tips

M(e, sequence, tip) == [era |-> e, sequence |-> sequence, tip |-> tip]

\* Two sequences and a fork in the first era with a roster, one message in
\* the next.
MCMessages == {M(2, 1, a), M(2, 1, b), M(2, 2, a), M(3, 1, a)}

Everyone == {w \in Identities \X Identities : w[1] # w[2]}

\* A season in which all work and attest, and one in which two work for each
\* other only.
MCSeasons ==
    {[accrual |-> [x \in Identities |-> 5], clique |-> {}, attests |-> Everyone],
     [accrual |-> [x \in Identities |-> 9], clique |-> {1, 4},
      attests |-> {w \in Everyone : w[1] \in {1, 4} <=> w[2] \in {1, 4}}]}

MCWords == {<<9, 5, 3>>}

===========================================================================
