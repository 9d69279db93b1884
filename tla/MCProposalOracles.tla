-------------------------- MODULE MCProposalOracles -------------------------
(* Feeds around 100 in 20-bit arithmetic, some of them outliers, of the    *)
(* wrong sign, too uncertain, too old, or too large for a product; and     *)
(* answers of any age up to the limit, or dated ahead of the clock.        *)
EXTENDS ProposalOracles

MixedPrices == {-103, -100, 10, 100, 110, 2000}
MixedExpos == {-1, 0, 1}
MixedAges == {-1, 0, 299, 300}

Conditions ==
    [kind : {"GreaterOrEqual", "LessOrEqual"}, target : {50, 104}]
      \cup [kind : {"Between"}, min : {102, 50}, max : {103, 110}]
=============================================================================
