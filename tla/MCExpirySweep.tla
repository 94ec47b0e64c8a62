--------------------------- MODULE MCExpirySweep ---------------------------
\* Instances of ExpirySweep for TLC.
EXTENDS ExpirySweep, ReferenceData, TLC

CONSTANTS case1, case2, sweep1, sweep2, stripe, adyen

OneCase == {case1}
TwoCases == {case1, case2}
OneSweep == {sweep1}
TwoSweeps == {sweep1, sweep2}

RuleFor(region, processor, days) ==
    [region |-> region, processor |-> processor, days |-> days]

\* The baseline, a region, and a processor within the region.
NestedRules ==
    {RuleFor(Default, AnyProcessor, 3), RuleFor("EU", AnyProcessor, 2),
     RuleFor("EU", stripe, 1)}
OneRule == {RuleFor(Default, AnyProcessor, 1)}

Payment(region, processor) == [region |-> region, processor |-> processor]

SomeMerchants == {Payment("JO", stripe), Payment("EU", stripe), Payment("EU", adyen)}
OneMerchant == {Payment("JO", stripe)}

SweepSymmetry == Permutations(Cases) \cup Permutations(Sweepers)
=============================================================================
