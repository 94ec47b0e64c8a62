---------------------------- MODULE MCCompliance ----------------------------
\* Instances of Compliance for TLC.
EXTENDS Compliance

CONSTANT r1

OneReport == {r1}

December == [year |-> 2025, month |-> 11]
January == [year |-> 2026, month |-> 0]
TurnOfTheYear == {December, January}

Sold(transactions, cardAbsent, fraudReports) ==
    [transactions |-> transactions, cardAbsent |-> cardAbsent, fraudReports |-> fraudReports]

\* On the lines, just below them by less and by more than rounding, and nothing.
AroundTheLines ==
    {Sold(10000, 100000, 0), Sold(6667, 100001, 1), Sold(6700, 101000, 0), NoVolume}

\* One dispute short of a floor in every month.
JustBelow(visa, mastercard) ==
    [p \in Programmes |->
        [t \in Instants |-> IF t % 2 = 0 THEN 0
                            ELSE IF p = "VAMP" THEN visa ELSE mastercard]]

NearFloors == {JustBelow(1499, 99), JustBelow(1498, 299)}

SameRows == {[p \in Programmes |-> [m \in Months |-> row]] : row \in AroundTheLines}
=============================================================================
