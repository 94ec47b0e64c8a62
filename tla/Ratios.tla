------------------------------- MODULE Ratios -------------------------------
(***************************************************************************)
(* Monitoring-programme ratios (src/domain/ratios.js) and the months they  *)
(* are taken over (src/repositories/volumeRepository.js), as pure          *)
(* functions.  A month is a year and a month number from 0 to 11.          *)
(***************************************************************************)
EXTENDS Integers

VampEventFloor == 1500
VampMerchantBps(region) == IF region = "CEMEA" THEN 220 ELSE 150

\* A mutant of ToBasisPoints: hundredths of a percent are cut to whole percents.
ToWholePercents(numerator, denominator) == 100 * ((numerator * 100) \div denominator)

\* Math.round of a ratio that has a denominator: halves go up.
ToBasisPoints(numerator, denominator) ==
    (2 * 10000 * numerator + denominator) \div (2 * denominator)

EvaluateEcp(chargebacks, transactions) ==
    LET bps == ToBasisPoints(chargebacks, transactions) IN
    IF transactions = 0 THEN "NOT_ASSESSABLE"
    ELSE IF chargebacks >= 300 /\ bps >= 300 THEN "HECM"
    ELSE IF chargebacks >= 100 /\ bps >= 150 THEN "ECM"
    ELSE "COMPLIANT"

EvaluateVamp(fraudReports, disputed, cardAbsent, region) ==
    LET eventCount == fraudReports + disputed
        bps == ToBasisPoints(eventCount, cardAbsent)
    IN IF cardAbsent = 0 THEN "NOT_ASSESSABLE"
       ELSE IF eventCount < VampEventFloor THEN "BELOW_FLOOR"
       ELSE IF bps >= VampMerchantBps(region) THEN "EXCESSIVE"
       ELSE "COMPLIANT"

Breaches == {"EXCESSIVE", "ECM", "HECM"}

-----------------------------------------------------------------------------
\* Months

\* Date.UTC carries a month number outside 0..11 over into the year.
DateUTC(year, month) == [year |-> year + month \div 12, month |-> month % 12]

\* A mutant of PreviousMonthStart: January has no month before it.
PreviousInYear(m) == [m EXCEPT !.month = IF @ = 0 THEN 0 ELSE @ - 1]

PreviousMonthStart(m) == DateUTC(m.year, m.month - 1)
NextMonthStart(m) == DateUTC(m.year, m.month + 1)
=============================================================================
