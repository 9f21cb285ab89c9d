--------------------------- MODULE MCAuctionPrices ---------------------------
(***************************************************************************)
(* 7-bit integers: every overflow guard of the curves is crossed within a  *)
(* few buckets.  expWad and lnWad are solady's results for WAD = 2,        *)
(* rounded down: 2 * e^(x/2) and 2 * ln(x/2).                              *)
(***************************************************************************)
EXTENDS AuctionPrices, FiniteSets

MCexpWad ==
    [x \in {i \in Words : i <= MaxExpArg} |->
        IF x < -1 THEN 0 ELSE <<1, 2, 3, 5, 8, 14, 24, 40>>[x + 2]]

MClnWad ==
    [x \in {i \in Words : i > 0} |->
        IF x = 1 THEN -2 ELSE Cardinality({i \in 1 .. 7 : <<4, 6, 9, 15, 25, 41, 67>>[i] <= x})]

MCConfigs ==
    [adapter : {"constant", "linear", "exponential", "logarithmic"},
     initialPrice : {0, 10}, scalingFactor : {0, 1, 5, 127}, timeCoefficient : {0, 1, 3, 50},
     bucketSize : {0, 1, 2}, isDecreasing : BOOLEAN, maxPrice : {9, 20}, minPrice : {0, 4, 11}]
=============================================================================
