--------------------------- MODULE OutlierFilter ----------------------------
(***************************************************************************)
(* remove_outliers of the robust fetcher                                   *)
(* (src/tachyon-node/src/fetcher/robust_fetcher.rs): fewer than three     *)
(* prices are kept as they are; otherwise a price is kept when its         *)
(* distance from the mean is at most three population standard           *)
(* deviations.                                                             *)
(*                                                                         *)
(* The code computes in f64 with a square root.  With n prices of sum S   *)
(* the test |p - S/n| <= 3 * sqrt(sum (x - S/n)^2 / n) is, squared and    *)
(* multiplied by n^3, n * (n*p - S)^2 <= 9 * sum (n*x - S)^2, which is    *)
(* exact over integer prices.  f64 rounding can only move a price that    *)
(* sits exactly on the bound, which needs ten or more prices.             *)
(***************************************************************************)
EXTENDS Integers, Sequences, SequencesExt

SumOf(xs) == FoldLeft(LAMBDA acc, x : acc + x, 0, xs)

Sq(x) == x * x

(* n * sum of squared deviations, scaled by n^2: sum (n*x - S)^2.         *)
ScaledSpread(xs) ==
    LET n == Len(xs)  S == SumOf(xs)
    IN  SumOf([i \in 1..n |-> Sq(n * xs[i] - S)])

(* (p.price - mean).abs() <= 3.0 * std_dev                                *)
WithinSigmas(p, xs) ==
    LET n == Len(xs) IN n * Sq(n * p - SumOf(xs)) <= 9 * ScaledSpread(xs)

RemoveOutliers(xs) ==
    IF Len(xs) < 3 THEN xs
    ELSE SelectSeq(xs, LAMBDA p : WithinSigmas(p, xs))
=============================================================================
