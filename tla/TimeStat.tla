------------------------------ MODULE TimeStat ------------------------------
(***************************************************************************)
(* The summary statistic of h2load.cc: compute_time_stat folds a list of   *)
(* samples with Welford's online ("rapid calculation") method into        *)
(* {min, max, mean, sd, within_sd}, and within_sd counts the samples that *)
(* lie in [mean - sd, mean + sd].                                          *)
(*                                                                         *)
(* The doubles of the code are modelled by the exact rationals they       *)
(* approximate, as reduced [num, den] records.  sd itself is irrational   *)
(* in general, so the statistic keeps its square sd2 = q / n; the test    *)
(* lower <= t <= upper of within_sd is then exactly (t - mean)^2 <= sd2.  *)
(* std::numeric_limits<double>::max() and ::min() (the smallest POSITIVE  *)
(* double, not the most negative one) are a rational above every sample   *)
(* and one strictly between 0 and every non-zero sample.                  *)
(***************************************************************************)
EXTENDS Integers, Sequences, SequencesExt

RECURSIVE Gcd(_, _)
Gcd(a, b) == IF b = 0 THEN a ELSE Gcd(b, a % b)

Abs(x) == IF x < 0 THEN -x ELSE x

\* n / d in lowest terms with a positive denominator (d # 0).
Frac(n, d) ==
  LET s == IF d < 0 THEN -1 ELSE 1
      g == Gcd(Abs(n), Abs(d))
  IN [num |-> (s * n) \div g, den |-> (s * d) \div g]

QOf(n) == [num |-> n, den |-> 1]
Zero == QOf(0)
Plus(a, b)  == Frac(a.num * b.den + b.num * a.den, a.den * b.den)
Minus(a, b) == Frac(a.num * b.den - b.num * a.den, a.den * b.den)
Times(a, b) == Frac(a.num * b.num, a.den * b.den)
Over(a, b)  == Frac(a.num * b.den, a.den * b.num)
LeQ(a, b)   == a.num * b.den <= b.num * a.den
QMin(a, b)  == IF LeQ(a, b) THEN a ELSE b
QMax(a, b)  == IF LeQ(a, b) THEN b ELSE a

DblMax == QOf(2^20)
DblMin == Frac(1, 2^10)

(***************************************************************************)
(* within_sd(samples, mean, sd): 0 for no samples, else the percentage of *)
(* samples with mean - sd <= t <= mean + sd.                               *)
(***************************************************************************)
InBand(t, mean, sd2) ==
  LET d == Minus(t, mean) IN LeQ(Times(d, d), sd2)

\* Mutation: within_sd returns the count times 100, not the share.
WithinSdNoShare(samples, mean, sd2) ==
  IF Len(samples) = 0 THEN Zero
  ELSE QOf(100 * Cardinality({i \in DOMAIN samples :
                                InBand(samples[i], mean, sd2)}))

WithinSd(samples, mean, sd2) ==
  IF Len(samples) = 0 THEN Zero
  ELSE Times(Frac(Cardinality({i \in DOMAIN samples :
                                 InBand(samples[i], mean, sd2)}),
                  Len(samples)),
             QOf(100))

(***************************************************************************)
(* One iteration of the loop of compute_time_stat.                         *)
(***************************************************************************)
\* Mutation: q grows by (t - a)^2 with the old mean on both sides.
WelfordStepOldMean(acc, t) ==
  LET n  == acc.n + 1
      na == Plus(acc.a, Over(Minus(t, acc.a), QOf(n)))
  IN [acc EXCEPT !.n = n, !.a = na,
                 !.q = Plus(acc.q, Times(Minus(t, acc.a), Minus(t, acc.a))),
                 !.sum = Plus(acc.sum, t), !.min = QMin(acc.min, t),
                 !.max = QMax(acc.max, t)]

WelfordStep(acc, t) ==
  LET n  == acc.n + 1
      na == Plus(acc.a, Over(Minus(t, acc.a), QOf(n)))
  IN [n   |-> n,
      a   |-> na,
      q   |-> Plus(acc.q, Times(Minus(t, acc.a), Minus(t, na))),
      sum |-> Plus(acc.sum, t),
      min |-> QMin(acc.min, t),
      max |-> QMax(acc.max, t)]

WelfordInit ==
  [n |-> 0, a |-> Zero, q |-> Zero, sum |-> Zero, min |-> DblMax, max |-> DblMin]

EmptyStat ==
  [min |-> Zero, max |-> Zero, mean |-> Zero, sd2 |-> Zero, within |-> Zero]

(***************************************************************************)
(* compute_time_stat(samples, sampling): the statistic of a sample list;  *)
(* with sampling and more than one sample the variance divides by n - 1.  *)
(***************************************************************************)
ComputeTimeStat(samples, sampling) ==
  IF samples = <<>> THEN EmptyStat
  ELSE LET acc  == FoldLeft(WelfordStep, WelfordInit, samples)
           div  == IF sampling /\ acc.n > 1 THEN acc.n - 1 ELSE acc.n
           mean == Over(acc.sum, QOf(acc.n))
           sd2  == Over(acc.q, QOf(div))
       IN [min |-> acc.min, max |-> acc.max, mean |-> mean, sd2 |-> sd2,
           within |-> WithinSd(samples, mean, sd2)]

(***************************************************************************)
(* The reference: the two-pass textbook definitions of the population     *)
(* mean and variance, and the share of samples within one deviation.      *)
(***************************************************************************)
SumQ(samples) == FoldLeft(Plus, Zero, samples)

RefMean(samples) == Over(SumQ(samples), QOf(Len(samples)))

RefVar(samples) ==
  LET m == RefMean(samples)
  IN Over(SumQ([i \in DOMAIN samples |->
                  Times(Minus(samples[i], m), Minus(samples[i], m))]),
          QOf(Len(samples)))

RefMin(samples) ==
  CHOOSE m \in {samples[i] : i \in DOMAIN samples} :
    \A i \in DOMAIN samples : LeQ(m, samples[i])

RefWithin(samples) ==
  LET m == RefMean(samples)
      v == RefVar(samples)
      inBand == {i \in DOMAIN samples :
               (samples[i].num * m.den - m.num * samples[i].den)^2 * v.den
                 <= v.num * (samples[i].den * m.den)^2}
  IN Frac(100 * Cardinality(inBand), Len(samples))

\* The statistic of a non-empty list agrees with the textbook definitions
\* (the maximum is left out: see DblMin).
MatchesReference(stat, samples) ==
  samples # <<>> =>
    /\ stat.min = RefMin(samples)
    /\ stat.mean = RefMean(samples)
    /\ stat.sd2 = RefVar(samples)
    /\ stat.within = RefWithin(samples)
=============================================================================
