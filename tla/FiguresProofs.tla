------------------------------ MODULE FiguresProofs ------------------------------
(***************************************************************************)
(* Theorems of the figures derived on read, for any filings, caches,        *)
(* servers, symbols and requests: an EPS is never staler than its cache      *)
(* allows, a price than its time to live, names stay, a list published is   *)
(* the largest companies there were, and the fills replayed in the order     *)
(* they occurred agree with the books they were booked in, and a point of    *)
(* the net-worth series is what the account was worth then.                *)
(***************************************************************************)
EXTENDS MCFigures, ArithmeticProofs

--------------------------------------------------------------------------------
(* The trailing EPS: which facts it is drawn from, and what it adds up to.     *)

\* The instance's sum is the sum of the lemmas.
LEMMA StatsSum ==
  ASSUME NEW fun, NEW S
  PROVE  Stats!SumFunctionOnSet(fun, S) = SumFunctionOnSet(fun, S)
<1>1. Stats!SumFunctionOnSet(fun, S) = Partial(fun, S)[S]
  BY DEF Stats!SumFunctionOnSet, Stats!FoldFunctionOnSet, Stats!MapThenFoldSet, Partial, Turn, Some
<1> QED BY <1>1, SumIsPartial

\* The days of a calendar of equal quarters.
LEMMA Quarters ==
  ASSUME NEW i \in Nat
  PROVE  /\ i \div 4 \in Nat /\ i % 4 \in 0 .. 3 /\ i = 4 * (i \div 4) + (i % 4)
         /\ Stats!Day(i) \in Nat /\ Stats!Day(i) = 365 * (i \div 4) + 91 * (i % 4)
<1>1. i \div 4 \in Int /\ i % 4 \in Int /\ 0 <= i % 4 /\ i % 4 < 4 /\ i = 4 * (i \div 4) + (i % 4)
  BY Division
<1>2. i \div 4 \in Nat /\ i % 4 \in 0 .. 3
  BY <1>1
<1> QED BY <1>1, <1>2 DEF Stats!Day

\* Two quarters end at least 91 days apart.
LEMMA DaysApart ==
  ASSUME NEW i \in Nat, NEW j \in Nat, i < j
  PROVE  Stats!Day(j) - Stats!Day(i) >= 91
<1>1. CASE i \div 4 = j \div 4
  BY <1>1, Quarters
<1>2. CASE i \div 4 < j \div 4
  BY <1>2, Quarters
<1>3. i \div 4 <= j \div 4
  BY Quarters
<1> QED BY <1>1, <1>2, <1>3, Quarters

\* Quarters whose ends are within two weeks are one.
LEMMA SameDay ==
  ASSUME NEW i \in Nat, NEW j \in Nat, Stats!Away(Stats!Day(i), Stats!Day(j)) <= 15
  PROVE  i = j
<1>1. Stats!Day(i) \in Nat /\ Stats!Day(j) \in Nat
  BY Quarters
<1> QED BY <1>1, DaysApart DEF Stats!Away

\* A multiple of four and its neighbours.
LEMMA YearEnds ==
  ASSUME NEW y \in Nat, NEW m \in 0 .. 3
  PROVE  /\ (4 * y + m) \div 4 = y /\ (4 * y + m) % 4 = m
         /\ Stats!Day(4 * y + m) = 365 * y + 91 * m
<1>1. 4 * y + m \in Nat
  OBVIOUS
<1>2. PICK i \in Nat : i = 4 * y + m
  BY <1>1
<1>3. PICK p \in Nat, q \in 0 .. 3 : p = i \div 4 /\ q = i % 4
  BY Quarters
<1>4. i = 4 * p + q /\ Stats!Day(i) = 365 * p + 91 * q
  BY <1>3, Quarters, ZenonT(30)
<1>5. p = y /\ q = m
  BY <1>2, <1>4
<1> QED BY <1>2, <1>3, <1>4, <1>5

\* The facts on file: a year, a year to date, or a quarter that ends none.
Covers(from, i) == IF i % 4 = 0 THEN from = i - 4 ELSE from = 4 * (i \div 4) \/ from = i - 1

\* How many days a fact covers: a year, so many quarters of one, or a quarter.
LEMMA CoverIs ==
  ASSUME NEW i \in Nat \ {0}, NEW from, Covers(from, i)
  PROVE  /\ from \in Nat /\ from < i
         /\ Stats!Days(Stats!Fact(from, i)) =
              IF i % 4 = 0 THEN 365 ELSE IF from = 4 * (i \div 4) THEN 91 * (i % 4) ELSE 91
         /\ Stats!Fact(from, i).end = Stats!Day(i)
<1>1. /\ i \div 4 \in Nat /\ i % 4 \in 0 .. 3 /\ i = 4 * (i \div 4) + (i % 4)
      /\ Stats!Day(i) = 365 * (i \div 4) + 91 * (i % 4)
  BY Quarters
<1>2. Stats!Days(Stats!Fact(from, i)) = Stats!Day(i) - Stats!Day(from) /\ Stats!Fact(from, i).end = Stats!Day(i)
  BY DEF Stats!Days, Stats!Fact
<1>3. CASE i % 4 = 0
  <2>1. PICK y \in Nat : y = (i \div 4) - 1
    BY <1>1, <1>3
  <2>2. from = 4 * y + 0 /\ from \in Nat /\ from < i
    BY <1>1, <1>3, <2>1 DEF Covers
  <2>3. Stats!Day(from) = 365 * y
    BY <2>2, YearEnds
  <2> QED BY <1>1, <1>2, <1>3, <2>1, <2>2, <2>3
<1>4. CASE i % 4 # 0 /\ from = 4 * (i \div 4)
  <2>1. from = 4 * (i \div 4) + 0 /\ from \in Nat /\ from < i
    BY <1>1, <1>4
  <2>2. Stats!Day(from) = 365 * (i \div 4)
    BY <1>1, <2>1, YearEnds
  <2> QED BY <1>1, <1>2, <1>4, <2>1, <2>2
<1>5. CASE i % 4 # 0 /\ from # 4 * (i \div 4)
  <2>1. PICK m \in 0 .. 3 : m = (i % 4) - 1
    BY <1>1, <1>5
  <2>2. from = 4 * (i \div 4) + m /\ from \in Nat /\ from < i
    BY <1>1, <1>5, <2>1 DEF Covers
  <2>3. Stats!Day(from) = 365 * (i \div 4) + 91 * m
    BY <1>1, <2>2, YearEnds
  <2> QED BY <1>1, <1>2, <1>5, <2>1, <2>2, <2>3
<1> QED BY <1>3, <1>4, <1>5

\* The facts on file are those of the quarters that ended.
LEMMA FactsAre ==
  ASSUME NEW n \in Nat
  PROVE  /\ \A f \in Stats!Facts(n) : \E i \in 1 .. n, from \in Nat : f = Stats!Fact(from, i) /\ Covers(from, i)
         /\ \A i \in 1 .. n : \A from : Covers(from, i) => Stats!Fact(from, i) \in Stats!Facts(n)
<1>1. \A f \in Stats!Facts(n) : \E i \in 1 .. n : \E from : f = Stats!Fact(from, i) /\ Covers(from, i)
  BY DEF Stats!Facts, Covers
<1>2. \A i \in 1 .. n : i \in Nat \ {0}
  OBVIOUS
<1>3. \A i \in 1 .. n : \A from : Covers(from, i) => Stats!Fact(from, i) \in Stats!Facts(n)
  BY DEF Stats!Facts, Covers
<1> QED BY <1>1, <1>2, <1>3, CoverIs

\* What the quarters from + 1 to i earned.
Sum(from, i) == SumFunctionOnSet(Earned, (from + 1) .. i)

\* What a fact says was earned is the sum of its quarters.
LEMMA FactValue ==
  ASSUME NEW from, NEW i
  PROVE  Stats!Fact(from, i).value = Sum(from, i)
BY StatsSum DEF Stats!Fact, Sum

\* A span's sum is that of its two parts.
LEMMA SumsJoin ==
  ASSUME NEW i \in Nat, NEW j \in Nat, NEW k \in Nat, i <= j, j <= k, k <= Len(Earned)
  PROVE  Sum(i, j) \in Int /\ Sum(j, k) \in Int /\ Sum(i, k) = Sum(i, j) + Sum(j, k)
<1> DEFINE S == (i + 1) .. k
           P == (i + 1) .. j
           R == (j + 1) .. k
<1>1. IsFiniteSet(S)
  BY FS_Interval
<1>2. \A x \in S : Earned[x] \in Int
  BY FiguresAssumption
<1>3. P \in SUBSET S /\ R \in SUBSET S /\ P \cap R = {} /\ S = P \cup R
  OBVIOUS
<1> HIDE DEF S, P, R
<1>4. SumFunctionOnSet(Earned, S) = SumFunctionOnSet(Earned, P) + SumFunctionOnSet(Earned, R)
  BY <1>1, <1>2, <1>3, SumApart
<1>5. SumFunctionOnSet(Earned, P) \in Int /\ SumFunctionOnSet(Earned, R) \in Int
  BY <1>1, <1>2, <1>3, SumType
<1> QED BY <1>4, <1>5 DEF Sum, S, P, R

\* The parts of the definition.
YearsOf(facts) == {f \in facts : Stats!Days(f) >= 350 /\ Stats!Days(f) <= 380}
LastEnd(facts) == Stats!Max({f.end : f \in YearsOf(facts)} \cup {0})
AnnualOf(facts) == CHOOSE f \in YearsOf(facts) : \A g \in YearsOf(facts) : g.end <= f.end
ToDateOf(facts) ==
  {f \in facts : f.end > AnnualOf(facts).end /\ Stats!Days(f) < 350 /\ Stats!Days(f) >= 80}
YtdOf(facts) ==
  CHOOSE f \in ToDateOf(facts) : \A g \in ToDateOf(facts) :
    g.end < f.end \/ (g.end = f.end /\ Stats!Days(g) <= Stats!Days(f))
PriorsOf(facts) ==
  {f \in facts : /\ Stats!Away(f.end, YtdOf(facts).end - 365) <= 15
                 /\ Stats!Away(Stats!Days(f), Stats!Days(YtdOf(facts))) <= 10}
PriorOf(facts) == CHOOSE f \in PriorsOf(facts) : TRUE

\* The three ways a trailing figure is drawn.
LEMMA TrailingUnfolds ==
  ASSUME NEW facts, NEW today
  PROVE  Stats!TrailingEps(facts, today) =
           IF YearsOf(facts) = {} \/ today - LastEnd(facts) > 456
             THEN Stats!NoEps
           ELSE IF ToDateOf(facts) # {} /\ PriorsOf(facts) # {}
             THEN [eps |-> AnnualOf(facts).value + YtdOf(facts).value - PriorOf(facts).value,
                   basis |-> "ttm", periodEnd |-> YtdOf(facts).end]
             ELSE [eps |-> AnnualOf(facts).value, basis |-> "fy", periodEnd |-> AnnualOf(facts).end]
BY Zenon DEF Stats!TrailingEps, YearsOf, LastEnd, AnnualOf, ToDateOf, YtdOf, PriorsOf, PriorOf

\* The trailing figure, of the facts after n quarters.
LEMMA TrailingIs ==
  ASSUME NEW k \in Nat \ {0}, NEW m \in 0 .. 3, NEW n, n = 4 * k + m,
         NEW today, today = Stats!Day(n) + 40
  PROVE  LET e == Stats!TrailingEps(Stats!Facts(n), today) IN
         /\ e.periodEnd = Stats!Day(n)
         /\ e.eps = IF m = 0 THEN Sum(4 * k - 4, 4 * k)
                    ELSE Sum(4 * k - 4, 4 * k) + Sum(4 * k, n) - Sum(4 * k - 4, n - 4)
<1> DEFINE facts == Stats!Facts(n)
           years == {f \in facts : Stats!Days(f) >= 350 /\ Stats!Days(f) <= 380}
           last == Stats!Fact(4 * k - 4, 4 * k)
<1>1. n \in Nat \ {0} /\ 4 * k \in 1 .. n /\ n \div 4 = k /\ n % 4 = m /\ Stats!Day(n) = 365 * k + 91 * m
  BY YearEnds
<1>2. (4 * k) % 4 = 0 /\ (4 * k) \div 4 = k /\ Stats!Day(4 * k) = 365 * k
  <2>1. 4 * k = 4 * k + 0
    OBVIOUS
  <2> QED BY <2>1, YearEnds
<1>3. /\ \A f \in facts : \E i \in 1 .. n, from \in Nat : f = Stats!Fact(from, i) /\ Covers(from, i)
      /\ \A i \in 1 .. n : \A from : Covers(from, i) => Stats!Fact(from, i) \in facts
  BY <1>1, FactsAre
<1>4. Covers(4 * k - 4, 4 * k)
  BY <1>2 DEF Covers
<1>5. last \in facts /\ Stats!Days(last) = 365 /\ last.end = 365 * k /\ last \in years
  BY <1>1, <1>2, <1>3, <1>4, CoverIs
<1>6. \A f \in years : \E i \in 1 .. n : i % 4 = 0 /\ f = Stats!Fact(i - 4, i) /\ f.end = Stats!Day(i)
  <2> SUFFICES ASSUME NEW f \in years
               PROVE  \E i \in 1 .. n : i % 4 = 0 /\ f = Stats!Fact(i - 4, i) /\ f.end = Stats!Day(i)
    OBVIOUS
  <2>1. PICK i \in 1 .. n, from \in Nat : f = Stats!Fact(from, i) /\ Covers(from, i)
    BY <1>3
  <2>2. i \in Nat \ {0} /\ i % 4 \in 0 .. 3
    BY <1>1, Quarters
  <2>3. i % 4 = 0
    BY <2>1, <2>2, CoverIs
  <2> QED BY <2>1, <2>2, <2>3, CoverIs DEF Covers
<1>7. \A f \in years : f.end <= last.end /\ (f.end = last.end => f = last)
  <2> SUFFICES ASSUME NEW f \in years PROVE f.end <= last.end /\ (f.end = last.end => f = last)
    OBVIOUS
  <2>1. PICK i \in 1 .. n : i % 4 = 0 /\ f = Stats!Fact(i - 4, i) /\ f.end = Stats!Day(i)
    BY <1>6
  <2>2. i \in Nat /\ i % 4 = 0
    BY <1>1, <2>1
  <2>5. /\ i \div 4 \in Nat /\ i = 4 * (i \div 4) + (i % 4)
        /\ Stats!Day(i) = 365 * (i \div 4) + 91 * (i % 4)
    BY <2>2, Quarters, ZenonT(30)
  <2>4. i = 4 * (i \div 4) /\ i \div 4 \in Nat /\ Stats!Day(i) = 365 * (i \div 4)
    BY <2>2, <2>5
  <2>3. i \div 4 <= k
    BY <1>1, <2>4
  <2> QED BY <1>5, <2>1, <2>3, <2>4
<1>8. (CHOOSE f \in years : \A g \in years : g.end <= f.end) = last
  <2>1. PICK f : f = CHOOSE x \in years : \A g \in years : g.end <= x.end
    OBVIOUS
  <2>2. f \in years /\ \A g \in years : g.end <= f.end
    BY <1>5, <1>7, <2>1
  <2>3. f.end \in Nat /\ last.end \in Nat
    <3>1. PICK i \in 1 .. n : f.end = Stats!Day(i)
      BY <1>6, <2>2
    <3> QED BY <1>1, <1>5, <3>1, Quarters
  <2>4. f = last
    BY <1>5, <1>7, <2>2, <2>3
  <2> QED BY <2>1, <2>4
<1> DEFINE annual == CHOOSE f \in years : \A g \in years : g.end <= f.end
           toDate == {f \in facts : f.end > annual.end /\ Stats!Days(f) < 350 /\ Stats!Days(f) >= 80}
           ytd == CHOOSE f \in toDate : \A g \in toDate :
                    g.end < f.end \/ (g.end = f.end /\ Stats!Days(g) <= Stats!Days(f))
           priors == {f \in facts : /\ Stats!Away(f.end, ytd.end - 365) <= 15
                                   /\ Stats!Away(Stats!Days(f), Stats!Days(ytd)) <= 10}
           prior == CHOOSE f \in priors : TRUE
           ends == {f.end : f \in years} \cup {0}
<1>9. annual = last /\ annual.value = Sum(4 * k - 4, 4 * k) /\ annual.end = 365 * k
  BY <1>5, <1>8, FactValue, ZenonT(30)
<1>10. Stats!Max(ends) = 365 * k
  <2>1. \A x \in ends : x \in Nat /\ x <= 365 * k
    <3> SUFFICES ASSUME NEW f \in years PROVE f.end \in Nat /\ f.end <= 365 * k
      OBVIOUS
    <3>1. PICK i \in 1 .. n : f.end = Stats!Day(i)
      BY <1>6
    <3> QED BY <1>1, <1>5, <1>7, <3>1, Quarters
  <2>2. 365 * k \in ends
    BY <1>5
  <2> HIDE DEF ends
  <2>3. PICK x : x = CHOOSE z \in ends : \A y \in ends : z >= y
    OBVIOUS
  <2>4. x \in ends /\ \A y \in ends : x >= y
    BY <2>1, <2>2, <2>3
  <2>5. x = 365 * k
    BY <2>1, <2>2, <2>4
  <2> QED BY <2>3, <2>5 DEF Stats!Max
<1>11. years # {} /\ ~(today - Stats!Max(ends) > 456)
  BY <1>1, <1>5, <1>10
<1>12. \A f \in toDate : \E i \in 1 .. n, from \in Nat :
          f = Stats!Fact(from, i) /\ Covers(from, i) /\ i > 4 * k /\ f.end = Stats!Day(i)
  <2> SUFFICES ASSUME NEW f \in toDate
               PROVE  \E i \in 1 .. n, from \in Nat :
                        f = Stats!Fact(from, i) /\ Covers(from, i) /\ i > 4 * k /\ f.end = Stats!Day(i)
    OBVIOUS
  <2>1. PICK i \in 1 .. n, from \in Nat : f = Stats!Fact(from, i) /\ Covers(from, i)
    <3>1. f \in facts
      OBVIOUS
    <3> HIDE DEF facts, toDate
    <3> QED BY <1>3, <3>1
  <2>2. i \in Nat \ {0} /\ f.end = Stats!Day(i) /\ Stats!Day(i) \in Nat
    <3>1. i \in Nat \ {0}
      BY <1>1
    <3> HIDE DEF facts, toDate
    <3> QED BY <2>1, <3>1, CoverIs, Quarters, ZenonT(30)
  <2>3. Stats!Day(i) > Stats!Day(4 * k)
    BY <1>2, <1>9, <2>2
  <2>4. i > 4 * k
    BY <1>1, <1>2, <2>2, <2>3, DaysApart
  <2> QED BY <2>1, <2>2, <2>4
<1> DEFINE e == Stats!TrailingEps(facts, today)
<1>16. e = IF years = {} \/ today - Stats!Max(ends) > 456 THEN Stats!NoEps
           ELSE IF toDate # {} /\ priors # {}
             THEN [eps |-> annual.value + ytd.value - prior.value, basis |-> "ttm", periodEnd |-> ytd.end]
             ELSE [eps |-> annual.value, basis |-> "fy", periodEnd |-> annual.end]
  <2> HIDE DEF facts
  <2>1. years = YearsOf(facts)
    BY DEF YearsOf
  <2>2. annual = AnnualOf(facts)
    BY Zenon DEF AnnualOf, YearsOf
  <2> HIDE DEF years, annual
  <2>3. toDate = ToDateOf(facts)
    BY <2>2 DEF ToDateOf
  <2> HIDE DEF toDate
  <2>4. ytd = YtdOf(facts)
    BY <2>3, Zenon DEF YtdOf
  <2> HIDE DEF ytd
  <2>5. priors = PriorsOf(facts)
    BY <2>4 DEF PriorsOf
  <2> HIDE DEF priors
  <2>6. prior = PriorOf(facts)
    BY <2>5, Zenon DEF PriorOf
  <2>7. Stats!Max(ends) = LastEnd(facts)
    BY <2>1, Zenon DEF LastEnd
  <2> HIDE DEF prior, ends
  <2>8. e = IF YearsOf(facts) = {} \/ today - LastEnd(facts) > 456
              THEN Stats!NoEps
            ELSE IF ToDateOf(facts) # {} /\ PriorsOf(facts) # {}
              THEN [eps |-> AnnualOf(facts).value + YtdOf(facts).value - PriorOf(facts).value,
                    basis |-> "ttm", periodEnd |-> YtdOf(facts).end]
              ELSE [eps |-> AnnualOf(facts).value, basis |-> "fy", periodEnd |-> AnnualOf(facts).end]
    BY TrailingUnfolds, Zenon
  <2> HIDE DEF e
  <2> QED BY <2>1, <2>2, <2>3, <2>4, <2>5, <2>6, <2>7, <2>8
<1>13. e = IF toDate # {} /\ priors # {}
             THEN [eps |-> annual.value + ytd.value - prior.value, basis |-> "ttm", periodEnd |-> ytd.end]
             ELSE [eps |-> annual.value, basis |-> "fy", periodEnd |-> annual.end]
  <2> HIDE DEF e, years, toDate, priors, annual, ytd, prior, ends
  <2> QED BY <1>11, <1>16
<1>14. CASE m = 0
  <2>1. toDate = {}
    BY <1>1, <1>12, <1>14
  <2> HIDE DEF toDate, priors, annual, ytd, prior
  <2> QED BY <1>1, <1>9, <1>13, <1>14, <2>1
<1>15. CASE m # 0
  <2> DEFINE toNow == Stats!Fact(4 * k, n)
             yearAgo == Stats!Fact(4 * k - 4, n - 4)
  <2>1. Covers(4 * k, n) /\ toNow \in facts
    BY <1>1, <1>3, <1>15 DEF Covers
  <2>2. toNow.end = Stats!Day(n) /\ Stats!Days(toNow) = 91 * m /\ toNow \in toDate
    BY <1>1, <1>9, <1>15, <2>1, CoverIs
  <2>3. \A f \in toDate :
          /\ f.end \in Int /\ Stats!Days(f) \in Int
          /\ f.end < toNow.end \/ (f.end = toNow.end /\ Stats!Days(f) <= Stats!Days(toNow))
          /\ f.end = toNow.end /\ Stats!Days(f) >= Stats!Days(toNow) => f = toNow
    <3> SUFFICES ASSUME NEW f \in toDate
                 PROVE  /\ f.end \in Int /\ Stats!Days(f) \in Int
                        /\ f.end < toNow.end \/ (f.end = toNow.end /\ Stats!Days(f) <= Stats!Days(toNow))
                        /\ f.end = toNow.end /\ Stats!Days(f) >= Stats!Days(toNow) => f = toNow
      OBVIOUS
    <3>1. PICK i \in 1 .. n, from \in Nat :
            f = Stats!Fact(from, i) /\ Covers(from, i) /\ i > 4 * k /\ f.end = Stats!Day(i)
      BY <1>12
    <3>6. i \in Nat \ {0}
      BY <1>1, <3>1
    <3>2. i \in Nat \ {0} /\ Stats!Day(i) \in Nat /\ Stats!Day(n) \in Nat /\ i % 4 \in 0 .. 3
      BY <1>1, <3>6, Quarters, ZenonT(30)
    <3>3. Stats!Days(f) = IF i % 4 = 0 THEN 365 ELSE IF from = 4 * (i \div 4) THEN 91 * (i % 4) ELSE 91
      BY <3>1, <3>2, CoverIs
    <3>4. CASE i < n
      BY <1>1, <2>2, <3>1, <3>2, <3>3, <3>4, DaysApart
    <3>5. CASE i = n
      <4>1. from = 4 * k \/ from = n - 1
        BY <1>1, <1>15, <3>1, <3>5 DEF Covers
      <4>2. Stats!Days(f) = IF from = 4 * k THEN 91 * m ELSE 91
        BY <1>1, <1>15, <3>3, <3>5
      <4>3. Stats!Days(f) >= 91 * m => from = 4 * k
        BY <1>15, <4>1, <4>2
      <4> QED BY <1>15, <2>2, <3>1, <3>2, <3>5, <4>2, <4>3
    <3> QED BY <1>1, <3>4, <3>5
  <2>4. ytd = toNow
    <3> HIDE DEF toDate, toNow
    <3>1. PICK f : f = CHOOSE x \in toDate : \A g \in toDate :
                     g.end < x.end \/ (g.end = x.end /\ Stats!Days(g) <= Stats!Days(x))
      OBVIOUS
    <3>2. \E x \in toDate : \A g \in toDate :
            g.end < x.end \/ (g.end = x.end /\ Stats!Days(g) <= Stats!Days(x))
      BY <2>2, <2>3
    <3>3. f \in toDate /\ \A g \in toDate :
            g.end < f.end \/ (g.end = f.end /\ Stats!Days(g) <= Stats!Days(f))
      BY <3>1, <3>2, Zenon
    <3>4. /\ toNow.end < f.end \/ (toNow.end = f.end /\ Stats!Days(toNow) <= Stats!Days(f))
          /\ f.end < toNow.end \/ (f.end = toNow.end /\ Stats!Days(f) <= Stats!Days(toNow))
          /\ f.end = toNow.end /\ Stats!Days(f) >= Stats!Days(toNow) => f = toNow
      BY <2>2, <2>3, <3>3
    <3>5. /\ f.end \in Int /\ toNow.end \in Int
          /\ Stats!Days(f) \in Int /\ Stats!Days(toNow) \in Int
      BY <2>2, <2>3, <3>3
    <3>6. f = toNow
      BY <3>4, <3>5
    <3> QED BY <3>1, <3>6
  <2>5. /\ n - 4 \in 1 .. n /\ (n - 4) % 4 = m /\ (n - 4) \div 4 = k - 1
        /\ Stats!Day(n - 4) = 365 * k + 91 * m - 365
    <3>1. PICK y \in Nat : y = k - 1
      OBVIOUS
    <3>2. n - 4 = 4 * y + m
      BY <3>1
    <3> QED BY <1>1, <1>15, <3>1, <3>2, YearEnds, SMTT(30)
  <2>6. Covers(4 * k - 4, n - 4) /\ yearAgo \in facts
    BY <1>3, <1>15, <2>5 DEF Covers
  <2>7. yearAgo.end = Stats!Day(n - 4) /\ Stats!Days(yearAgo) = 91 * m
    <3>1. n - 4 \in Nat \ {0} /\ 4 * k - 4 = 4 * ((n - 4) \div 4)
      BY <1>1, <2>5
    <3> QED BY <1>15, <2>5, <2>6, <3>1, CoverIs
  <2>8. yearAgo \in priors
    <3>1. Stats!Away(yearAgo.end, ytd.end - 365) = 0 /\ Stats!Away(Stats!Days(yearAgo), Stats!Days(ytd)) = 0
      <4> HIDE DEF ytd, toNow, yearAgo
      <4> QED BY <1>1, <2>2, <2>4, <2>5, <2>7 DEF Stats!Away
    <3> HIDE DEF ytd, yearAgo, facts
    <3> QED BY <2>6, <3>1
  <2>9. \A f \in priors : f = yearAgo
    <3> SUFFICES ASSUME NEW f \in priors PROVE f = yearAgo
      OBVIOUS
    <3>1. PICK i \in 1 .. n, from \in Nat : f = Stats!Fact(from, i) /\ Covers(from, i)
      BY <1>3
    <3>2. i \in Nat \ {0} /\ f.end = Stats!Day(i)
      BY <1>1, <3>1, CoverIs
    <3>3. Stats!Away(Stats!Day(i), Stats!Day(n - 4)) <= 15
      <4>1. Stats!Away(f.end, ytd.end - 365) <= 15
        OBVIOUS
      <4>2. ytd.end - 365 = Stats!Day(n - 4)
        <5> HIDE DEF ytd, toNow
        <5> QED BY <1>1, <2>2, <2>4, <2>5
      <4> HIDE DEF ytd
      <4> QED BY <3>2, <4>1, <4>2
    <3>4. i = n - 4
      <4>1. PICK j \in Nat : j = n - 4
        BY <1>1, <2>5
      <4> QED BY <3>2, <3>3, <4>1, SameDay
    <3>5. Stats!Days(f) = IF from = 4 * k - 4 THEN 91 * m ELSE 91
      BY <1>15, <2>5, <3>1, <3>2, <3>4, CoverIs
    <3>6. Stats!Away(Stats!Days(f), 91 * m) <= 10
      BY <2>2, <2>4, Zenon
    <3>7. from = 4 * k - 4 \/ from = n - 5
      BY <1>15, <2>5, <3>1, <3>4 DEF Covers
    <3>8. from = 4 * k - 4
      BY <1>15, <3>5, <3>6, <3>7 DEF Stats!Away
    <3> QED BY <3>1, <3>4, <3>8
  <2>10. prior = yearAgo
    <3> HIDE DEF priors, yearAgo
    <3> QED BY <2>8, <2>9
  <2>11. ytd.value = Sum(4 * k, n) /\ prior.value = Sum(4 * k - 4, n - 4) /\ ytd.end = Stats!Day(n)
    BY <2>2, <2>4, <2>10, FactValue, ZenonT(30)
  <2>12. toDate # {} /\ priors # {}
    BY <2>2, <2>8, Zenon
  <2> HIDE DEF toDate, priors, annual, ytd, prior, toNow, yearAgo
  <2> QED BY <1>9, <1>13, <1>15, <2>11, <2>12
<1> QED BY <1>14, <1>15

--------------------------------------------------------------------------------
(* Its cache: what a row and a view hold of the filings.                        *)

\* A figure drawn from every quarter filed as tick t began, or from more.
Drawn(n) == Stats!TrailingEps(Stats!Facts(n), Stats!Day(n) + 40)
FigureOf(eps, t) == \E n \in FirstFiled .. Len(Earned) : eps = Drawn(n) /\ filedAt[t + 1] <= n

FilingsOK ==
  /\ clock \in Nat /\ filed \in FirstFiled .. Len(Earned)
  /\ filedAt \in Seq(Nat) /\ Len(filedAt) = clock + 1
  /\ \A i \in 1 .. clock + 1 : filedAt[i] <= filed
  /\ \A i, j \in 1 .. clock + 1 : i <= j => filedAt[i] <= filedAt[j]

RowOK == row.checkedAt = Stats!Never \/ (row.checkedAt \in 0 .. clock /\ FigureOf(row.eps, row.checkedAt))

\* What a view holds, by the step it is at.
ViewOK(v) ==
  /\ view[v].now \in 0 .. clock
  /\ view[v].pc = "save" => FigureOf(view[v].eps, view[v].now)
  /\ (view[v].pc = "shown" /\ ~view[v].failed /\ view[v].now >= Ttl) =>
       FigureOf(view[v].eps, view[v].now - Ttl)

StatsOK ==
  /\ FilingsOK
  /\ row = [eps |-> row.eps, checkedAt |-> row.checkedAt] /\ RowOK
  /\ DOMAIN view = Views
  /\ \A v \in Views :
       /\ view[v] = [pc |-> view[v].pc, now |-> view[v].now, eps |-> view[v].eps, failed |-> view[v].failed]
       /\ ViewOK(v)

\* The figure of quarter n is dated at its end, and is what the last four earned.
LEMMA DrawnIs ==
  ASSUME NEW n \in 4 .. Len(Earned)
  PROVE  Drawn(n).periodEnd = Stats!Day(n) /\ Drawn(n).eps = Sum(n - 4, n)
<1>1. n \in Nat /\ Len(Earned) \in Nat
  BY FiguresAssumption
<1>2. /\ n \div 4 \in Nat /\ n % 4 \in 0 .. 3 /\ n = 4 * (n \div 4) + (n % 4)
  BY <1>1, Quarters
<1>3. PICK k \in Nat \ {0}, m \in 0 .. 3 : n = 4 * k + m
  BY <1>2
<1>4. PICK today : today = Stats!Day(n) + 40
  OBVIOUS
<1>5. /\ Drawn(n).periodEnd = Stats!Day(n)
      /\ Drawn(n).eps = IF m = 0 THEN Sum(4 * k - 4, 4 * k)
                        ELSE Sum(4 * k - 4, 4 * k) + Sum(4 * k, n) - Sum(4 * k - 4, n - 4)
  BY <1>3, <1>4, TrailingIs DEF Drawn
<1>6. CASE m = 0
  BY <1>3, <1>5, <1>6
<1>7. CASE m # 0
  <2> DEFINE a == 4 * k - 4
             b == n - 4
             c == 4 * k
  <2>1. a \in Nat /\ b \in Nat /\ c \in Nat /\ a <= b /\ b <= c /\ c <= n /\ n <= Len(Earned) /\ c <= Len(Earned)
    BY <1>1, <1>3, <1>7
  <2> HIDE DEF a, b, c
  <2>2. Sum(a, b) \in Int /\ Sum(b, c) \in Int /\ Sum(a, c) = Sum(a, b) + Sum(b, c)
    BY <1>1, <2>1, SumsJoin, ZenonT(30)
  <2>3. Sum(c, n) \in Int /\ Sum(b, n) = Sum(b, c) + Sum(c, n)
    BY <1>1, <2>1, SumsJoin
  <2>4. Drawn(n).eps = Sum(a, c) + Sum(c, n) - Sum(a, b)
    BY <1>5, <1>7 DEF a, b, c
  <2> QED BY <1>5, <2>2, <2>3, <2>4 DEF b
<1> QED BY <1>6, <1>7

\* Only one quarter ends on a day.
LEMMA DrawnIsCurrent ==
  ASSUME NEW eps, NEW t \in Nat, t <= clock, FilingsOK, FigureOf(eps, t)
  PROVE  Stats!UpTo(eps, t) /\ Stats!LastFour(eps)
<1>1. FirstFiled \in Nat /\ FirstFiled >= 4 /\ Len(Earned) \in Nat
  BY FiguresAssumption
<1>2. PICK n \in FirstFiled .. Len(Earned) : eps = Drawn(n) /\ filedAt[t + 1] <= n
  BY DEF FigureOf
<1>3. n \in Nat /\ n \in 4 .. Len(Earned) /\ n \in 1 .. Len(Earned)
  BY <1>1
<1>4. eps.periodEnd = Stats!Day(n) /\ eps.eps = Sum(n - 4, n)
  BY <1>2, <1>3, DrawnIs
<1>5. filedAt[t + 1] \in Nat
  BY DEF FilingsOK
<1>6. Stats!UpTo(eps, t)
  <2>1. PICK was1 \in Nat : was1 = filedAt[t + 1]
    BY <1>5
  <2>2. Stats!Day(was1) \in Nat /\ Stats!Day(n) \in Nat
    BY <1>3, Quarters, Zenon
  <2>3. Stats!Day(n) >= Stats!Day(was1)
    BY <1>2, <1>3, <2>1, <2>2, DaysApart
  <2> QED BY <1>4, <2>1, <2>3 DEF Stats!UpTo
<1>7. (CHOOSE i \in 1 .. Len(Earned) : Stats!Day(i) = eps.periodEnd) = n
  <2>1. \A i \in 1 .. Len(Earned) : Stats!Day(i) = eps.periodEnd => i = n
    <3> SUFFICES ASSUME NEW i \in 1 .. Len(Earned), Stats!Day(i) = eps.periodEnd PROVE i = n
      OBVIOUS
    <3>1. i \in Nat /\ Stats!Day(i) \in Nat /\ Stats!Day(i) = Stats!Day(n)
      BY <1>1, <1>4, Quarters
    <3>2. Stats!Away(Stats!Day(i), Stats!Day(n)) <= 15
      BY <3>1 DEF Stats!Away
    <3> QED BY <1>3, <3>1, <3>2, SameDay
  <2> QED BY <1>3, <1>4, <2>1
<1>8. Stats!SumFunctionOnSet(Earned, (n - 3) .. n) = Sum(n - 4, n)
  <2>1. (n - 4) + 1 = n - 3
    BY <1>3
  <2> QED BY <2>1, StatsSum DEF Sum
<1> QED BY <1>4, <1>6, <1>7, <1>8, Zenon DEF Stats!LastFour

\* What the cache and the views hold makes every figure shown current.
LEMMA StatsIsCurrent ==
  ASSUME StatsOK
  PROVE  EpsIsCurrent
<1>1. Ttl \in Nat /\ clock \in Nat /\ FilingsOK
  BY FiguresAssumption DEF StatsOK, FilingsOK
<1>2. row.checkedAt # Stats!Never => Stats!UpTo(row.eps, row.checkedAt) /\ Stats!LastFour(row.eps)
  <2> SUFFICES ASSUME row.checkedAt # Stats!Never
               PROVE  Stats!UpTo(row.eps, row.checkedAt) /\ Stats!LastFour(row.eps)
    OBVIOUS
  <2>1. row.checkedAt \in Nat /\ row.checkedAt <= clock /\ FigureOf(row.eps, row.checkedAt)
    BY <1>1 DEF StatsOK, RowOK
  <2> QED BY <1>1, <2>1, DrawnIsCurrent
<1>3. ASSUME NEW v \in Views, view[v].pc = "shown", ~view[v].failed, view[v].now >= Ttl
      PROVE  Stats!UpTo(view[v].eps, view[v].now - Ttl)
  <2>1. PICK t : t = view[v].now - Ttl
    OBVIOUS
  <2>2. t \in Nat /\ t <= clock /\ FigureOf(view[v].eps, t)
    BY <1>1, <1>3, <2>1 DEF StatsOK, ViewOK
  <2> QED BY <1>1, <2>1, <2>2, DrawnIsCurrent
<1> QED BY <1>2, <1>3 DEF EpsIsCurrent, Stats!EpsIsCurrent

\* It holds as the model starts.
LEMMA StatsStarts ==
  ASSUME Stats!StatsInit
  PROVE  StatsOK
<1>1. FirstFiled \in Nat /\ FirstFiled \in FirstFiled .. Len(Earned)
  BY FiguresAssumption
<1>2. FilingsOK
  BY <1>1 DEF Stats!StatsInit, FilingsOK
<1>3. RowOK /\ row = [eps |-> row.eps, checkedAt |-> row.checkedAt]
  BY DEF Stats!StatsInit, RowOK
<1>4. ASSUME NEW v \in Views
      PROVE  /\ view[v] = [pc |-> view[v].pc, now |-> view[v].now, eps |-> view[v].eps, failed |-> view[v].failed]
             /\ ViewOK(v)
  BY DEF Stats!StatsInit, Stats!Idle, ViewOK
<1>5. DOMAIN view = Views
  BY DEF Stats!StatsInit
<1> QED BY <1>2, <1>3, <1>4, <1>5 DEF StatsOK

\* Time passes and quarters are filed: what was drawn stays drawn.
LEMMA FilingsMove ==
  ASSUME StatsOK, Stats!Pass \/ Stats!File
  PROVE  StatsOK'
<1> USE DEF StatsOK
<1>1. /\ clock' \in Nat /\ clock <= clock' /\ UNCHANGED <<row, view>>
      /\ clock \in Nat /\ filedAt \in Seq(Nat) /\ Len(filedAt) = clock + 1
  BY DEF Stats!Pass, Stats!File, FilingsOK
<1>2. \A i \in 1 .. clock + 1 : filedAt'[i] = filedAt[i]
  BY DEF Stats!Pass, Stats!File, FilingsOK
<1>3. FilingsOK'
  <2>1. CASE Stats!Pass
    <3>1. filed \in Nat /\ clock' = clock + 1 /\ filed' = filed /\ filedAt' = Append(filedAt, filed)
      BY <2>1, FiguresAssumption DEF FilingsOK, Stats!Pass
    <3>2. filedAt' \in Seq(Nat) /\ Len(filedAt') = clock' + 1 /\ filedAt'[clock' + 1] = filed
      BY <1>1, <3>1
    <3>3. \A i \in 1 .. clock' + 1 : filedAt'[i] <= filed'
      BY <1>1, <1>2, <3>1, <3>2 DEF FilingsOK
    <3>4. \A i, j \in 1 .. clock' + 1 : i <= j => filedAt'[i] <= filedAt'[j]
      BY <1>1, <1>2, <3>1, <3>2 DEF FilingsOK
    <3> QED BY <1>1, <3>1, <3>2, <3>3, <3>4, Zenon DEF FilingsOK
  <2>2. CASE Stats!File
    <3>1. filed \in Nat /\ FirstFiled \in Nat /\ Len(Earned) \in Nat /\ filed' = filed + 1 /\ filed' <= Len(Earned)
      BY <2>2, FiguresAssumption, SMTT(30) DEF FilingsOK, Stats!File
    <3>2. clock' = clock /\ filedAt' = filedAt
      BY <2>2 DEF Stats!File
    <3>3. \A i \in 1 .. clock + 1 : filedAt[i] \in Nat
      BY <1>1
    <3>4. \A i \in 1 .. clock + 1 : filedAt[i] <= filed'
      BY <3>1, <3>3 DEF FilingsOK
    <3> QED BY <3>1, <3>2, <3>4 DEF FilingsOK
  <2> QED BY <2>1, <2>2
<1>4. \A eps : \A t \in 0 .. clock : FigureOf(eps, t) => FigureOf(eps, t)'
  <2> SUFFICES ASSUME NEW eps, NEW t \in 0 .. clock, FigureOf(eps, t) PROVE FigureOf(eps, t)'
    OBVIOUS
  <2>1. filedAt'[t + 1] = filedAt[t + 1]
    BY <1>1, <1>2
  <2> QED BY <2>1 DEF FigureOf
<1>5. RowOK'
  <2>1. CASE row.checkedAt = Stats!Never
    BY <1>1, <2>1 DEF RowOK
  <2>2. CASE row.checkedAt \in 0 .. clock /\ FigureOf(row.eps, row.checkedAt)
    <3>1. FigureOf(row.eps, row.checkedAt)'
      <4>1. row' = row
        BY <1>1
      <4>2. PICK t \in 0 .. clock : t = row.checkedAt
        BY <2>2
      <4>3. PICK eps : eps = row.eps
        OBVIOUS
      <4> QED BY <1>4, <2>2, <4>1, <4>2, <4>3, Zenon DEF FigureOf
    <3> QED BY <1>1, <2>2, <3>1 DEF RowOK
  <2> QED BY <2>1, <2>2 DEF RowOK
<1>6. ASSUME NEW v \in Views PROVE ViewOK(v)'
  <2>1. view[v].now \in 0 .. clock /\ view[v].now \in 0 .. clock'
    BY <1>1 DEF ViewOK
  <2>2. view[v].pc = "save" => FigureOf(view[v].eps, view[v].now)'
    <3> SUFFICES ASSUME view[v].pc = "save" PROVE FigureOf(view[v].eps, view[v].now)'
      OBVIOUS
    <3>1. FigureOf(view[v].eps, view[v].now)
      BY DEF ViewOK
    <3>2. filedAt'[view[v].now + 1] = filedAt[view[v].now + 1]
      BY <1>1, <1>2, <2>1
    <3> QED BY <1>1, <3>1, <3>2 DEF FigureOf
  <2>3. (view[v].pc = "shown" /\ ~view[v].failed /\ view[v].now >= Ttl) =>
          FigureOf(view[v].eps, view[v].now - Ttl)'
    <3> SUFFICES ASSUME view[v].pc = "shown", ~view[v].failed, view[v].now >= Ttl
                 PROVE  FigureOf(view[v].eps, view[v].now - Ttl)'
      OBVIOUS
    <3>1. FigureOf(view[v].eps, view[v].now - Ttl)
      BY DEF ViewOK
    <3>2. filedAt'[(view[v].now - Ttl) + 1] = filedAt[(view[v].now - Ttl) + 1]
      <4>1. Ttl \in Nat
        BY FiguresAssumption
      <4>2. PICK i \in Int : i = (view[v].now - Ttl) + 1
        BY <2>1, <4>1, <1>1
      <4>3. i \in 1 .. clock + 1
        BY <1>1, <2>1, <4>1, <4>2
      <4> QED BY <1>2, <4>2, <4>3
    <3> QED BY <1>1, <3>1, <3>2 DEF FigureOf
  <2> QED BY <1>1, <2>1, <2>2, <2>3 DEF ViewOK, FigureOf
<1> QED BY <1>1, <1>3, <1>5, <1>6

\* An older figure may be shown where a newer one is.
LEMMA FigureKeeps ==
  ASSUME FilingsOK, NEW eps, NEW t \in 0 .. clock, FigureOf(eps, t), NEW u \in 0 .. t
  PROVE  FigureOf(eps, u)
<1>1. PICK n \in FirstFiled .. Len(Earned) : eps = Drawn(n) /\ filedAt[t + 1] <= n
  BY DEF FigureOf
<1>2. n \in Nat /\ t \in Nat /\ u \in Nat /\ t + 1 \in 1 .. clock + 1 /\ u + 1 \in 1 .. clock + 1
  BY FiguresAssumption DEF FilingsOK
<1>3. filedAt[t + 1] \in Nat /\ filedAt[u + 1] \in Nat /\ filedAt[u + 1] <= filedAt[t + 1]
  BY <1>2, SMTT(30) DEF FilingsOK
<1> QED BY <1>1, <1>2, <1>3 DEF FigureOf

\* A step of one view keeps what is held.
LEMMA ViewsMove ==
  ASSUME StatsOK, NEW v \in Views,
         \/ Stats!Open(v) \/ Stats!FetchEps(v) \/ Stats!FetchFails(v)
         \/ Stats!SaveEps(v) \/ Stats!SaveFails(v) \/ Stats!Leave(v)
  PROVE  StatsOK'
<1> USE DEF StatsOK
<1>1. /\ UNCHANGED <<clock, filed, filedAt>> /\ clock \in Nat /\ FilingsOK /\ Ttl \in Nat
      /\ DOMAIN view = Views
      /\ DOMAIN view' = Views /\ \A w \in Views \ {v} : view'[w] = view[w]
  BY FiguresAssumption, Zenon DEF Stats!Open, Stats!FetchEps, Stats!FetchFails, Stats!SaveEps, Stats!SaveFails, Stats!Leave, FilingsOK
<1>2. FilingsOK'
  BY <1>1 DEF FilingsOK
<1>3. \A eps, t : FigureOf(eps, t)' <=> FigureOf(eps, t)
  BY <1>1 DEF FigureOf
<1>4. ASSUME NEW w \in Views \ {v}
      PROVE  /\ view'[w] = [pc |-> view'[w].pc, now |-> view'[w].now, eps |-> view'[w].eps, failed |-> view'[w].failed]
             /\ ViewOK(w)'
  <2>1. view'[w] = view[w]
    BY <1>1
  <2> QED BY <1>1, <2>1 DEF ViewOK, FigureOf
<1>5. /\ view[v] = [pc |-> view[v].pc, now |-> view[v].now, eps |-> view[v].eps, failed |-> view[v].failed]
      /\ ViewOK(v)
  OBVIOUS
<1>6. ASSUME UNCHANGED row PROVE RowOK' /\ row' = [eps |-> row'.eps, checkedAt |-> row'.checkedAt]
  BY <1>1, <1>6 DEF RowOK, FigureOf
<1>7. CASE Stats!Open(v)
  <2>1. /\ UNCHANGED row
        /\ view'[v] = [pc |-> IF Stats!Stale(clock) THEN "fetch" ELSE "shown", now |-> clock,
                       eps |-> row.eps, failed |-> FALSE]
    BY <1>1, <1>7, Zenon DEF Stats!Open, Stats!Idle
  <2>2. ASSUME ~Stats!Stale(clock), clock >= Ttl PROVE FigureOf(row.eps, clock - Ttl)
    <3>1. /\ row.checkedAt \in 0 .. clock /\ FigureOf(row.eps, row.checkedAt)
          /\ ~(clock - row.checkedAt > Ttl)
      BY <2>2 DEF RowOK, Stats!Stale
    <3>2. clock - Ttl \in 0 .. row.checkedAt
      BY <1>1, <2>2, <3>1
    <3> QED BY <1>1, <3>1, <3>2, FigureKeeps
  <2>3. ViewOK(v)'
    BY <1>1, <2>1, <2>2 DEF ViewOK, FigureOf
  <2> QED BY <1>1, <1>2, <1>4, <1>6, <2>1, <2>3
<1>8. CASE Stats!FetchEps(v)
  <2>1. /\ UNCHANGED row
        /\ view'[v] = [pc |-> "save", now |-> view[v].now, eps |-> Drawn(filed), failed |-> view[v].failed]
    BY <1>1, <1>5, <1>8, Zenon DEF Stats!FetchEps, Drawn
  <2>2. FigureOf(Drawn(filed), view[v].now)
    <3>1. view[v].now + 1 \in 1 .. clock + 1
      BY <1>1, <1>5 DEF ViewOK
    <3> QED BY <1>1, <3>1 DEF FigureOf, FilingsOK
  <2>3. ViewOK(v)'
    BY <1>1, <1>5, <2>1, <2>2 DEF ViewOK, FigureOf
  <2> QED BY <1>1, <1>2, <1>4, <1>6, <2>1, <2>3
<1>9. CASE Stats!FetchFails(v)
  <2>1. /\ UNCHANGED row
        /\ view'[v] = [pc |-> "shown", now |-> view[v].now, eps |-> view[v].eps, failed |-> TRUE]
    BY <1>1, <1>5, <1>9, Zenon DEF Stats!FetchFails
  <2>2. ViewOK(v)'
    BY <1>1, <1>5, <2>1 DEF ViewOK
  <2> QED BY <1>1, <1>2, <1>4, <1>6, <2>1, <2>2
<1>10. ASSUME view[v].pc = "save"
       PROVE  view[v].now \in 0 .. clock /\ FigureOf(view[v].eps, view[v].now)
              /\ (view[v].now >= Ttl => FigureOf(view[v].eps, view[v].now - Ttl))
  <2>1. view[v].now \in 0 .. clock /\ FigureOf(view[v].eps, view[v].now)
    BY <1>5, <1>10 DEF ViewOK
  <2>2. ASSUME view[v].now >= Ttl PROVE FigureOf(view[v].eps, view[v].now - Ttl)
    <3>1. view[v].now - Ttl \in 0 .. view[v].now
      BY <1>1, <2>1, <2>2
    <3> QED BY <1>1, <2>1, <3>1, FigureKeeps
  <2> QED BY <2>1, <2>2
<1>11. CASE Stats!SaveEps(v)
  <2>1. /\ row' = [eps |-> view[v].eps, checkedAt |-> view[v].now]
        /\ view'[v] = [pc |-> "shown", now |-> view[v].now, eps |-> view[v].eps, failed |-> view[v].failed]
    BY <1>1, <1>5, <1>11 DEF Stats!SaveEps, Stats!CheckedAt
  <2>2. view[v].now \in 0 .. clock /\ FigureOf(view[v].eps, view[v].now)
    BY <1>10, <1>11 DEF Stats!SaveEps
  <2>3. view[v].now >= Ttl => FigureOf(view[v].eps, view[v].now - Ttl)
    BY <1>10, <1>11 DEF Stats!SaveEps
  <2>4. ViewOK(v)'
    BY <1>1, <2>1, <2>2, <2>3 DEF ViewOK, FigureOf
  <2>5. RowOK' /\ row' = [eps |-> row'.eps, checkedAt |-> row'.checkedAt]
    BY <1>1, <2>1, <2>2 DEF RowOK, FigureOf
  <2> QED BY <1>1, <1>2, <1>4, <2>1, <2>4, <2>5
<1>12. CASE Stats!SaveFails(v)
  <2>1. /\ UNCHANGED row
        /\ view'[v] = [pc |-> "shown", now |-> view[v].now, eps |-> view[v].eps, failed |-> view[v].failed]
    BY <1>1, <1>5, <1>12, Zenon DEF Stats!SaveFails
  <2>2. /\ view[v].now \in 0 .. clock /\ FigureOf(view[v].eps, view[v].now)
        /\ view[v].now >= Ttl => FigureOf(view[v].eps, view[v].now - Ttl)
    BY <1>10, <1>12 DEF Stats!SaveFails
  <2>3. ViewOK(v)'
    BY <1>1, <2>1, <2>2 DEF ViewOK, FigureOf
  <2> QED BY <1>1, <1>2, <1>4, <1>6, <2>1, <2>3
<1>13. CASE Stats!Leave(v)
  <2>1. UNCHANGED row /\ view'[v] = Stats!Idle
    BY <1>1, <1>13 DEF Stats!Leave
  <2>2. /\ view'[v] = [pc |-> view'[v].pc, now |-> view'[v].now, eps |-> view'[v].eps, failed |-> view'[v].failed]
        /\ ViewOK(v)'
    BY <1>1, <2>1 DEF ViewOK, Stats!Idle
  <2> QED BY <1>1, <1>2, <1>4, <1>6, <2>1, <2>2
<1> QED BY <1>7, <1>8, <1>9, <1>11, <1>12, <1>13

\* Every step does.
LEMMA StatsMove ==
  ASSUME StatsOK, [Stats!StatsNext]_statVars
  PROVE  StatsOK'
<1>1. CASE Stats!StatsNext
  BY <1>1, FilingsMove, ViewsMove DEF Stats!StatsNext
<1>2. CASE UNCHANGED statVars
  BY <1>2 DEF statVars, StatsOK, FilingsOK, RowOK, ViewOK, FigureOf
<1> QED BY <1>1, <1>2

--------------------------------------------------------------------------------
(* Prices: what the caches, a status remembered and a request hold.             *)

Entries == [quote : Int, staleAfter : Int]
Instruments == [name : {"none", "symbol", "reference"}, status : {"none", "ACTIVE", "INACTIVE"}]
RequestFields == {"pc", "about", "stage", "now", "ttl", "out", "expired", "fresh", "down"}
IsRequest(q) ==
  /\ DOMAIN q = RequestFields
  /\ q.pc \in {"idle", "rows", "load", "save", "register", "shown", "unavailable"}
  /\ q.about \in SUBSET Listing /\ q.stage \in {"list", "register", "page"}
  /\ q.now \in Int /\ q.ttl \in Int /\ q.out \in [Listing -> Int] /\ q.expired \in [Listing -> Int]
  /\ q.fresh \in SUBSET Listing /\ q.down \in BOOLEAN

QuoteTypes ==
  /\ tick \in Nat /\ session \in {"OPEN", "CLOSED"} /\ opened \in Int
  /\ opened = Quotes!Never \/ opened \in 0 .. tick
  /\ session = "OPEN" <=> opened # Quotes!Never
  /\ feed \subseteq Listing
  /\ instruments \in [Listing -> Instruments]
  /\ cached \in [Listing -> Entries]
  /\ memo \in [Servers -> [Listing -> Entries]]
  /\ status \in [Servers -> [value : {"OPEN", "CLOSED"}, staleAfter : Int]]
  /\ sync \in [pc : {"idle", "upsert", "sweep", "done"}, assets : SUBSET Listing]
  /\ DOMAIN request = Pages \cup Lists /\ \A r \in Pages \cup Lists : IsRequest(request[r])

\* How late an entry, or a time to live, of a closed market may still be used.
OfClosed(t) == opened # Quotes!Never => t <= opened + StatusTtl

\* A quote lives no longer than the closed market's time from when the vendor had
\* it, nor than the open market's once a status of before has been forgotten.
EntryOK(e) ==
  e.quote # Quotes!NoQuote =>
    /\ e.quote <= tick
    /\ e.staleAfter <= e.quote + QuoteClosed
    /\ e.staleAfter <= e.quote + QuoteOpen \/ OfClosed(e.staleAfter - QuoteClosed)

StatusOK(s) ==
  /\ s.staleAfter <= tick + StatusTtl
  /\ s.value = "OPEN" => opened # Quotes!Never
  /\ s.value = "CLOSED" => OfClosed(s.staleAfter)

\* A price fit to be served to a request that began at tick t.
Serves(q, t) ==
  q # Quotes!NoQuote =>
    /\ q > t - QuoteClosed
    /\ (opened # Quotes!Never /\ opened + QuoteClosed + StatusTtl <= t) => q > t - QuoteOpen

RequestOK(q) ==
  /\ q.now <= tick
  /\ ~q.down => \A s \in q.about \cap feed : Serves(q.out[s], q.now)
  /\ q.pc \in {"rows", "load", "save"} =>
       q.ttl = QuoteOpen \/ (q.ttl = QuoteClosed /\ OfClosed(q.now))
  /\ q.pc = "save" => \A s \in q.fresh : q.now <= q.out[s] /\ q.out[s] <= tick
  /\ q.pc = "load" => \E s \in q.about : q.out[s] = Quotes!NoQuote
  /\ q.pc = "register" \/ q.stage \in {"register", "page"} => \E s \in Listing : q.about = {s}

QuotesOK ==
  /\ QuoteTypes
  /\ \A s \in Listing : EntryOK(cached[s])
  /\ \A m \in Servers : StatusOK(status[m]) /\ \A s \in Listing : EntryOK(memo[m][s])
  /\ \A r \in Pages \cup Lists : RequestOK(request[r])

TtlAssumption ==
  /\ QuoteOpen \in Nat \ {0} /\ QuoteClosed \in Nat \ {0} /\ QuoteOpen <= QuoteClosed /\ StatusTtl \in Nat
  /\ \A r \in Pages \cup Lists : Server[r] \in Servers

\* The times to live, as the steps below use them.
LEMMA Ttls == TtlAssumption
BY FiguresAssumption DEF TtlAssumption

\* A request at rest.
LEMMA RestOK ==
  ASSUME tick \in Nat
  PROVE  IsRequest(Quotes!AtRest) /\ RequestOK(Quotes!AtRest)
<1> DEFINE a == Quotes!AtRest
           none == [s \in Listing |-> Quotes!NoQuote]
<1>1. none \in [Listing -> Int]
  BY DEF Quotes!NoQuote
<1>2. /\ DOMAIN a = RequestFields /\ a.pc = "idle" /\ a.about = {} /\ a.stage = "list"
      /\ a.now = 0 /\ a.ttl = 0 /\ a.out = none /\ a.expired = none /\ a.fresh = {} /\ a.down = FALSE
  BY DEF Quotes!AtRest, RequestFields
<1> HIDE DEF a, none
<1>5. a.down \in BOOLEAN
  BY <1>2, Zenon
<1>3. IsRequest(a)
  BY <1>1, <1>2, <1>5 DEF IsRequest
<1>4. RequestOK(a)
  BY <1>2 DEF RequestOK
<1> QED BY <1>3, <1>4 DEF a

\* What is held of prices, as the model starts.
LEMMA QuotesStart ==
  ASSUME Quotes!QuoteInit
  PROVE  QuotesOK
<1> USE Ttls DEF TtlAssumption, Quotes!QuoteInit, Quotes!Never, Quotes!NoQuote
<1>1. tick \in Nat /\ \A r \in Pages \cup Lists : request[r] = Quotes!AtRest
  BY DEF Quotes!Requests
<1>2. \A s \in Listing : EntryOK(cached[s])
  BY DEF EntryOK, Quotes!Empty
<1>3. ASSUME NEW m \in Servers
      PROVE  StatusOK(status[m]) /\ \A s \in Listing : EntryOK(memo[m][s])
  <2>1. memo[m] = cached
    OBVIOUS
  <2>2. StatusOK(status[m])
    BY DEF StatusOK, OfClosed, Quotes!Unknown
  <2> QED BY <1>2, <2>1, <2>2
<1>4. \A r \in Pages \cup Lists : IsRequest(request[r]) /\ RequestOK(request[r])
  BY <1>1, RestOK
<1>5. QuoteTypes
  <2>1. DOMAIN request = Pages \cup Lists
    BY DEF Quotes!Requests
  <2> QED BY <1>4, <2>1 DEF QuoteTypes, Entries, Instruments, Quotes!NoRow, Quotes!Empty, Quotes!Unknown
<1> QED BY <1>2, <1>3, <1>4, <1>5 DEF QuotesOK

\* A fresh entry serves.
LEMMA FreshServes ==
  ASSUME TtlAssumption, tick \in Nat, opened \in Int, NEW e \in Entries, EntryOK(e), NEW t \in Int, Quotes!Fresh(e, t)
  PROVE  Serves(e.quote, t)
<1>1. e.quote \in Int /\ e.staleAfter \in Int /\ e.staleAfter > t
  BY DEF Entries, Quotes!Fresh
<1> QED BY <1>1 DEF TtlAssumption, EntryOK, Serves, OfClosed

\* A request that ends with its prices keeps what was fit to serve.
LEMMA AnswerOK ==
  ASSUME NEW q, IsRequest(q), RequestOK(q)
  PROVE  IsRequest(Quotes!Answer(q)) /\ RequestOK(Quotes!Answer(q))
<1> DEFINE a == Quotes!Answer(q)
<1>1. /\ DOMAIN a = RequestFields
      /\ a.pc = IF q.stage = "register" THEN "register" ELSE "shown"
      /\ a.about = q.about /\ a.stage = q.stage /\ a.now = q.now /\ a.ttl = 0 /\ a.out = q.out
      /\ a.expired = Quotes!AtRest.expired /\ a.fresh = {} /\ a.down = q.down
  BY DEF Quotes!Answer, IsRequest, RequestFields
<1>2. Quotes!AtRest.expired \in [Listing -> Int]
  BY DEF Quotes!AtRest, Quotes!NoQuote
<1> HIDE DEF a
<1>3. IsRequest(a)
  BY <1>1, <1>2 DEF IsRequest
<1>4. RequestOK(a)
  BY <1>1 DEF RequestOK, IsRequest
<1> QED BY <1>3, <1>4 DEF a

\* So does one that fails.
LEMMA FailOK ==
  ASSUME NEW q, IsRequest(q), RequestOK(q)
  PROVE  IsRequest(Quotes!Fail(q)) /\ RequestOK(Quotes!Fail(q))
<1> DEFINE a == Quotes!Fail(q)
<1>1. /\ DOMAIN a = RequestFields /\ a.pc = "unavailable"
      /\ a.about = q.about /\ a.stage = q.stage /\ a.now = q.now /\ a.ttl = 0 /\ a.out = q.out
      /\ a.expired = q.expired /\ a.fresh = {} /\ a.down = q.down
  BY DEF Quotes!Fail, IsRequest, RequestFields
<1> HIDE DEF a
<1>2. IsRequest(a)
  BY <1>1 DEF IsRequest
<1>3. RequestOK(a)
  BY <1>1 DEF RequestOK, IsRequest
<1> QED BY <1>2, <1>3 DEF a

\* A request as it begins: the memo's fresh quotes, and a time to live.
LEMMA AskedOK ==
  ASSUME QuotesOK, NEW m \in Servers, NEW about \in SUBSET Listing,
         NEW stage \in {"list", "register", "page"},
         stage # "list" => \E s \in Listing : about = {s}
  PROVE  IsRequest(Quotes!Asked(m, about, stage)) /\ RequestOK(Quotes!Asked(m, about, stage))
<1> DEFINE hits == {s \in about : Quotes!Fresh(memo[m][s], tick)}
           seen == Quotes!StatusSeen(m)
           ttl == IF seen.value = "OPEN" THEN QuoteOpen ELSE QuoteClosed
           out == [s \in Listing |-> IF s \in hits THEN memo[m][s].quote ELSE Quotes!NoQuote]
           req == [Quotes!AtRest EXCEPT !.about = about, !.stage = stage, !.now = tick, !.ttl = ttl, !.out = out]
<1>1. Quotes!Asked(m, about, stage) = IF hits = about THEN Quotes!Answer(req) ELSE [req EXCEPT !.pc = "rows"]
  BY Zenon DEF Quotes!Asked
<1>2. TtlAssumption /\ tick \in Nat /\ opened \in Int /\ (opened = Quotes!Never \/ opened \in 0 .. tick)
  BY Ttls DEF QuotesOK, QuoteTypes
<1>3. \A s \in Listing : memo[m][s] \in Entries /\ EntryOK(memo[m][s])
  BY DEF QuotesOK, QuoteTypes
<1>4. out \in [Listing -> Int]
  BY <1>3 DEF Entries, Quotes!NoQuote
<1>5. \A s \in about : Serves(out[s], tick)
  <2> SUFFICES ASSUME NEW s \in about PROVE Serves(out[s], tick)
    OBVIOUS
  <2>1. CASE s \in hits
    <3>1. Serves(memo[m][s].quote, tick)
      <4>1. PICK e : e = memo[m][s]
        OBVIOUS
      <4>2. e \in Entries /\ EntryOK(e) /\ Quotes!Fresh(e, tick)
        BY <1>3, <2>1, <4>1
      <4> QED BY <1>2, <4>1, <4>2, FreshServes
    <3> QED BY <2>1, <3>1
  <2>2. CASE s \notin hits
    BY <2>2 DEF Serves
  <2> QED BY <2>1, <2>2
<1>6. ttl = QuoteOpen \/ (ttl = QuoteClosed /\ OfClosed(tick))
  <2>1. CASE Quotes!Fresh(status[m], tick)
    <3>1. /\ seen = status[m] /\ status[m].staleAfter \in Int
          /\ status[m].value \in {"OPEN", "CLOSED"} /\ status[m].staleAfter > tick
      BY <2>1 DEF Quotes!StatusSeen, Quotes!Fresh, QuotesOK, QuoteTypes
    <3>2. status[m].value = "CLOSED" => OfClosed(status[m].staleAfter)
      BY DEF QuotesOK, StatusOK
    <3>3. CASE seen.value = "OPEN"
      BY <3>3
    <3>4. CASE seen.value = "CLOSED"
      <4>1. OfClosed(status[m].staleAfter)
        BY <3>1, <3>2, <3>4
      <4> HIDE DEF seen
      <4>2. OfClosed(tick)
        BY <1>2, <3>1, <4>1 DEF OfClosed, TtlAssumption
      <4> QED BY <3>4, <4>2
    <3> QED BY <3>1, <3>3, <3>4
  <2>2. CASE ~Quotes!Fresh(status[m], tick)
    <3>1. seen.value = session
      BY <2>2 DEF Quotes!StatusSeen
    <3> HIDE DEF seen
    <3> QED BY <3>1 DEF OfClosed, QuotesOK, QuoteTypes
  <2> QED BY <2>1, <2>2
<1>7. ttl \in Int
  BY <1>2, <1>6 DEF TtlAssumption
<1> HIDE DEF out, ttl
<1>8. /\ DOMAIN req = RequestFields /\ req.pc = "idle" /\ req.about = about /\ req.stage = stage
      /\ req.now = tick /\ req.ttl = ttl /\ req.out = out
      /\ req.expired = [s \in Listing |-> Quotes!NoQuote] /\ req.fresh = {} /\ req.down = FALSE
  BY DEF Quotes!AtRest, RequestFields
<1> HIDE DEF req
<1>9. IsRequest(req) /\ RequestOK(req)
  <2>1. [s \in Listing |-> Quotes!NoQuote] \in [Listing -> Int]
    BY DEF Quotes!NoQuote
  <2>4. req.down \in BOOLEAN
    BY <1>8, Zenon
  <2>2. IsRequest(req)
    BY <1>2, <1>4, <1>7, <1>8, <2>1, <2>4 DEF IsRequest
  <2>3. RequestOK(req)
    BY <1>2, <1>5, <1>8 DEF RequestOK
  <2> QED BY <2>2, <2>3
<1> DEFINE rows == [req EXCEPT !.pc = "rows"]
<1>10. IsRequest(rows) /\ RequestOK(rows)
  <2>1. /\ DOMAIN rows = RequestFields /\ rows.pc = "rows" /\ rows.about = about /\ rows.stage = stage
        /\ rows.now = tick /\ rows.ttl = ttl /\ rows.out = out
        /\ rows.expired = req.expired /\ rows.fresh = {} /\ rows.down = FALSE
    BY <1>8 DEF RequestFields
  <2> HIDE DEF rows
  <2>2. IsRequest(rows)
    BY <1>9, <1>8, <2>1, Zenon DEF IsRequest
  <2>3. RequestOK(rows)
    BY <1>2, <1>5, <1>6, <1>8, <2>1 DEF RequestOK
  <2> QED BY <2>2, <2>3
<1> HIDE DEF rows, hits
<1> QED BY <1>1, <1>9, <1>10, AnswerOK DEF rows

\* What becomes of the prices when a request, or the script, takes a step.
LEMMA StepKeeps ==
  ASSUME QuotesOK, UNCHANGED <<tick, session, opened, feed>>,
         instruments' \in [Listing -> Instruments],
         sync' \in [pc : {"idle", "upsert", "sweep", "done"}, assets : SUBSET Listing],
         cached' \in [Listing -> Entries], \A s \in Listing : EntryOK(cached'[s]),
         memo' \in [Servers -> [Listing -> Entries]],
         \A m \in Servers : \A s \in Listing : EntryOK(memo'[m][s]),
         status' \in [Servers -> [value : {"OPEN", "CLOSED"}, staleAfter : Int]],
         \A m \in Servers : StatusOK(status'[m]),
         DOMAIN request' = Pages \cup Lists,
         \A r \in Pages \cup Lists : IsRequest(request'[r]) /\ RequestOK(request'[r])
  PROVE  QuotesOK'
<1>1. QuoteTypes'
  BY DEF QuotesOK, QuoteTypes, IsRequest
<1>2. \A s \in Listing : EntryOK(cached[s])'
  BY DEF EntryOK, OfClosed
<1>3. \A m \in Servers : StatusOK(status[m])' /\ \A s \in Listing : EntryOK(memo[m][s])'
  BY DEF EntryOK, StatusOK, OfClosed
<1>4. \A r \in Pages \cup Lists : RequestOK(request[r])'
  BY DEF RequestOK, Serves, OfClosed
<1> QED BY <1>1, <1>2, <1>3, <1>4 DEF QuotesOK

\* Time passes: a server forgets what has expired.
LEMMA TickKeeps ==
  ASSUME QuotesOK, Quotes!PassTick
  PROVE  QuotesOK'
<1> USE DEF Quotes!PassTick, QuotesOK
<1>1. /\ tick \in Nat /\ tick' = tick + 1 /\ opened' = opened /\ feed' = feed /\ opened \in Int
      /\ UNCHANGED <<session, instruments, cached, sync, request>>
      /\ TtlAssumption
  BY Ttls DEF QuoteTypes
<1>2. ASSUME NEW m \in Servers, NEW s \in Listing
      PROVE  memo'[m][s] \in Entries /\ EntryOK(memo[m][s])'
  <2>1. CASE memo'[m][s] = memo[m][s]
    <3>1. memo[m][s] \in Entries /\ EntryOK(memo[m][s])
      BY DEF QuoteTypes
    <3>2. PICK e \in Entries : e = memo[m][s] /\ EntryOK(e)
      BY <3>1
    <3>3. e.quote \in Int /\ e.staleAfter \in Int
      BY DEF Entries
    <3>4. EntryOK(e)'
      BY <1>1, <3>2, <3>3 DEF EntryOK, OfClosed
    <3> QED BY <2>1, <3>1, <3>2, <3>4 DEF EntryOK, OfClosed
  <2>2. CASE memo'[m][s] = Quotes!Empty
    BY <2>2 DEF Entries, EntryOK, Quotes!Empty, Quotes!NoQuote, Quotes!Never
  <2> QED BY <2>1, <2>2
<1>3. ASSUME NEW m \in Servers
      PROVE  status'[m] \in [value : {"OPEN", "CLOSED"}, staleAfter : Int] /\ StatusOK(status[m])'
  <2>1. status[m] \in [value : {"OPEN", "CLOSED"}, staleAfter : Int] /\ StatusOK(status[m])
    BY DEF QuoteTypes
  <2>2. CASE status'[m] = status[m]
    <3>1. status[m].staleAfter \in Int
      BY <2>1
    <3> QED BY <1>1, <2>1, <2>2, <3>1 DEF StatusOK, OfClosed, TtlAssumption
  <2>3. CASE status'[m] = Quotes!Unknown
    BY <1>1, <2>3 DEF StatusOK, OfClosed, Quotes!Unknown, Quotes!Never, QuoteTypes, TtlAssumption
  <2> QED BY <2>2, <2>3
<1>4. ASSUME NEW s \in Listing PROVE EntryOK(cached[s])'
  <2>1. PICK e \in Entries : e = cached[s] /\ EntryOK(e)
    BY DEF QuoteTypes
  <2>2. e.quote \in Int /\ e.staleAfter \in Int
    BY DEF Entries
  <2> QED BY <1>1, <2>1, <2>2 DEF EntryOK, OfClosed
<1>5. ASSUME NEW r \in Pages \cup Lists PROVE RequestOK(request[r])'
  <2>1. IsRequest(request[r]) /\ RequestOK(request[r])
    BY DEF QuoteTypes
  <2>2. PICK q : q = request[r]
    OBVIOUS
  <2>3. q.now \in Int /\ \A s \in q.fresh : q.out[s] \in Int
    BY <2>1, <2>2 DEF IsRequest
  <2> QED BY <1>1, <2>1, <2>2, <2>3 DEF RequestOK, Serves, OfClosed
<1>6. QuoteTypes'
  <2>1. memo' \in [Servers -> [Listing -> Entries]]
    BY <1>2
  <2>2. status' \in [Servers -> [value : {"OPEN", "CLOSED"}, staleAfter : Int]]
    BY <1>3
  <2>3. opened' = Quotes!Never \/ opened' \in 0 .. tick'
    BY <1>1 DEF QuoteTypes
  <2> QED BY <1>1, <2>1, <2>2, <2>3 DEF QuoteTypes, IsRequest
<1> QED BY <1>2, <1>3, <1>4, <1>5, <1>6

\* The market opens: nothing held outlives the closed market's time.
LEMMA OpenKeeps ==
  ASSUME QuotesOK, Quotes!OpenMarket
  PROVE  QuotesOK'
<1> USE DEF Quotes!OpenMarket, QuotesOK
<1>1. /\ tick \in Nat /\ tick' = tick /\ opened' = tick /\ opened = Quotes!Never /\ session' = "OPEN"
      /\ UNCHANGED <<feed, instruments, cached, memo, status, sync, request>>
      /\ TtlAssumption
  BY Ttls DEF QuoteTypes
<1>2. ASSUME NEW e \in Entries, EntryOK(e) PROVE EntryOK(e)'
  <2>1. e.quote \in Int /\ e.staleAfter \in Int
    BY DEF Entries
  <2> QED BY <1>1, <1>2, <2>1 DEF EntryOK, OfClosed, TtlAssumption
<1>3. ASSUME NEW m \in Servers PROVE StatusOK(status[m])'
  <2>1. status[m].staleAfter \in Int /\ StatusOK(status[m])
    BY DEF QuoteTypes
  <2> QED BY <1>1, <2>1 DEF StatusOK, OfClosed, TtlAssumption, Quotes!Never
<1>4. ASSUME NEW r \in Pages \cup Lists PROVE RequestOK(request[r])'
  <2>1. IsRequest(request[r]) /\ RequestOK(request[r])
    BY DEF QuoteTypes
  <2>2. PICK q : q = request[r]
    OBVIOUS
  <2>3. q.now \in Int /\ q.now <= tick
    BY <2>1, <2>2 DEF IsRequest, RequestOK
  <2>4. OfClosed(q.now)'
    BY <1>1, <2>3 DEF OfClosed, TtlAssumption
  <2>5. \A x : Serves(x, q.now) => Serves(x, q.now)'
    BY <1>1, <2>3 DEF Serves, TtlAssumption
  <2>6. RequestOK(q)'
    BY <1>1, <2>1, <2>2, <2>4, <2>5 DEF RequestOK, OfClosed, Serves
  <2> QED BY <1>1, <2>2, <2>6 DEF RequestOK, OfClosed, Serves
<1>5. QuoteTypes'
  BY <1>1 DEF QuoteTypes, IsRequest, Quotes!Never
<1>6. \A s \in Listing : EntryOK(cached[s])'
  BY <1>1, <1>2 DEF QuoteTypes, EntryOK, OfClosed
<1>7. \A m \in Servers : \A s \in Listing : EntryOK(memo[m][s])'
  BY <1>1, <1>2 DEF QuoteTypes, EntryOK, OfClosed
<1> QED BY <1>3, <1>4, <1>5, <1>6, <1>7

\* The venue drops a symbol.
LEMMA DelistKeeps ==
  ASSUME QuotesOK, NEW s \in Listing, Quotes!Delist(s)
  PROVE  QuotesOK'
<1>1. /\ feed' \subseteq feed
      /\ UNCHANGED <<tick, session, opened, instruments, cached, memo, status, sync, request>>
  BY DEF Quotes!Delist
<1>2. QuoteTypes'
  BY <1>1 DEF QuotesOK, QuoteTypes, IsRequest
<1>3. \A r \in Pages \cup Lists : RequestOK(request[r])'
  <2> SUFFICES ASSUME NEW r \in Pages \cup Lists PROVE RequestOK(request[r])'
    OBVIOUS
  <2>1. RequestOK(request[r])
    BY DEF QuotesOK
  <2> QED BY <1>1, <2>1 DEF RequestOK, Serves, OfClosed
<1> QED BY <1>1, <1>2, <1>3 DEF QuotesOK, EntryOK, StatusOK, OfClosed

\* The listing script moves no price.
LEMMA SyncKeeps ==
  ASSUME QuotesOK, Quotes!FetchAssets \/ Quotes!UpsertAssets \/ Quotes!SweepAssets
  PROVE  QuotesOK'
<1>1. /\ UNCHANGED <<tick, session, opened, feed, cached, memo, status, request>>
      /\ feed \in SUBSET Listing /\ instruments \in [Listing -> Instruments]
      /\ sync \in [pc : {"idle", "upsert", "sweep", "done"}, assets : SUBSET Listing]
  BY DEF Quotes!FetchAssets, Quotes!UpsertAssets, Quotes!SweepAssets, Quotes!world, QuotesOK, QuoteTypes
<1>2. instruments' \in [Listing -> Instruments]
  <2>1. CASE Quotes!FetchAssets
    BY <1>1, <2>1 DEF Quotes!FetchAssets
  <2>2. CASE Quotes!UpsertAssets
    BY <1>1, <2>2 DEF Quotes!UpsertAssets, Instruments
  <2>3. CASE Quotes!SweepAssets
    BY <1>1, <2>3 DEF Quotes!SweepAssets, Instruments
  <2> QED BY <2>1, <2>2, <2>3
<1>3. sync' \in [pc : {"idle", "upsert", "sweep", "done"}, assets : SUBSET Listing]
  BY <1>1 DEF Quotes!FetchAssets, Quotes!UpsertAssets, Quotes!SweepAssets
<1> QED BY <1>1, <1>2, <1>3, StepKeeps DEF QuotesOK, QuoteTypes

\* One request's record replaced by another.
LEMMA RequestMoves ==
  ASSUME QuotesOK, NEW r \in Pages \cup Lists, NEW q, IsRequest(q), RequestOK(q),
         request' = [request EXCEPT ![r] = q]
  PROVE  DOMAIN request' = Pages \cup Lists
         /\ \A x \in Pages \cup Lists : IsRequest(request'[x]) /\ RequestOK(request'[x])
BY Zenon DEF QuotesOK, QuoteTypes

\* The step every request begins with, and a page asks again by.
LEMMA CheckKeeps ==
  ASSUME QuotesOK, NEW r \in Pages \cup Lists, NEW about \in SUBSET Listing,
         NEW stage \in {"list", "register", "page"},
         stage # "list" => \E s \in Listing : about = {s},
         Quotes!Check(r, about, stage), instruments' \in [Listing -> Instruments]
  PROVE  QuotesOK'
<1> DEFINE m == Server[r]
<1>1. m \in Servers
  BY Ttls DEF TtlAssumption
<1>2. /\ UNCHANGED <<tick, session, opened, feed, cached, memo, sync>>
      /\ status' = [status EXCEPT ![m] = Quotes!StatusSeen(m)]
      /\ request' = [request EXCEPT ![r] = Quotes!Asked(m, about, stage)]
  BY DEF Quotes!Check, Quotes!world
<1> HIDE DEF m
<1>3. IsRequest(Quotes!Asked(m, about, stage)) /\ RequestOK(Quotes!Asked(m, about, stage))
  BY <1>1, AskedOK
<1>4. DOMAIN request' = Pages \cup Lists
      /\ \A x \in Pages \cup Lists : IsRequest(request'[x]) /\ RequestOK(request'[x])
  BY <1>2, <1>3, RequestMoves, Zenon
<1>5. /\ Quotes!StatusSeen(m) \in [value : {"OPEN", "CLOSED"}, staleAfter : Int]
      /\ StatusOK(Quotes!StatusSeen(m))
  <2>1. CASE Quotes!Fresh(status[m], tick)
    BY <1>1, <2>1 DEF Quotes!StatusSeen, QuotesOK, QuoteTypes
  <2>2. CASE ~Quotes!Fresh(status[m], tick)
    <3>1. Quotes!StatusSeen(m) = [value |-> session, staleAfter |-> tick + StatusTtl]
      BY <2>2 DEF Quotes!StatusSeen
    <3> QED BY <3>1, Ttls DEF TtlAssumption, QuotesOK, QuoteTypes, StatusOK, OfClosed
  <2> QED BY <2>1, <2>2
<1>6. /\ status' \in [Servers -> [value : {"OPEN", "CLOSED"}, staleAfter : Int]]
      /\ \A x \in Servers : StatusOK(status'[x])
  <2>1. /\ status \in [Servers -> [value : {"OPEN", "CLOSED"}, staleAfter : Int]]
        /\ \A x \in Servers : StatusOK(status[x])
    BY DEF QuotesOK, QuoteTypes
  <2> QED BY <1>1, <1>2, <1>5, <2>1, Zenon
<1> QED BY <1>2, <1>4, <1>6, StepKeeps DEF QuotesOK, QuoteTypes

\* A list or a page is asked for.
LEMMA AskKeeps ==
  ASSUME QuotesOK,
         (\E r \in Lists : Quotes!AskList(r)) \/ \E r \in Pages, s \in Listing : Quotes!AskPage(r, s)
  PROVE  QuotesOK'
<1>1. instruments \in [Listing -> Instruments]
  BY DEF QuotesOK, QuoteTypes
<1>2. ASSUME NEW r \in Lists, Quotes!AskList(r) PROVE QuotesOK'
  BY <1>1, <1>2, CheckKeeps DEF Quotes!AskList
<1>3. ASSUME NEW r \in Pages, NEW s \in Listing, Quotes!AskPage(r, s) PROVE QuotesOK'
  <2>1. PICK stage \in {"register", "page"} : Quotes!Check(r, {s}, stage) /\ instruments' = instruments
    BY <1>3 DEF Quotes!AskPage
  <2> QED BY <1>1, <2>1, CheckKeeps
<1> QED BY <1>2, <1>3

\* A page that has quoted its symbol registers it and asks again.
LEMMA RegisterKeeps ==
  ASSUME QuotesOK, NEW r \in Pages \cup Lists, Quotes!Register(r)
  PROVE  QuotesOK'
<1> DEFINE q == request[r]
<1>1. IsRequest(q) /\ RequestOK(q) /\ q.pc = "register" /\ Quotes!Check(r, q.about, "page")
  BY DEF Quotes!Register, QuotesOK, QuoteTypes
<1>2. instruments' \in [Listing -> Instruments]
  <2>1. instruments \in [Listing -> Instruments]
    BY DEF QuotesOK, QuoteTypes
  <2>2. \A s \in Listing : Quotes!Registered(s) \in Instruments
    BY <2>1 DEF Quotes!Registered, Instruments
  <2>3. instruments' = [s \in Listing |-> IF s \in q.about THEN Quotes!Registered(s) ELSE instruments[s]]
    BY DEF Quotes!Register
  <2> QED BY <2>1, <2>2, <2>3
<1>3. \E s \in Listing : q.about = {s}
  BY <1>1 DEF RequestOK
<1>4. q.about \in SUBSET Listing
  BY <1>1 DEF IsRequest
<1> HIDE DEF q
<1> QED BY <1>1, <1>2, <1>3, <1>4, CheckKeeps

\* The shared rows, read in one query.
LEMMA ReadKeeps ==
  ASSUME QuotesOK, NEW r \in Pages \cup Lists, Quotes!ReadRows(r)
  PROVE  QuotesOK'
<1> DEFINE q == request[r]
           m == Server[r]
           missing == Quotes!Missing(r)
           hits == {s \in missing : Quotes!Fresh(cached[s], q.now)}
           out == Quotes!Took(r, [s \in hits |-> cached[s].quote])
           stale == [s \in Listing |-> IF s \in missing \ hits THEN cached[s].quote ELSE Quotes!NoQuote]
           seen == [q EXCEPT !.out = out]
           load == [seen EXCEPT !.pc = "load", !.expired = stale]
<1>1. /\ q.pc = "rows" /\ UNCHANGED <<tick, session, opened, feed, instruments, cached, status, sync>>
      /\ memo' = [memo EXCEPT ![m] = [s \in Listing |-> IF s \in hits THEN cached[s] ELSE @[s]]]
      /\ request' = [request EXCEPT ![r] = IF hits = missing THEN Quotes!Answer(seen) ELSE load]
  BY Zenon DEF Quotes!ReadRows, Quotes!world
<1>2. IsRequest(q) /\ RequestOK(q) /\ m \in Servers
  BY Ttls DEF QuotesOK, QuoteTypes, TtlAssumption
<1>3. \A s \in Listing : cached[s] \in Entries /\ EntryOK(cached[s])
  BY DEF QuotesOK, QuoteTypes
<1>4. missing \subseteq q.about /\ hits \subseteq missing /\ q.about \subseteq Listing /\ q.now \in Int
  BY <1>2 DEF Quotes!Missing, IsRequest
<1>5. out \in [Listing -> Int]
      /\ \A s \in Listing : out[s] = IF s \in hits THEN cached[s].quote ELSE q.out[s]
  BY <1>2, <1>3, <1>4 DEF Quotes!Took, IsRequest, Entries
<1>6. stale \in [Listing -> Int]
  BY <1>3 DEF Entries, Quotes!NoQuote
<1>7. \A s \in hits : Serves(cached[s].quote, q.now)
  <2> SUFFICES ASSUME NEW s \in hits PROVE Serves(cached[s].quote, q.now)
    OBVIOUS
  <2>1. PICK e : e = cached[s]
    OBVIOUS
  <2>2. e \in Entries /\ EntryOK(e) /\ Quotes!Fresh(e, q.now)
    BY <1>3, <1>4, <2>1
  <2>3. TtlAssumption /\ tick \in Nat /\ opened \in Int
    BY Ttls DEF QuotesOK, QuoteTypes
  <2> QED BY <1>4, <2>1, <2>2, <2>3, FreshServes
<1>8. hits # missing => \E s \in q.about : out[s] = Quotes!NoQuote
  BY <1>4, <1>5 DEF Quotes!Missing
<1>9. \A s \in Listing : (s \in hits => EntryOK(cached[s])) /\ (s \in hits => cached[s] \in Entries)
  BY <1>3
<1> HIDE DEF missing, hits, out, stale
<1>10. /\ DOMAIN seen = RequestFields /\ seen.pc = "rows" /\ seen.about = q.about /\ seen.stage = q.stage
       /\ seen.now = q.now /\ seen.ttl = q.ttl /\ seen.out = out /\ seen.expired = q.expired
       /\ seen.fresh = q.fresh /\ seen.down = q.down
  BY <1>1, <1>2 DEF IsRequest, RequestFields
<1>11. /\ DOMAIN load = RequestFields /\ load.pc = "load" /\ load.about = q.about /\ load.stage = q.stage
       /\ load.now = q.now /\ load.ttl = q.ttl /\ load.out = out /\ load.expired = stale
       /\ load.fresh = q.fresh /\ load.down = q.down
  BY <1>2 DEF IsRequest, RequestFields
<1> HIDE DEF seen, load, q
<1>12. IsRequest(seen) /\ IsRequest(load)
  BY <1>2, <1>5, <1>6, <1>10, <1>11 DEF IsRequest
<1>13. ~q.down => \A s \in q.about \cap feed : Serves(out[s], q.now)
  BY <1>2, <1>4, <1>5, <1>7 DEF RequestOK
<1>14. RequestOK(seen)
  BY <1>1, <1>2, <1>10, <1>13 DEF RequestOK
<1>15. hits # missing => RequestOK(load)
  BY <1>1, <1>2, <1>8, <1>11, <1>13 DEF RequestOK
<1>16. DOMAIN request' = Pages \cup Lists
       /\ \A x \in Pages \cup Lists : IsRequest(request'[x]) /\ RequestOK(request'[x])
  <2>1. CASE hits = missing
    BY <1>1, <1>12, <1>14, <2>1, AnswerOK, RequestMoves, Zenon
  <2>2. CASE hits # missing
    BY <1>1, <1>12, <1>15, <2>2, RequestMoves, Zenon
  <2> QED BY <2>1, <2>2
<1>17. /\ memo' \in [Servers -> [Listing -> Entries]]
       /\ \A x \in Servers : \A s \in Listing : EntryOK(memo'[x][s])
  <2>1. /\ memo \in [Servers -> [Listing -> Entries]]
        /\ \A x \in Servers : \A s \in Listing : EntryOK(memo[x][s])
    BY DEF QuotesOK, QuoteTypes
  <2> QED BY <1>1, <1>2, <1>9, <2>1
<1> QED BY <1>1, <1>3, <1>16, <1>17, StepKeeps DEF QuotesOK, QuoteTypes

\* A failed request serves what has expired, or fails; a vendor that answered
\* is the page's alone, of a symbol it quotes no longer.
LEMMA DegradedOK ==
  ASSUME QuotesOK, NEW r \in Pages \cup Lists, NEW down \in BOOLEAN,
         down \/ request[r].about \cap feed = {}
  PROVE  IsRequest(Quotes!Degraded(r, down)) /\ RequestOK(Quotes!Degraded(r, down))
<1> DEFINE q == request[r]
           out == Quotes!Took(r, Quotes!Served(r))
           served == [q EXCEPT !.out = out, !.down = down]
           ended == [served EXCEPT !.pc = "shown"]
<1>1. Quotes!Degraded(r, down) \in {Quotes!Fail(served), Quotes!Answer(served)}
  BY Zenon DEF Quotes!Degraded
<1>2. IsRequest(q) /\ RequestOK(q)
  BY DEF QuotesOK, QuoteTypes
<1>3. out \in [Listing -> Int]
  BY <1>2 DEF Quotes!Took, Quotes!Served, IsRequest
<1> HIDE DEF out
\* What ends a request looks at neither its time to live nor what it drew.
<1>4. /\ DOMAIN ended = RequestFields /\ ended.pc = "shown" /\ ended.about = q.about
      /\ ended.stage = q.stage /\ ended.now = q.now /\ ended.ttl = q.ttl /\ ended.out = out
      /\ ended.expired = q.expired /\ ended.fresh = q.fresh /\ ended.down = down
  BY <1>2 DEF IsRequest, RequestFields
<1>5. /\ Quotes!Fail(served) = Quotes!Fail(ended)
      /\ Quotes!Answer(served) = Quotes!Answer(ended)
  <2>1. DOMAIN served = RequestFields /\ served.stage = ended.stage
    BY <1>2 DEF IsRequest, RequestFields
  <2> QED BY <2>1, Zenon DEF Quotes!Fail, Quotes!Answer, RequestFields
<1> HIDE DEF ended, served, q
<1>6. IsRequest(ended)
  BY <1>2, <1>3, <1>4 DEF IsRequest
<1>7. RequestOK(ended)
  BY <1>2, <1>4 DEF RequestOK, q
<1> QED BY <1>1, <1>5, <1>6, <1>7, FailOK, AnswerOK

\* A failure, of the vendor or of the rows' write, serves what has expired.
LEMMA FailsKeep ==
  ASSUME QuotesOK, NEW r \in Pages \cup Lists, Quotes!LoadFails(r) \/ Quotes!SaveFails(r)
  PROVE  QuotesOK'
<1>1. /\ UNCHANGED <<tick, session, opened, feed, instruments, cached, memo, status, sync>>
      /\ request' = [request EXCEPT ![r] = Quotes!Degraded(r, TRUE)]
  BY Zenon DEF Quotes!LoadFails, Quotes!SaveFails, Quotes!world
<1>2. IsRequest(Quotes!Degraded(r, TRUE)) /\ RequestOK(Quotes!Degraded(r, TRUE))
  BY DegradedOK, TRUE \in BOOLEAN, Zenon
<1> QED BY <1>1, <1>2, RequestMoves, StepKeeps, Zenon DEF QuotesOK, QuoteTypes

\* The vendor answers: the quotes are of this tick, and live from when the
\* request began.
LEMMA LoadKeeps ==
  ASSUME QuotesOK, NEW r \in Pages \cup Lists, Quotes!Load(r)
  PROVE  QuotesOK'
<1> DEFINE q == request[r]
           m == Server[r]
           got == Quotes!Missing(r) \cap feed
           out == Quotes!Took(r, [s \in got |-> tick])
           save == [q EXCEPT !.out = out, !.fresh = got, !.pc = "save"]
           entry == [quote |-> tick, staleAfter |-> Quotes!StaleAfter(r)]
           kept == [memo EXCEPT ![m] = [s \in Listing |-> IF s \in got THEN entry ELSE @[s]]]
<1>1. /\ q.pc = "load" /\ UNCHANGED <<tick, session, opened, feed, instruments, cached, status, sync>>
      /\ memo' = memo \/ memo' = kept
      /\ \/ Quotes!IsPage(r) /\ got = {} /\ request' = [request EXCEPT ![r] = Quotes!Degraded(r, FALSE)]
         \/ got = {} /\ request' = [request EXCEPT ![r] = Quotes!Answer(q)]
         \/ got # {} /\ request' = [request EXCEPT ![r] = save]
  BY Zenon DEF Quotes!Load, Quotes!world
<1>2. IsRequest(q) /\ RequestOK(q) /\ m \in Servers /\ TtlAssumption /\ tick \in Nat /\ opened \in Int
  BY Ttls DEF QuotesOK, QuoteTypes, TtlAssumption
<1>3. got \subseteq q.about \cap feed /\ got \subseteq Listing /\ q.now \in Int /\ q.now <= tick
  BY <1>2 DEF Quotes!Missing, IsRequest, RequestOK
<1>4. out \in [Listing -> Int]
      /\ \A s \in Listing : out[s] = IF s \in got THEN tick ELSE q.out[s]
  BY <1>2, <1>3 DEF Quotes!Took, IsRequest
<1>5. (Quotes!IsPage(r) /\ got = {}) => q.about \cap feed = {}
  <2>1. Quotes!IsPage(r) => \E s \in Listing : q.about = {s}
    BY <1>2 DEF Quotes!IsPage, RequestOK
  <2>2. \E s \in q.about : q.out[s] = Quotes!NoQuote
    BY <1>1, <1>2 DEF RequestOK
  <2> QED BY <2>1, <2>2 DEF Quotes!Missing
<1>6. q.ttl \in Int /\ (q.ttl = QuoteOpen \/ (q.ttl = QuoteClosed /\ OfClosed(q.now)))
  BY <1>1, <1>2 DEF IsRequest, RequestOK
<1>7. entry \in Entries /\ EntryOK(entry)
  <2>1. Quotes!StaleAfter(r) = q.now + q.ttl
    BY DEF Quotes!StaleAfter
  <2>2. entry.quote = tick /\ entry.staleAfter = q.now + q.ttl /\ entry \in Entries
    BY <1>2, <1>3, <1>6, <2>1 DEF Entries
  <2> HIDE DEF entry, q
  <2> QED BY <1>2, <1>3, <1>6, <2>2 DEF EntryOK, OfClosed, TtlAssumption
<1> HIDE DEF got, out, entry
<1>8. /\ DOMAIN save = RequestFields /\ save.pc = "save" /\ save.about = q.about /\ save.stage = q.stage
      /\ save.now = q.now /\ save.ttl = q.ttl /\ save.out = out /\ save.expired = q.expired
      /\ save.fresh = got /\ save.down = q.down
  BY <1>2 DEF IsRequest, RequestFields
<1>9. ~q.down => \A s \in q.about \cap feed : Serves(out[s], q.now)
  <2>1. Serves(tick, q.now)
    BY <1>2, <1>3 DEF Serves, TtlAssumption
  <2> QED BY <1>2, <1>4, <2>1 DEF RequestOK, IsRequest
<1> HIDE DEF save, q
<1>10. IsRequest(save)
  BY <1>2, <1>3, <1>4, <1>8 DEF IsRequest
<1>11. RequestOK(save)
  BY <1>1, <1>2, <1>3, <1>4, <1>8, <1>9 DEF RequestOK
<1>12. (Quotes!IsPage(r) /\ got = {}) =>
         IsRequest(Quotes!Degraded(r, FALSE)) /\ RequestOK(Quotes!Degraded(r, FALSE))
  BY <1>5, DegradedOK, FALSE \in BOOLEAN, Zenon DEF q
<1>13. IsRequest(Quotes!Answer(q)) /\ RequestOK(Quotes!Answer(q))
  BY <1>2, AnswerOK
<1>14. DOMAIN request' = Pages \cup Lists
       /\ \A x \in Pages \cup Lists : IsRequest(request'[x]) /\ RequestOK(request'[x])
  BY <1>1, <1>10, <1>11, <1>12, <1>13, RequestMoves, Zenon
<1>15. /\ memo' \in [Servers -> [Listing -> Entries]]
       /\ \A x \in Servers : \A s \in Listing : EntryOK(memo'[x][s])
  <2>1. /\ memo \in [Servers -> [Listing -> Entries]]
        /\ \A x \in Servers : \A s \in Listing : EntryOK(memo[x][s])
    BY DEF QuotesOK, QuoteTypes
  <2> QED BY <1>1, <1>2, <1>7, <2>1, SMTT(30)
<1> QED BY <1>1, <1>14, <1>15, StepKeeps DEF QuotesOK, QuoteTypes

\* The rows are written: the entry lives from when the request began.
LEMMA SaveKeeps ==
  ASSUME QuotesOK, NEW r \in Pages \cup Lists, Quotes!SaveRows(r)
  PROVE  QuotesOK'
<1> DEFINE q == request[r]
           m == Server[r]
           kept == [memo EXCEPT ![m] = [s \in Listing |-> IF s \in q.fresh THEN Quotes!Entry(r, s) ELSE @[s]]]
<1>1. /\ q.pc = "save" /\ UNCHANGED <<tick, session, opened, feed, instruments, status, sync>>
      /\ cached' = [s \in Listing |-> IF s \in q.fresh THEN Quotes!Entry(r, s) ELSE cached[s]]
      /\ memo' = memo \/ memo' = kept
      /\ request' = [request EXCEPT ![r] = Quotes!Answer(q)]
  BY Zenon DEF Quotes!SaveRows, Quotes!world
<1>2. IsRequest(q) /\ RequestOK(q) /\ m \in Servers /\ TtlAssumption /\ tick \in Nat /\ opened \in Int
  BY Ttls DEF QuotesOK, QuoteTypes, TtlAssumption
<1>3. /\ q.ttl \in Int /\ (q.ttl = QuoteOpen \/ (q.ttl = QuoteClosed /\ OfClosed(q.now)))
      /\ q.now \in Int /\ q.fresh \subseteq Listing
  BY <1>1, <1>2 DEF IsRequest, RequestOK
<1>4. ASSUME NEW s \in q.fresh
      PROVE  Quotes!Entry(r, s) \in Entries /\ EntryOK(Quotes!Entry(r, s))
  <2>1. PICK e : e = Quotes!Entry(r, s)
    OBVIOUS
  <2>2. e = [quote |-> q.out[s], staleAfter |-> q.now + q.ttl]
    BY <2>1, Zenon DEF Quotes!Entry, Quotes!StaleAfter
  <2>3. PICK x \in Int : x = q.out[s] /\ q.now <= x /\ x <= tick
    BY <1>1, <1>2, <1>3 DEF IsRequest, RequestOK
  <2>4. e.quote = x /\ e.staleAfter = q.now + q.ttl /\ e \in Entries
    BY <1>3, <2>2, <2>3 DEF Entries
  <2> HIDE DEF q
  <2>5. EntryOK(e)
    BY <1>2, <1>3, <2>3, <2>4 DEF EntryOK, OfClosed, TtlAssumption
  <2> QED BY <2>1, <2>4, <2>5
<1> HIDE DEF q
<1>5. cached' \in [Listing -> Entries] /\ \A s \in Listing : EntryOK(cached'[s])
  <2>1. cached \in [Listing -> Entries] /\ \A s \in Listing : EntryOK(cached[s])
    BY DEF QuotesOK, QuoteTypes
  <2> QED BY <1>1, <1>4, <2>1
<1>6. /\ memo' \in [Servers -> [Listing -> Entries]]
      /\ \A x \in Servers : \A s \in Listing : EntryOK(memo'[x][s])
  <2>1. /\ memo \in [Servers -> [Listing -> Entries]]
        /\ \A x \in Servers : \A s \in Listing : EntryOK(memo[x][s])
    BY DEF QuotesOK, QuoteTypes
  <2>2. PICK e : e = [s \in Listing |-> Quotes!Entry(r, s)]
    BY Zenon
  <2>3. \A s \in q.fresh : e[s] \in Entries /\ EntryOK(e[s])
    BY <1>3, <1>4, <2>2
  <2>4. memo' = memo \/ memo' = [memo EXCEPT ![m] = [s \in Listing |-> IF s \in q.fresh THEN e[s] ELSE @[s]]]
    BY <1>1, <1>3, <2>2
  <2> QED BY <1>2, <1>3, <2>1, <2>3, <2>4
<1>7. DOMAIN request' = Pages \cup Lists
      /\ \A x \in Pages \cup Lists : IsRequest(request'[x]) /\ RequestOK(request'[x])
  BY <1>1, <1>2, AnswerOK, RequestMoves, Zenon
<1> QED BY <1>1, <1>5, <1>6, <1>7, StepKeeps DEF QuotesOK, QuoteTypes

\* Every step keeps what is held of prices.
LEMMA QuotesMove ==
  ASSUME QuotesOK, [Quotes!QuoteNext]_quoteVars
  PROVE  QuotesOK'
<1>1. CASE UNCHANGED quoteVars
  <2>1. /\ UNCHANGED <<tick, session, opened, feed, instruments, cached, memo, status, sync, request>>
    BY <1>1 DEF quoteVars
  <2> QED BY <2>1, StepKeeps DEF QuotesOK, QuoteTypes
<1>2. CASE Quotes!QuoteNext
  BY <1>2, TickKeeps, OpenKeeps, DelistKeeps, SyncKeeps, AskKeeps, ReadKeeps, LoadKeeps, FailsKeep,
     SaveKeeps, RegisterKeeps DEF Quotes!QuoteNext, Quotes!Requests
<1> QED BY <1>1, <1>2

\* Which makes every price shown fresh enough.
LEMMA QuotesAreFresh == QuotesOK => FreshEnough
BY DEF FreshEnough, Quotes!FreshEnough, Quotes!Requests, QuotesOK, RequestOK, Serves

--------------------------------------------------------------------------------
(* The caches together.                                                        *)

CachesOK == StatsOK /\ QuotesOK

\* A step of one screen leaves the others at rest.
LEMMA CachesMove ==
  ASSUME CachesOK, [FiguresNext]_figureVars
  PROVE  CachesOK'
<1>1. [Stats!StatsNext]_statVars /\ [Quotes!QuoteNext]_quoteVars
  BY SMTT(30) DEF FiguresNext, figureVars
<1> QED BY <1>1, StatsMove, QuotesMove DEF CachesOK

\* A row the venue named is only ever renamed by the venue.
LEMMA NameStays ==
  ASSUME QuotesOK, [FiguresNext]_figureVars, NEW s \in Listing, instruments[s].name = "reference"
  PROVE  instruments'[s].name = "reference"
<1>1. [Quotes!QuoteNext]_quoteVars
  BY DEF FiguresNext, figureVars
<1>2. CASE UNCHANGED instruments
  BY <1>2
<1>3. CASE Quotes!UpsertAssets
  BY <1>3 DEF Quotes!UpsertAssets
<1>4. CASE Quotes!SweepAssets
  BY <1>4 DEF Quotes!SweepAssets, QuotesOK, QuoteTypes, Instruments
<1>5. CASE \E r \in Pages \cup Lists : Quotes!Register(r)
  BY <1>5 DEF Quotes!Register, Quotes!Registered
<1> QED
  BY <1>1, <1>2, <1>3, <1>4, <1>5, Zenon
     DEF quoteVars, Quotes!QuoteNext, Quotes!Requests, Quotes!PassTick, Quotes!OpenMarket, Quotes!FetchAssets,
         Quotes!Delist, Quotes!AskList, Quotes!AskPage, Quotes!ReadRows, Quotes!Load, Quotes!LoadFails,
         Quotes!SaveRows, Quotes!SaveFails, Quotes!world

\* What the caches hold is an invariant of the specification.
LEMMA CachesHold == FiguresSpec => []CachesOK
<1>1. FiguresInit => CachesOK
  BY StatsStarts, QuotesStart DEF FiguresInit, CachesOK
<1>2. CachesOK /\ [FiguresNext]_figureVars => CachesOK'
  BY CachesMove
<1> QED BY <1>1, <1>2, PTL DEF FiguresSpec

\* An EPS shown is no staler than its cache allows and a price no older than
\* its time to live, whichever server, layer or slower request it came through.
THEOREM FiguresHaveCurrentCaches == FiguresSpec => []CachesAreCurrent
<1>1. CachesOK => CachesAreCurrent
  BY StatsIsCurrent, QuotesAreFresh DEF CachesOK, CachesAreCurrent
<1> QED BY <1>1, CachesHold, PTL

\* Once the venue named an instrument, no registration and no script unnames it.
THEOREM FiguresKeepNames == FiguresSpec => NamesAreKept
<1>1. CachesOK /\ [FiguresNext]_figureVars =>
        [\A s \in Listing : instruments[s].name = "reference" => instruments'[s].name = "reference"]_instruments
  BY NameStays DEF CachesOK
<1> QED BY <1>1, CachesHold, PTL DEF FiguresSpec, NamesAreKept, Quotes!NamesAreKept

--------------------------------------------------------------------------------
(* The ranking: how the list is ordered, and what a run holds of it.            *)

\* A relation that orders a set, what it puts before an element, and the
\* element it puts in a place.
Linear(S, R) ==
  /\ \A x \in S : <<x, x>> \notin R
  /\ \A x, y \in S : x # y => <<x, y>> \in R \/ <<y, x>> \in R
  /\ \A x, y, z \in S : <<x, y>> \in R /\ <<y, z>> \in R => <<x, z>> \in R
Preceding(S, R, x) == {y \in S : <<y, x>> \in R}
AtPlace(S, R, i) == CHOOSE x \in S : Cardinality(Preceding(S, R, x)) = i - 1

\* What comes before is counted.
LEMMA CountsRise ==
  ASSUME NEW S, IsFiniteSet(S), NEW R, Linear(S, R)
  PROVE  /\ \A x \in S : Cardinality(Preceding(S, R, x)) \in 0 .. Cardinality(S) - 1
         /\ \A x, y \in S : <<x, y>> \in R <=> Cardinality(Preceding(S, R, x)) < Cardinality(Preceding(S, R, y))
<1>1. \A x \in S : IsFiniteSet(Preceding(S, R, x)) /\ Cardinality(Preceding(S, R, x)) \in Nat
  BY FS_Subset, FS_CardinalityType, Zenon DEF Preceding
<1>2. ASSUME NEW x \in S PROVE Cardinality(Preceding(S, R, x)) \in 0 .. Cardinality(S) - 1
  <2>1. Preceding(S, R, x) \in SUBSET S /\ Preceding(S, R, x) # S
    BY Zenon DEF Preceding, Linear
  <2>2. Cardinality(Preceding(S, R, x)) <= Cardinality(S) /\ Cardinality(Preceding(S, R, x)) # Cardinality(S)
    BY <2>1, FS_Subset
  <2>3. Cardinality(S) \in Nat
    BY FS_CardinalityType
  <2> QED BY <1>1, <2>2, <2>3
<1>3. ASSUME NEW x \in S, NEW y \in S, <<x, y>> \in R
      PROVE  Cardinality(Preceding(S, R, x)) < Cardinality(Preceding(S, R, y))
  <2>1. Preceding(S, R, x) \in SUBSET Preceding(S, R, y) /\ x \in Preceding(S, R, y) /\ x \notin Preceding(S, R, x)
    BY <1>3 DEF Preceding, Linear
  <2>2. /\ Cardinality(Preceding(S, R, x)) <= Cardinality(Preceding(S, R, y))
        /\ Cardinality(Preceding(S, R, x)) # Cardinality(Preceding(S, R, y))
    BY <1>1, <2>1, FS_Subset
  <2> QED BY <1>1, <2>2
<1>4. ASSUME NEW x \in S, NEW y \in S, Cardinality(Preceding(S, R, x)) < Cardinality(Preceding(S, R, y))
      PROVE  <<x, y>> \in R
  <2>1. x # y
    BY <1>1, <1>4
  <2>2. ~ <<y, x>> \in R
    BY <1>1, <1>3, <1>4
  <2> QED BY <2>1, <2>2 DEF Linear
<1> QED BY <1>2, <1>3, <1>4

\* Every place is taken, by one.
LEMMA PlacesTaken ==
  ASSUME NEW S, IsFiniteSet(S), NEW R, Linear(S, R), NEW i \in 1 .. Cardinality(S)
  PROVE  AtPlace(S, R, i) \in S /\ Cardinality(Preceding(S, R, AtPlace(S, R, i))) = i - 1
<1> DEFINE n == Cardinality(S)
           count == [x \in S |-> Cardinality(Preceding(S, R, x))]
<1>1. n \in Nat /\ i \in Nat
  BY FS_CardinalityType
<1>2. IsFiniteSet(0 .. n - 1) /\ Cardinality(0 .. n - 1) = n
  <2>1. n - 1 \in Int /\ 0 \in Int
    BY <1>1
  <2>2. IsFiniteSet(0 .. n - 1) /\ Cardinality(0 .. n - 1) = IF 0 > n - 1 THEN 0 ELSE (n - 1) - 0 + 1
    BY <2>1, FS_Interval, Zenon
  <2> HIDE DEF n
  <2> QED BY <1>1, <2>2
<1>3. count \in Injection(S, 0 .. n - 1)
  <2>1. count \in [S -> 0 .. n - 1]
    BY CountsRise
  <2>2. ASSUME NEW x \in S, NEW y \in S, count[x] = count[y] PROVE x = y
    <3>1. /\ ~ <<x, y>> \in R /\ ~ <<y, x>> \in R
      <4>1. count[x] \in Int /\ count[y] \in Int
        BY <2>1
      <4>2. ~(count[x] < count[y]) /\ ~(count[y] < count[x])
        BY <2>2, <4>1
      <4> QED BY <4>2, CountsRise
    <3> QED BY <3>1 DEF Linear
  <2> QED BY <2>1, <2>2 DEF Injection, IsInjective
<1>4. count \in Surjection(S, 0 .. n - 1)
  BY <1>2, <1>3, FS_Injection
<1>5. i - 1 \in 0 .. n - 1
  BY <1>1
<1>6. \E x \in S : count[x] = i - 1
  BY <1>4, <1>5, Zenon DEF Surjection
<1>7. \E x \in S : Cardinality(Preceding(S, R, x)) = i - 1
  BY <1>6
<1> QED BY <1>7 DEF AtPlace

\* Whoever has so many before it is the one in that place.
LEMMA PlaceIsUnique ==
  ASSUME NEW S, IsFiniteSet(S), NEW R, Linear(S, R), NEW x \in S
  PROVE  /\ Cardinality(Preceding(S, R, x)) + 1 \in 1 .. Cardinality(S)
         /\ AtPlace(S, R, Cardinality(Preceding(S, R, x)) + 1) = x
<1>1. PICK k \in 0 .. Cardinality(S) - 1 : k = Cardinality(Preceding(S, R, x))
  BY CountsRise
<1>2. PICK i : i = k + 1
  OBVIOUS
<1>3. Cardinality(S) \in Nat
  BY FS_CardinalityType
<1>4. i \in 1 .. Cardinality(S) /\ i - 1 = k
  BY <1>2, <1>3
<1>5. AtPlace(S, R, i) \in S /\ Cardinality(Preceding(S, R, AtPlace(S, R, i))) = k
  BY <1>4, PlacesTaken
<1>6. ~ <<AtPlace(S, R, i), x>> \in R /\ ~ <<x, AtPlace(S, R, i)>> \in R
  BY <1>1, <1>5, CountsRise
<1> QED BY <1>1, <1>2, <1>4, <1>5, <1>6 DEF Linear

\* The companies a run may list, and their order.
GoodQuotes(quotes) == \A t \in DOMAIN quotes : quotes[t] \in Nat
Order(filings, quotes) == {p \in Filers \X Filers : Markets!Above(p[1], p[2], filings, quotes)}

\* The ranking counts as the library does.
LEMMA CountIs ==
  ASSUME NEW S
  PROVE  Markets!Cardinality(S) = Cardinality(S)
BY DEF Markets!Cardinality, Cardinality

\* The companies are finitely many, with values and symbols that are numbers.
LEMMA CompaniesTyped ==
  ASSUME NEW filings \in Filings, NEW quotes, GoodQuotes(quotes),
         NEW f \in Markets!Companies(filings, quotes)
  PROVE  /\ f \in Filers /\ f.cik \in Int
         /\ Markets!Value(f, filings, quotes) \in Int /\ Markets!SymbolOf(f, quotes) \in Int
<1> DEFINE sym == Markets!SymbolOf(f, quotes)
           n == Markets!SharesOf(f, filings)
<1>1. f \in Markets!Valued(filings, quotes)
  BY DEF Markets!Companies
<1>2. f \in Filers /\ ~Markets!Excluded(f) /\ sym \in Eligible /\ sym \in DOMAIN quotes
  BY <1>1 DEF Markets!Valued, Markets!Listed
<1>3. n \in Int
  <2>1. CASE Markets!Overridden(f)
    <3>1. f.cik \in DOMAIN Overrides /\ ~Overrides[f.cik].exclude
      BY <1>2, <2>1 DEF Markets!Excluded, Markets!Overridden
    <3>2. Overrides[f.cik].shares \in Nat
      BY <3>1, MarketAssumption
    <3> QED BY <2>1, <3>2 DEF Markets!SharesOf
  <2>2. CASE ~Markets!Overridden(f)
    <3>1. n = Markets!ChooseCount(f, filings[f])
      BY <2>2 DEF Markets!SharesOf
    <3>2. filings[f].cover \in Nat /\ filings[f].weighted \in Nat
      BY <1>2, MarketAssumption
    <3> QED BY <3>1, <3>2 DEF Markets!ChooseCount
  <2> QED BY <2>1, <2>2
<1>4. quotes[sym] \in Int
  BY <1>2 DEF GoodQuotes
<1>5. Markets!Value(f, filings, quotes) = Markets!Notional(quotes[sym], n)
  BY DEF Markets!Value
<1> HIDE DEF sym, n
<1>6. PICK x \in Int : x = quotes[sym] * n
  BY <1>3, <1>4
<1>7. Markets!Notional(quotes[sym], n) = HalfEven(x, 100)
  BY <1>6 DEF Markets!Notional, Markets!HalfEven, HalfEven, Markets!UnitsPerCent
<1>8. HalfEven(x, 100) \in Int
  BY RoundsToNearest
<1> QED BY <1>2, <1>5, <1>7, <1>8, MarketAssumption, Zenon DEF sym

\* By value, symbol and the file they are in order.
LEMMA CompaniesOrdered ==
  ASSUME NEW filings \in Filings, NEW quotes, GoodQuotes(quotes)
  PROVE  /\ IsFiniteSet(Markets!Companies(filings, quotes))
         /\ Linear(Markets!Companies(filings, quotes), Order(filings, quotes))
         /\ \A f, g \in Markets!Companies(filings, quotes) :
              <<f, g>> \in Order(filings, quotes) <=> Markets!Above(f, g, filings, quotes)
<1> DEFINE C == Markets!Companies(filings, quotes)
           R == Order(filings, quotes)
<1>1. \A f \in C : /\ f \in Filers /\ f.cik \in Int
                   /\ Markets!Value(f, filings, quotes) \in Int /\ Markets!SymbolOf(f, quotes) \in Int
  BY CompaniesTyped
<1>2. C \in SUBSET Filers
  BY <1>1
<1>3. IsFiniteSet(C)
  BY <1>2, FS_Subset, MarketAssumption
<1>4. \A f, g \in C : <<f, g>> \in R <=> Markets!Above(f, g, filings, quotes)
  BY <1>1 DEF Order
<1>5. \A f, g \in C : f.cik = g.cik => f = g
  BY <1>1, MarketAssumption
<1> HIDE DEF C, R
<1>6. ASSUME NEW f \in C PROVE <<f, f>> \notin R
  BY <1>1, <1>4 DEF Markets!Above
<1>7. ASSUME NEW f \in C, NEW g \in C, f # g PROVE <<f, g>> \in R \/ <<g, f>> \in R
  <2>1. f.cik # g.cik
    BY <1>5, <1>7
  <2> QED BY <1>1, <1>4, <2>1 DEF Markets!Above
<1>8. ASSUME NEW f \in C, NEW g \in C, NEW h \in C, <<f, g>> \in R, <<g, h>> \in R PROVE <<f, h>> \in R
  <2>1. Markets!Above(f, g, filings, quotes) /\ Markets!Above(g, h, filings, quotes)
    BY <1>4, <1>8
  <2>2. Markets!Above(f, h, filings, quotes)
    BY <1>1, <2>1 DEF Markets!Above
  <2> QED BY <1>4, <2>2
<1> QED BY <1>3, <1>4, <1>6, <1>7, <1>8 DEF Linear, C, R

\* A list that is long enough has the first companies in their order.
LEMMA RankedInOrder ==
  ASSUME NEW filings \in Filings, NEW quotes, GoodQuotes(quotes),
         NEW entries, entries = Markets!RankByMarketCap(filings, quotes), Len(entries) >= Size
  PROVE  LET C == Markets!Companies(filings, quotes)
             At(i) == AtPlace(C, Order(filings, quotes), i)
         IN  /\ Size <= Cardinality(C) 
             /\ Len(entries) = Size /\ DOMAIN entries = 1 .. Size
             /\ \A i \in 1 .. Size :
                  /\ At(i) \in C
                  /\ entries[i].cik = At(i).cik
                  /\ entries[i].value = Markets!Value(At(i), filings, quotes)
<1> DEFINE C == Markets!Companies(filings, quotes)
           R == Order(filings, quotes)
           At(i) == AtPlace(C, R, i)
           n == Markets!Cardinality(C)
           k == Markets!Min({Size, n})
<1>1. IsFiniteSet(C) /\ Linear(C, R) /\ Cardinality(C) \in Nat /\ Size \in Nat
  BY CompaniesOrdered, FS_CardinalityType, MarketAssumption
<1>2. k = IF Size <= Cardinality(C) THEN Size ELSE Cardinality(C)
  <2>3. n = Cardinality(C)
    BY CountIs
  <2> HIDE DEF C, n
  <2>1. k = CHOOSE x \in {Size, n} : \A y \in {Size, n} : x =< y
    BY DEF Markets!Min
  <2>2. PICK y : y = n
    OBVIOUS
  <2> QED BY <1>1, <2>1, <2>2, <2>3
<1>3. \A f \in C : {g \in C : Markets!Above(g, f, filings, quotes)} = Preceding(C, R, f)
  BY CompaniesOrdered DEF Preceding
<1> DEFINE Ith(i) == CHOOSE f \in C : Markets!Cardinality({g \in C : Markets!Above(g, f, filings, quotes)}) = i - 1
<1>4. \A i : Ith(i) = At(i)
  BY <1>3, CountIs, Zenon DEF AtPlace
<1>5. entries = [i \in 1 .. k |->
        [cik |-> Ith(i).cik, symbol |-> Markets!SymbolOf(Ith(i), quotes),
         value |-> Markets!Value(Ith(i), filings, quotes)]]
  BY Zenon DEF Markets!RankByMarketCap
<1> HIDE DEF Ith, At
<1> HIDE DEF C, R, k, n
<1>6. k \in Nat /\ DOMAIN entries = 1 .. k /\ Len(entries) = k
  BY <1>1, <1>2, <1>5
<1>7. k = Size /\ Size <= Cardinality(C)
  BY <1>1, <1>2, <1>6
<1>8. \A i \in 1 .. Size : At(i) \in C
  BY <1>1, <1>7, PlacesTaken DEF At
<1> QED BY <1>4, <1>5, <1>6, <1>7, <1>8 DEF C, R, At

\* What fits a list is what was ranked.
LEMMA FitsIfRanked ==
  ASSUME NEW s, NEW f \in Filers
  PROVE  Markets!Fits(f, s) <=> f \in Markets!Companies(s.filings, s.quotes)
BY DEF Markets!Fits, Markets!Companies, Markets!Implausible, Markets!WithinFloatBand

\* A snapshot whose list is that of its own filings and quotes, and full.
Ranked(s) ==
  /\ s.filings \in Filings /\ GoodQuotes(s.quotes)
  /\ s.entries = Markets!RankByMarketCap(s.filings, s.quotes) /\ Len(s.entries) >= Size

\* So a list that is long enough has the largest companies, each once.
LEMMA RankedIsLargest ==
  ASSUME NEW s, Ranked(s)
  PROVE  LET listed == { s.entries[i].cik : i \in DOMAIN s.entries }
         IN  /\ Len(s.entries) = Size /\ Cardinality(listed) = Size
             /\ \A f \in Filers :
                  /\ f.cik \in listed => Markets!Fits(f, s)
                  /\ Markets!Fits(f, s) /\ f.cik \notin listed =>
                       Markets!Value(f, s.filings, s.quotes) <= s.entries[Size].value
             /\ \A i \in 1..(Size - 1) : s.entries[i].value >= s.entries[i+1].value
<1> DEFINE C == Markets!Companies(s.filings, s.quotes)
           R == Order(s.filings, s.quotes)
           At(i) == AtPlace(C, R, i)
           V(f) == Markets!Value(f, s.filings, s.quotes)
           listed == { s.entries[i].cik : i \in DOMAIN s.entries }
<1>1. /\ Size <= Cardinality(C) /\ Len(s.entries) = Size /\ DOMAIN s.entries = 1 .. Size
      /\ \A i \in 1 .. Size : At(i) \in C /\ s.entries[i].cik = At(i).cik /\ s.entries[i].value = V(At(i))
  BY RankedInOrder DEF Ranked
<1>2. IsFiniteSet(C) /\ Linear(C, R) /\ Cardinality(C) \in Nat /\ Size \in Nat \ {0}
  BY CompaniesOrdered, FS_CardinalityType, MarketAssumption DEF Ranked
<1>3. \A f \in C : f \in Filers /\ V(f) \in Int
  BY CompaniesTyped DEF Ranked
<1>4. \A f, g \in C : V(f) > V(g) => <<f, g>> \in R
  BY <1>3, CompaniesOrdered DEF Ranked, Markets!Above
<1>5. \A f, g \in Filers : f.cik = g.cik => f = g
  BY MarketAssumption
<1>6. \A f \in Filers : Markets!Fits(f, s) <=> f \in C
  BY FitsIfRanked
<1> HIDE DEF C, R, V
<1>7. \A i \in 1 .. Size : Cardinality(Preceding(C, R, At(i))) = i - 1
  BY <1>1, <1>2, PlacesTaken
<1>8. \A f, g \in C : <<f, g>> \in R <=> Cardinality(Preceding(C, R, f)) < Cardinality(Preceding(C, R, g))
  BY <1>2, CountsRise, Zenon
<1>9. \A f \in C : Cardinality(Preceding(C, R, f)) \in Nat
  BY <1>2, CountsRise
<1>10. listed = {At(i).cik : i \in 1 .. Size}
  BY <1>1
<1> HIDE DEF At
<1>11. Cardinality(listed) = Size
  <2> DEFINE h == [i \in 1 .. Size |-> At(i).cik]
  <2>1. h \in Surjection(1 .. Size, listed)
    BY <1>10, Zenon DEF Surjection
  <2>2. ASSUME NEW i \in 1 .. Size, NEW j \in 1 .. Size, h[i] = h[j] PROVE i = j
    <3>1. At(i) = At(j)
      BY <1>1, <1>3, <1>5, <2>2
    <3> QED BY <1>2, <1>7, <3>1
  <2>3. h \in Injection(1 .. Size, listed)
    BY <2>1, <2>2 DEF Injection, Surjection, IsInjective
  <2>4. IsFiniteSet(1 .. Size) /\ Cardinality(1 .. Size) = Size
    BY <1>2, FS_Interval
  <2> QED BY <2>1, <2>3, <2>4, FS_Surjection
<1>12. ASSUME NEW f \in Filers, f.cik \in listed PROVE Markets!Fits(f, s)
  <2>1. PICK i \in 1 .. Size : f.cik = At(i).cik
    BY <1>10, <1>12, Zenon
  <2> QED BY <1>1, <1>3, <1>5, <1>6, <2>1
<1>13. ASSUME NEW f \in Filers, Markets!Fits(f, s), f.cik \notin listed
       PROVE  V(f) <= s.entries[Size].value
  <2>1. f \in C
    BY <1>6, <1>13
  <2>2. PICK k \in Nat : k = Cardinality(Preceding(C, R, f))
    BY <1>9, <2>1
  <2>3. k >= Size
    <3> SUFFICES ASSUME k < Size PROVE FALSE
      BY <1>2
    <3>1. k + 1 \in 1 .. Size
      BY <1>2
    <3>2. At(k + 1) = f
      BY <1>2, <2>1, <2>2, PlaceIsUnique DEF At
    <3> QED BY <1>10, <1>13, <3>1, <3>2
  <2>4. PICK g \in C : g = At(Size) /\ Cardinality(Preceding(C, R, g)) = Size - 1 /\ s.entries[Size].value = V(g)
    BY <1>1, <1>2, <1>7
  <2>5. ~ <<f, g>> \in R
    BY <1>2, <1>8, <2>1, <2>2, <2>3, <2>4
  <2> QED BY <1>3, <1>4, <2>1, <2>4, <2>5
<1>14. ASSUME NEW i \in 1 .. (Size - 1) PROVE s.entries[i].value >= s.entries[i + 1].value
  <2>1. i \in 1 .. Size /\ i + 1 \in 1 .. Size
    BY <1>2
  <2>2. PICK g \in C : g = At(i) /\ Cardinality(Preceding(C, R, g)) = i - 1 /\ s.entries[i].value = V(g)
    BY <1>1, <1>7, <2>1
  <2>3. PICK h \in C : h = At(i + 1) /\ Cardinality(Preceding(C, R, h)) = i /\ s.entries[i + 1].value = V(h)
    <3>1. (i + 1) - 1 = i
      OBVIOUS
    <3> QED BY <1>1, <1>7, <2>1, <3>1
  <2>4. ~ <<h, g>> \in R
    BY <1>8, <2>1, <2>2, <2>3
  <2> QED BY <1>3, <1>4, <2>2, <2>3, <2>4
<1> QED BY <1>1, <1>11, <1>12, <1>13, <1>14 DEF V

\* What a run holds, and what was published.
Quoted == UNION {{Markets!Restrict(quotes, D) : D \in SUBSET DOMAIN quotes} : quotes \in QuoteSets}
Rankings ==
  {[entries |-> Markets!RankByMarketCap(filings, quotes), filings |-> filings, quotes |-> quotes] :
     filings \in Filings, quotes \in Quoted}
Published == {s \in Rankings : Len(s.entries) >= Size}
RunOK(x) ==
  /\ x.pc \in {"idle", "quotes", "shares", "save"}
  /\ x.pc = "quotes" => x.filings \in Filings
  /\ x.pc \in {"shares", "save"} =>
       /\ DOMAIN x = {"pc", "filings", "quotes", "ranked", "rows"}
       /\ x.filings \in Filings /\ x.quotes \in Quoted
       /\ x.ranked = Markets!RankByMarketCap(x.filings, x.quotes)
  /\ x.pc = "save" => Len(x.ranked) >= Size
RankingOK ==
  /\ DOMAIN run = Runners /\ \A r \in Runners : RunOK(run[r])
  /\ snapshots \in Seq(Published)

\* One run at a time: the head a run was checked against is still the newest.
HeadsOK ==
  /\ \A r \in Runners : run[r].pc = "save" => Markets!KeepsHead(Markets!Latest, run[r].ranked)
  /\ HeadIsKept

\* What a run was quoted are prices.
LEMMA QuotedIsGood == \A quotes \in Quoted : GoodQuotes(quotes)
BY MarketAssumption DEF Quoted, GoodQuotes, Markets!Restrict

\* What was published was ranked from good data.
LEMMA PublishedIsRanked == \A s \in Published : Ranked(s)
<1> SUFFICES ASSUME NEW s \in Published PROVE Ranked(s)
  OBVIOUS
<1>1. PICK filings \in Filings, quotes \in Quoted :
        s = [entries |-> Markets!RankByMarketCap(filings, quotes), filings |-> filings, quotes |-> quotes]
  BY DEF Published, Rankings
<1>2. Len(s.entries) >= Size
  BY DEF Published
<1> QED BY <1>1, <1>2, QuotedIsGood DEF Ranked

\* What runs hold, as the model starts.
LEMMA RankingStarts ==
  ASSUME Markets!RankingInit
  PROVE  RankingOK /\ HeadsOK
<1>1. \A r \in Runners : RunOK(run[r]) /\ run[r].pc = "idle"
  BY DEF Markets!RankingInit, Markets!NoRun, RunOK
<1>2. snapshots = <<>> /\ DOMAIN run = Runners
  BY DEF Markets!RankingInit
<1> QED BY <1>1, <1>2 DEF RankingOK, HeadsOK, HeadIsKept, Markets!HeadIsKept

\* A run's step, of those that publish nothing.
RunStep(r) ==
  /\ snapshots' = snapshots
  /\ \E x : run' = [run EXCEPT ![r] = x] /\ RunOK(x)
            /\ (x.pc = "save" => Markets!KeepsHead(Markets!Latest, x.ranked))

\* A run that takes a step without publishing still holds what it ranked.
LEMMA RunsStep ==
  ASSUME RankingOK, NEW r \in Runners,
         Markets!Gather(r) \/ Markets!Rank(r) \/ Markets!SaveShares(r) \/ Markets!Validate(r) \/ Markets!Fail(r)
  PROVE  RunStep(r)
<1>0. RunOK(Markets!NoRun) /\ Markets!NoRun.pc # "save"
  BY DEF RunOK, Markets!NoRun
<1>1. RunOK(run[r])
  BY DEF RankingOK
<1>2. CASE Markets!Gather(r)
  <2>1. PICK filings \in Filings :
          run' = [run EXCEPT ![r] = [pc |-> "quotes", filings |-> filings]] /\ snapshots' = snapshots
    BY <1>2, Zenon DEF Markets!Gather, Markets!Step
  <2>2. PICK x : x = [pc |-> "quotes", filings |-> filings]
    BY Zenon
  <2>3. RunOK(x) /\ x.pc # "save"
    BY <2>2 DEF RunOK
  <2> QED BY <2>1, <2>2, <2>3, Zenon DEF RunStep
<1>3. CASE Markets!Rank(r)
  <2>1. PICK feedQuotes \in QuoteSets : \E rows :
          /\ run' = [run EXCEPT ![r] =
                       [pc |-> "shares", filings |-> run[r].filings,
                        quotes |-> Markets!Restrict(feedQuotes, DOMAIN feedQuotes \cap Markets!Priceable(run[r].filings)),
                        ranked |-> Markets!RankByMarketCap(run[r].filings,
                          Markets!Restrict(feedQuotes, DOMAIN feedQuotes \cap Markets!Priceable(run[r].filings))),
                        rows |-> rows]]
          /\ snapshots' = snapshots
    BY <1>3, Zenon DEF Markets!Rank, Markets!Step
  <2>2. PICK quotes : quotes = Markets!Restrict(feedQuotes, DOMAIN feedQuotes \cap Markets!Priceable(run[r].filings))
    OBVIOUS
  <2>3. quotes \in Quoted
    BY <2>2 DEF Quoted
  <2>4. run[r].filings \in Filings
    BY <1>1, <1>3 DEF Markets!Rank, RunOK
  <2>5. PICK rows : run' = [run EXCEPT ![r] =
          [pc |-> "shares", filings |-> run[r].filings, quotes |-> quotes,
           ranked |-> Markets!RankByMarketCap(run[r].filings, quotes), rows |-> rows]]
    BY <2>1, <2>2, Zenon
  <2>6. PICK x : x = [pc |-> "shares", filings |-> run[r].filings, quotes |-> quotes,
           ranked |-> Markets!RankByMarketCap(run[r].filings, quotes), rows |-> rows]
    BY Zenon
  <2>7. RunOK(x) /\ x.pc = "shares"
    BY <2>3, <2>4, <2>6 DEF RunOK
  <2> QED BY <2>1, <2>5, <2>6, <2>7, Zenon DEF RunStep
<1>4. CASE Markets!SaveShares(r)
  <2>1. /\ run[r].pc = "shares" /\ snapshots' = snapshots
        /\ \E rows : run' = [run EXCEPT ![r] = [run[r] EXCEPT !.rows = rows]]
    BY <1>4, Zenon DEF Markets!SaveShares, Markets!Step
  <2>2. PICK rows : run' = [run EXCEPT ![r] = [run[r] EXCEPT !.rows = rows]]
    BY <2>1, Zenon
  <2>3. PICK x : x = [run[r] EXCEPT !.rows = rows]
    BY Zenon
  <2>4. /\ x.pc = "shares" /\ DOMAIN x = DOMAIN run[r]
        /\ x.filings = run[r].filings /\ x.quotes = run[r].quotes /\ x.ranked = run[r].ranked
    BY <1>1, <2>1, <2>3 DEF RunOK
  <2>5. RunOK(x)
    BY <1>1, <2>1, <2>4 DEF RunOK
  <2> QED BY <2>1, <2>2, <2>3, <2>4, <2>5, Zenon DEF RunStep
<1>5. CASE Markets!Validate(r)
  <2>1. /\ run[r].pc = "shares" /\ snapshots' = snapshots
        /\ \/ run' = [run EXCEPT ![r] = Markets!NoRun]
           \/ /\ run' = [run EXCEPT ![r] = [run[r] EXCEPT !.pc = "save"]]
              /\ Markets!ValidSnapshot(Markets!Latest, run[r].ranked, run[r].filings, run[r].quotes)
    BY <1>5, Zenon DEF Markets!Validate, Markets!Step
  <2>2. CASE run' = [run EXCEPT ![r] = Markets!NoRun]
    BY <1>0, <2>1, <2>2, Zenon DEF RunStep
  <2>3. CASE /\ run' = [run EXCEPT ![r] = [run[r] EXCEPT !.pc = "save"]]
             /\ Markets!ValidSnapshot(Markets!Latest, run[r].ranked, run[r].filings, run[r].quotes)
    <3>1. PICK x : x = [run[r] EXCEPT !.pc = "save"]
      BY Zenon
    <3>2. /\ x.pc = "save" /\ DOMAIN x = DOMAIN run[r]
          /\ x.filings = run[r].filings /\ x.quotes = run[r].quotes /\ x.ranked = run[r].ranked
      BY <1>1, <2>1, <3>1 DEF RunOK
    <3>3. Len(x.ranked) >= Size /\ Markets!KeepsHead(Markets!Latest, x.ranked)
      BY <2>3, <3>2 DEF Markets!ValidSnapshot
    <3>4. RunOK(x)
      BY <1>1, <2>1, <3>2, <3>3 DEF RunOK
    <3> QED BY <2>1, <2>3, <3>1, <3>3, <3>4, Zenon DEF RunStep
  <2> QED BY <2>1, <2>2, <2>3
<1>6. CASE Markets!Fail(r)
  <2>1. run' = [run EXCEPT ![r] = Markets!NoRun] /\ snapshots' = snapshots
    BY <1>6 DEF Markets!Fail, Markets!Step
  <2> QED BY <1>0, <2>1, Zenon DEF RunStep
<1> QED BY <1>2, <1>3, <1>4, <1>5, <1>6

\* Publishing appends what the run ranked.
LEMMA Publishes ==
  ASSUME RankingOK, NEW r \in Runners, Markets!Save(r)
  PROVE  /\ run[r].pc = "save" /\ run' = [run EXCEPT ![r] = Markets!NoRun]
         /\ \E s \in Published : s.entries = run[r].ranked /\ snapshots' = Append(snapshots, s)
<1>1. RunOK(run[r]) /\ run[r].pc = "save"
  BY DEF RankingOK, Markets!Save
<1>2. PICK s : s = [entries |-> run[r].ranked, filings |-> run[r].filings, quotes |-> run[r].quotes]
  BY Zenon
<1>3. snapshots' = Append(snapshots, s) /\ run' = [run EXCEPT ![r] = Markets!NoRun]
  BY <1>2, Zenon DEF Markets!Save, Markets!Step
<1>4. s.entries = run[r].ranked /\ s \in Rankings
  BY <1>1, <1>2 DEF RunOK, Rankings
<1>5. s \in Published
  BY <1>1, <1>4 DEF RunOK, Published
<1> QED BY <1>1, <1>3, <1>4, <1>5

\* Every step runs, publishes or leaves the runs alone.
LEMMA RankingCases ==
  ASSUME RankingOK, [Markets!RankingNext]_marketVars
  PROVE  \/ UNCHANGED <<run, snapshots>>
         \/ \E r \in Runners : RunStep(r) \/ Markets!Save(r)
BY RunsStep DEF Markets!RankingNext, marketVars, Markets!OpenList, Markets!LoadPage, Markets!CloseList

\* Every step keeps it.
LEMMA RankingMoves ==
  ASSUME RankingOK, [Markets!RankingNext]_marketVars
  PROVE  RankingOK'
<1>1. CASE UNCHANGED <<run, snapshots>>
  BY <1>1 DEF RankingOK, RunOK
<1>2. ASSUME NEW r \in Runners, RunStep(r) PROVE RankingOK'
  <2>1. PICK x : run' = [run EXCEPT ![r] = x] /\ RunOK(x) /\ snapshots' = snapshots
    BY <1>2, Zenon DEF RunStep
  <2> QED BY <2>1 DEF RankingOK, RunOK
<1>3. ASSUME NEW r \in Runners, Markets!Save(r) PROVE RankingOK'
  <2>1. PICK s \in Published : run' = [run EXCEPT ![r] = Markets!NoRun] /\ snapshots' = Append(snapshots, s)
    BY <1>3, Publishes
  <2>2. snapshots' \in Seq(Published)
    BY <2>1 DEF RankingOK
  <2>3. RunOK(Markets!NoRun)
    BY DEF RunOK, Markets!NoRun
  <2> QED BY <2>1, <2>2, <2>3 DEF RankingOK, RunOK
<1> QED BY <1>1, <1>2, <1>3, RankingCases

\* With one run at a time, every step keeps the head a run was checked against.
LEMMA HeadsMove ==
  ASSUME RankingOK, HeadsOK, [Markets!RankingNext]_marketVars, \A q, r \in Runners : q = r
  PROVE  HeadsOK'
<1>1. CASE UNCHANGED <<run, snapshots>>
  BY <1>1 DEF HeadsOK, Markets!Latest, HeadIsKept, Markets!HeadIsKept
<1>2. ASSUME NEW r \in Runners, RunStep(r) PROVE HeadsOK'
  <2>1. PICK x : /\ run' = [run EXCEPT ![r] = x] /\ snapshots' = snapshots
                 /\ x.pc = "save" => Markets!KeepsHead(Markets!Latest, x.ranked)
    BY <1>2, Zenon DEF RunStep
  <2>2. \A q \in Runners : run'[q] = x
    BY <2>1 DEF RankingOK
  <2>3. Markets!Latest' = Markets!Latest /\ HeadIsKept'
    BY <2>1, Zenon DEF Markets!Latest, HeadsOK, HeadIsKept, Markets!HeadIsKept
  <2> QED BY <2>1, <2>2, <2>3 DEF HeadsOK
<1>3. ASSUME NEW r \in Runners, Markets!Save(r) PROVE HeadsOK'
  <2>1. PICK s \in Published : /\ run[r].pc = "save" /\ run' = [run EXCEPT ![r] = Markets!NoRun]
                               /\ s.entries = run[r].ranked /\ snapshots' = Append(snapshots, s)
    BY <1>3, Publishes
  <2>2. \A q \in Runners : run'[q].pc = "idle"
    BY <2>1 DEF RankingOK, Markets!NoRun
  <2>3. snapshots \in Seq(Published)
    BY DEF RankingOK
  <2>4. PICK n \in Nat : n = Len(snapshots)
    BY <2>3
  <2>5. Len(snapshots') = n + 1 /\ snapshots'[n + 1] = s /\ \A i \in 1 .. n : snapshots'[i] = snapshots[i]
    BY <2>1, <2>3, <2>4
  <2>6. ASSUME NEW i \in 1 .. n
        PROVE  Markets!Cardinality(Markets!HeadOf(snapshots'[i].entries)
                                     \cap Markets!HeadOf(snapshots'[i + 1].entries)) >= Keep
    <3>1. CASE i < n
      <4>1. i + 1 \in 1 .. n /\ i \in 1 .. (Len(snapshots) - 1)
        BY <2>4, <3>1
      <4> QED BY <2>5, <4>1, Zenon DEF HeadsOK, HeadIsKept, Markets!HeadIsKept
    <3>2. CASE i = n
      <4>1. snapshots[n] \in Published /\ snapshots # <<>>
        BY <2>3, <2>4, <3>2
      <4>2. Markets!Latest = snapshots[n].entries
        BY <2>4, <4>1 DEF Markets!Latest, Markets!Last
      <4>3. Len(snapshots[n].entries) >= Lead
        <5>1. PICK t \in Published : t = snapshots[n]
          BY <4>1
        <5>2. Len(t.entries) = Size
          BY <5>1, PublishedIsRanked, RankedIsLargest, Zenon
        <5> QED BY <5>1, <5>2, MarketAssumption
      <4>4. Markets!KeepsHead(snapshots[n].entries, s.entries)
        BY <2>1, <4>2 DEF HeadsOK
      <4> QED BY <2>5, <3>2, <4>3, <4>4, Zenon DEF Markets!KeepsHead
    <3> QED BY <3>1, <3>2
  <2>7. HeadIsKept'
    <3>1. \A i \in 1 .. (Len(snapshots') - 1) : i \in 1 .. n
      BY <2>5
    <3> QED BY <2>6, <3>1, Zenon DEF HeadIsKept, Markets!HeadIsKept, Markets!HeadOf
  <2> QED BY <2>2, <2>7 DEF HeadsOK
<1> QED BY <1>1, <1>2, <1>3, RankingCases

\* Which makes the newest list the largest companies.
LEMMA PublishedIsLargest == RankingOK => ListIsTheLargest
<1> SUFFICES ASSUME RankingOK, snapshots # <<>> PROVE ListIsTheLargest
  BY DEF ListIsTheLargest, Markets!ListIsTheLargest
<1>1. PICK s \in Published : s = snapshots[Len(snapshots)]
  BY DEF RankingOK
<1>2. Ranked(s)
  BY <1>1, PublishedIsRanked
<1>3. Markets!Last(snapshots) = s /\ Markets!Last(s.entries) = s.entries[Len(s.entries)]
  BY <1>1 DEF Markets!Last
<1> DEFINE listed == {s.entries[i].cik : i \in DOMAIN s.entries}
<1>4. /\ Len(s.entries) = Size /\ Markets!Cardinality(listed) = Size
      /\ \A f \in Filers :
           /\ f.cik \in listed => Markets!Fits(f, s)
           /\ Markets!Fits(f, s) /\ f.cik \notin listed =>
                Markets!Value(f, s.filings, s.quotes) <= Markets!Last(s.entries).value
      /\ \A i \in 1..(Size - 1) : s.entries[i].value >= s.entries[i+1].value
  BY <1>2, <1>3, RankedIsLargest, CountIs, ZenonT(30)
<1> QED BY <1>3, <1>4 DEF ListIsTheLargest, Markets!ListIsTheLargest

\* What runs hold is an invariant of the specification.
LEMMA RankingHolds == FiguresSpec => []RankingOK
<1>1. FiguresInit => RankingOK
  BY RankingStarts DEF FiguresInit
<1>2. RankingOK /\ [FiguresNext]_figureVars => RankingOK'
  BY RankingMoves DEF FiguresNext, figureVars
<1> QED BY <1>1, <1>2, PTL DEF FiguresSpec

\* Whatever runs overlap or fail, the list shown is, of its own run's data, the
\* largest companies there were, in order, complete and none twice.
THEOREM ListsAreLargest == FiguresSpec => []ListIsTheLargest
BY RankingHolds, PublishedIsLargest, PTL

\* While runs do not overlap, each list also keeps the head of the one before.
THEOREM PublishedListsStand ==
  ASSUME \A q, r \in Runners : q = r
  PROVE  FiguresSpec => []PublishedListsHold
<1>1. FiguresInit => HeadsOK
  BY RankingStarts DEF FiguresInit
<1>2. RankingOK /\ HeadsOK /\ [FiguresNext]_figureVars => HeadsOK'
  BY HeadsMove DEF FiguresNext, figureVars
<1>3. RankingOK /\ HeadsOK => PublishedListsHold
  BY PublishedIsLargest DEF HeadsOK, PublishedListsHold, Markets!PublishedListsHold, HeadIsKept, ListIsTheLargest
<1> QED BY <1>1, <1>2, <1>3, RankingHolds, PTL DEF FiguresSpec

--------------------------------------------------------------------------------
(* The replay of the fills: in which order it goes, and how it grows.          *)

\* The replay, fold turn by fold turn.
Empty == [book |-> [sym \in Symbols |-> Flat], realized |-> 0, over |-> FALSE]
ReplayTurn(fills, h, s) == IF s = {} THEN Empty ELSE ReplayStep(h[s \ {Max(s)}], fills[Max(s)])
ReplayPartial(fills) == CHOOSE h : h = [s \in SUBSET DOMAIN fills |-> ReplayTurn(fills, h, s)]

\* The replay is the value of the fold on all the fills.
LEMMA ReplayIsPartial ==
  ASSUME NEW fills
  PROVE  Replay(fills) = ReplayPartial(fills)[DOMAIN fills]
BY DEF Replay, FoldLeft, MapThenFoldSet, ReplayPartial, ReplayTurn, Empty

ReplaySolves(fills, h, n) == h = [s \in SUBSET (1 .. n) |-> ReplayTurn(fills, h, s)]

\* The last of a set of turns is its greatest.
LEMMA LastIsMax ==
  ASSUME NEW n \in Nat, NEW s \in SUBSET (1 .. n), n \in s
  PROVE  Max(s) = n
<1>1. \A x \in s : x \in Int /\ n >= x
  OBVIOUS
<1>2. \A x \in s : (\A y \in s : x >= y) => x = n
  BY <1>1
<1> QED BY <1>1, <1>2, Zenon DEF Max

\* The fold is defined: its equation has a solution.
LEMMA ReplayExists ==
  ASSUME NEW fills, NEW n \in Nat
  PROVE  \E h : ReplaySolves(fills, h, n)
<1> DEFINE Q == {k \in Nat : ~\E h : ReplaySolves(fills, h, k)}
<1>1. ASSUME Q # {} PROVE FALSE
  <2>1. PICK k \in Q : \A j \in Q : k <= j
    <3>1. Q \in SUBSET Nat
      OBVIOUS
    <3> HIDE DEF Q
    <3> QED BY <1>1, <3>1, LeastNatural
  <2>2. CASE k = 0
    <3>1. PICK h : h = [s \in SUBSET (1 .. 0) |-> Empty]
      BY Zenon
    <3>2. \A s \in SUBSET (1 .. 0) : ReplayTurn(fills, h, s) = Empty
      BY DEF ReplayTurn
    <3>3. ReplaySolves(fills, h, 0)
      BY <3>1, <3>2 DEF ReplaySolves
    <3> QED BY <2>1, <2>2, <3>3
  <2>3. CASE k # 0
    <3>1. k - 1 \in Nat /\ k - 1 \notin Q /\ k \in Nat
      BY <2>1, <2>3
    <3>2. PICK f : ReplaySolves(fills, f, k - 1)
      BY <3>1
    <3>3. PICK h : h = [s \in SUBSET (1 .. k) |-> IF k \in s THEN ReplayStep(f[s \ {k}], fills[k]) ELSE f[s]]
      BY Zenon
    <3>4. \A s \in SUBSET (1 .. k) : k \notin s => s \in SUBSET (1 .. k - 1)
      BY <3>1
    <3>5. \A s \in SUBSET (1 .. k - 1) : s \in SUBSET (1 .. k) /\ h[s] = f[s]
      BY <3>1, <3>3
    <3>6. ASSUME NEW s \in SUBSET (1 .. k) PROVE h[s] = ReplayTurn(fills, h, s)
      <4>1. CASE k \in s
        <5>1. Max(s) = k
          BY <3>1, <4>1, LastIsMax
        <5>2. s \ {k} \in SUBSET (1 .. k - 1)
          BY <3>4
        <5>3. h[s \ {k}] = f[s \ {k}]
          BY <3>5, <5>2
        <5> QED BY <3>3, <4>1, <5>1, <5>3 DEF ReplayTurn
      <4>2. CASE k \notin s
        <5>1. s \in SUBSET (1 .. k - 1)
          BY <3>4, <4>2
        <5>2. s \ {Max(s)} \in SUBSET (1 .. k - 1)
          BY <5>1, Zenon
        <5>3. f[s] = ReplayTurn(fills, f, s)
          BY <3>2, <5>1 DEF ReplaySolves
        <5>4. ReplayTurn(fills, h, s) = ReplayTurn(fills, f, s)
          BY <3>5, <5>2 DEF ReplayTurn
        <5> QED BY <3>5, <5>1, <5>3, <5>4
      <4> QED BY <4>1, <4>2
    <3>7. ReplaySolves(fills, h, k)
      BY <3>3, <3>6, Zenon DEF ReplaySolves
    <3> QED BY <2>1, <3>7
  <2> QED BY <2>2, <2>3
<1> QED BY <1>1

\* What the first k fills leave.
After(fills, k) == ReplayPartial(fills)[1 .. k]

\* Fill by fill, from an empty book.
LEMMA ReplayRuns ==
  ASSUME NEW fills, NEW n \in Nat, DOMAIN fills = 1 .. n
  PROVE  /\ After(fills, 0) = Empty /\ Replay(fills) = After(fills, n)
         /\ \A k \in 1 .. n : After(fills, k) = ReplayStep(After(fills, k - 1), fills[k])
<1> DEFINE h == ReplayPartial(fills)
<1>1. ReplaySolves(fills, h, n)
  BY ReplayExists DEF ReplayPartial, ReplaySolves
<1> HIDE DEF h
<1>2. \A s \in SUBSET (1 .. n) : h[s] = ReplayTurn(fills, h, s)
  BY <1>1 DEF ReplaySolves
<1>3. h[1 .. 0] = Empty
  <2>1. 1 .. 0 = {}
    OBVIOUS
  <2> QED BY <1>2, <2>1, Zenon DEF ReplayTurn
<1>4. ASSUME NEW k \in 1 .. n PROVE h[1 .. k] = ReplayStep(h[1 .. k - 1], fills[k])
  <2>1. 1 .. k \in SUBSET (1 .. n) /\ 1 .. k # {} /\ (1 .. k) \ {k} = 1 .. k - 1
    OBVIOUS
  <2>2. Max(1 .. k) = k
    BY LastIsMax
  <2> QED BY <1>2, <2>1, <2>2, Zenon DEF ReplayTurn
<1> QED BY <1>3, <1>4, ReplayIsPartial DEF After, h

\* One more fill is one more step.
LEMMA ReplayGrows ==
  ASSUME NEW fills, NEW more, NEW n \in Nat, DOMAIN fills = 1 .. n, DOMAIN more = 1 .. n + 1,
         \A k \in 1 .. n : more[k] = fills[k]
  PROVE  Replay(more) = ReplayStep(Replay(fills), more[n + 1])
<1>0. /\ After(fills, 0) = Empty /\ Replay(fills) = After(fills, n)
      /\ \A k \in 1 .. n : After(fills, k) = ReplayStep(After(fills, k - 1), fills[k])
  BY ReplayRuns, Zenon
<1>a. PICK m \in Nat : m = n + 1
  OBVIOUS
<1>b. /\ After(more, 0) = Empty /\ Replay(more) = After(more, m)
       /\ \A k \in 1 .. m : After(more, k) = ReplayStep(After(more, k - 1), more[k])
  BY <1>a, ReplayRuns, Zenon
<1> DEFINE Q == {k \in 0 .. n : After(more, k) # After(fills, k)}
<1>1. ASSUME Q # {} PROVE FALSE
  <2>1. PICK k \in Q : \A j \in Q : k <= j
    <3>1. Q \in SUBSET Nat
      OBVIOUS
    <3> HIDE DEF Q
    <3> QED BY <1>1, <3>1, LeastNatural
  <2>2. k # 0
    BY <2>1, <1>0, <1>b
  <2>3. k \in 1 .. n /\ k \in 1 .. m /\ k - 1 \in 0 .. n /\ k - 1 \notin Q
    BY <1>a, <2>1, <2>2
  <2>4. After(more, k - 1) = After(fills, k - 1)
    BY <2>3
  <2>5. /\ After(more, k) = ReplayStep(After(more, k - 1), more[k])
        /\ After(fills, k) = ReplayStep(After(fills, k - 1), fills[k])
    BY <2>3, <1>0, <1>b
  <2> QED BY <2>1, <2>3, <2>4, <2>5
<1>2. After(more, n) = After(fills, n)
  BY <1>1
<1>3. m \in 1 .. m /\ m - 1 = n
  BY <1>a
<1>4. After(more, m) = ReplayStep(After(more, n), more[m])
  BY <1>3, <1>b
<1> QED BY <1>0, <1>a, <1>b, <1>2, <1>4

\* The fills in order: who executed earlier, then who was booked earlier.
Chrono == {p \in Orders \X Orders : Earlier(p[1], p[2])}
First(S, R, k) == {AtPlace(S, R, j) : j \in 1 .. k}

\* The first so many are what comes before the next, and it.
LEMMA FirstsGrow ==
  ASSUME NEW S, IsFiniteSet(S), NEW R, Linear(S, R), NEW k \in 1 .. Cardinality(S)
  PROVE  /\ AtPlace(S, R, k) \in S
         /\ First(S, R, k - 1) = Preceding(S, R, AtPlace(S, R, k))
         /\ First(S, R, k) = First(S, R, k - 1) \cup {AtPlace(S, R, k)}
<1>0. PICK n \in Nat : n = Cardinality(S)
  BY FS_CardinalityType
<1>1. PICK x : x = AtPlace(S, R, k)
  OBVIOUS
<1>2. x \in S /\ Cardinality(Preceding(S, R, x)) = k - 1
  BY <1>1, PlacesTaken
<1>3. ASSUME NEW y \in S, <<y, x>> \in R PROVE y \in First(S, R, k - 1)
  <2>1. PICK c : c = Cardinality(Preceding(S, R, y))
    OBVIOUS
  <2>2. c \in 0 .. n - 1 /\ c < k - 1
    BY <1>0, <1>2, <1>3, <2>1, CountsRise
  <2>3. c + 1 \in 1 .. k - 1 /\ AtPlace(S, R, c + 1) = y
    BY <1>0, <2>1, <2>2, PlaceIsUnique
  <2> QED BY <2>3 DEF First
<1>4. ASSUME NEW j \in 1 .. k - 1 PROVE AtPlace(S, R, j) \in Preceding(S, R, x)
  <2>1. PICK y : y = AtPlace(S, R, j)
    OBVIOUS
  <2>2. y \in S /\ Cardinality(Preceding(S, R, y)) = j - 1
    <3>1. j \in 1 .. Cardinality(S)
      BY <1>0
    <3> QED BY <2>1, <3>1, PlacesTaken
  <2>3. <<y, x>> \in R
    BY <1>2, <2>2, CountsRise
  <2> QED BY <2>1, <2>2, <2>3 DEF Preceding
<1>5. First(S, R, k - 1) = Preceding(S, R, x)
  BY <1>3, <1>4 DEF First, Preceding
<1>6. First(S, R, k) = First(S, R, k - 1) \cup {x}
  <2>1. 1 .. k = (1 .. k - 1) \cup {k}
    BY <1>0
  <2> QED BY <1>1, <2>1 DEF First
<1> QED BY <1>1, <1>2, <1>5, <1>6

\* None at first, all at last.
LEMMA FirstsEnd ==
  ASSUME NEW S, IsFiniteSet(S), NEW R, Linear(S, R)
  PROVE  First(S, R, 0) = {} /\ First(S, R, Cardinality(S)) = S
<1>1. 1 .. 0 = {}
  OBVIOUS
<1>2. \A i \in 1 .. Cardinality(S) : AtPlace(S, R, i) \in S
  BY PlacesTaken
<1>3. \A x \in S : \E i \in 1 .. Cardinality(S) : AtPlace(S, R, i) = x
  BY PlaceIsUnique
<1> QED BY <1>1, <1>2, <1>3 DEF First

\* What comes last of all leaves every place as it was.
LEMMA LastAppends ==
  ASSUME NEW S, IsFiniteSet(S), NEW R, Linear(S, R), NEW o, o \notin S,
         NEW Q, Linear(S \cup {o}, Q), \A x \in S : <<x, o>> \in Q,
         \A x, y \in S : <<x, y>> \in Q <=> <<x, y>> \in R
  PROVE  /\ Cardinality(S \cup {o}) = Cardinality(S) + 1 /\ IsFiniteSet(S \cup {o})
         /\ \A i \in 1 .. Cardinality(S) : AtPlace(S \cup {o}, Q, i) = AtPlace(S, R, i)
         /\ AtPlace(S \cup {o}, Q, Cardinality(S) + 1) = o
<1>0. Cardinality(S) \in Nat
  BY FS_CardinalityType
<1>1. IsFiniteSet(S \cup {o}) /\ Cardinality(S \cup {o}) = Cardinality(S) + 1
  BY FS_AddElement
<1>2. <<o, o>> \notin Q /\ \A x \in S : <<o, x>> \notin Q
  BY Zenon DEF Linear
<1>3. Preceding(S \cup {o}, Q, o) = S
  BY <1>2 DEF Preceding
<1>4. \A x \in S : Preceding(S \cup {o}, Q, x) = Preceding(S, R, x)
  BY <1>2 DEF Preceding
<1>5. AtPlace(S \cup {o}, Q, Cardinality(S) + 1) = o
  BY <1>1, <1>3, PlaceIsUnique
<1>6. ASSUME NEW i \in 1 .. Cardinality(S) PROVE AtPlace(S \cup {o}, Q, i) = AtPlace(S, R, i)
  <2>1. PICK x : x = AtPlace(S, R, i)
    OBVIOUS
  <2>2. x \in S /\ Cardinality(Preceding(S, R, x)) = i - 1
    BY <2>1, PlacesTaken
  <2>3. Cardinality(Preceding(S \cup {o}, Q, x)) + 1 = i
    BY <1>0, <1>4, <2>2
  <2>4. AtPlace(S \cup {o}, Q, Cardinality(Preceding(S \cup {o}, Q, x)) + 1) = x
    BY <1>1, <2>2, PlaceIsUnique
  <2> QED BY <2>1, <2>3, <2>4
<1> QED BY <1>1, <1>5, <1>6

\* The order in which the replay goes is that one, in every state.
InPlace(i) == CHOOSE o \in Booked : Cardinality({p \in Booked : Earlier(p, o)}) = i - 1

\* As a fact of every state, so that it can be primed.
LEMMA FillsAre ==
  [](FillsChronological = [i \in 1 .. Cardinality(Booked) |-> FillOf(AtPlace(Booked, Chrono, i))])
<1>1. \A o \in Booked : {p \in Booked : Earlier(p, o)} = Preceding(Booked, Chrono, o)
  BY DEF Booked, Chrono, Preceding
<1>2. \A i : InPlace(i) = AtPlace(Booked, Chrono, i)
  BY <1>1, Zenon DEF AtPlace, InPlace
<1>3. FillsChronological = [i \in 1 .. Cardinality(Booked) |-> FillOf(InPlace(i))]
  BY DEF FillsChronological, InPlace
<1>4. FillsChronological = [i \in 1 .. Cardinality(Booked) |-> FillOf(AtPlace(Booked, Chrono, i))]
  BY <1>2, <1>3
<1> QED BY <1>4, PTL

--------------------------------------------------------------------------------
(* What was bought and sold: the orders, and what they cover.                   *)

\* Quantities: how much a set of orders is for, what its buys leave of its sells.
Total(S) == SumFunctionOnSet([o \in Orders |-> o.qty], S)
Buys(S, sym) == {o \in S : o.side = "BUY" /\ o.sym = sym}
Sells(S, sym) == {o \in S : o.side = "SELL" /\ o.sym = sym}
Net(S, sym) == Total(Buys(S, sym)) - Total(Sells(S, sym))

\* A fill not yet booked counts as the last of its instant.
Placed == {o \in Orders : orders[o].state # "NONE"}
Traded == {o \in Orders : orders[o].state \in {"EXECUTED", "FILLED"}}
NotAfter(p, o) ==
  \/ orders[p].at < orders[o].at
  \/ /\ orders[p].at = orders[o].at
     /\ orders[o].state = "EXECUTED" \/ (orders[p].state = "FILLED" /\ orders[p].seq <= orders[o].seq)
Till(S, o) == {p \in S : NotAfter(p, o)}

OrderRows == [state : {"NONE", "OPEN", "EXECUTED", "FILLED"}, px : Nat, at : Nat, booked : Nat, seq : Nat]
OrdersOK ==
  /\ now \in Nat /\ orders \in [Orders -> OrderRows]
  /\ \A o \in Orders : orders[o].at <= now
  /\ \A o \in Booked : orders[o].seq \in 1 .. Cardinality(Booked)
  /\ \A a, b \in Booked : orders[a].seq = orders[b].seq => a = b

\* What was sold was bought before: at any time, and before every fill.
SalesCovered ==
  \A sym \in Symbols :
    /\ Total(Sells(Placed, sym)) <= Total(Buys(Booked, sym))
    /\ \A o \in Traded : Total(Sells(Till(Traded, o), sym)) <= Total(Buys(Till(Booked, o), sym))
PositionsOK ==
  /\ positions \in [Symbols -> [qty : Int, basis : Int]]
  /\ \A sym \in Symbols : positions[sym].qty = Net(Booked, sym) /\ positions[sym].basis % UnitsPerCent = 0

\* Quantities add up, and none is negative.
LEMMA Totals ==
  /\ \A S \in SUBSET Orders : IsFiniteSet(S) /\ Total(S) \in Nat
  /\ \A S, T \in SUBSET Orders : S \subseteq T => Total(S) <= Total(T)
  /\ \A S, T \in SUBSET Orders : S \cap T = {} => Total(S \cup T) = Total(S) + Total(T)
  /\ \A o \in Orders : Total({o}) = o.qty
  /\ Total({}) = 0
<1> DEFINE Qty == [o \in Orders |-> o.qty]
<1>1. IsFiniteSet(Orders) /\ \A o \in Orders : Qty[o] \in Nat /\ Qty[o] \in Int /\ Qty[o] = o.qty
  BY PortfolioAssumption
<1>2. \A S : Total(S) = SumFunctionOnSet(Qty, S)
  BY DEF Total
<1> HIDE DEF Qty
<1>3. Total({}) = 0
  BY <1>2, SumTurn, FS_EmptySet
<1>4. ASSUME NEW S \in SUBSET Orders, NEW T \in SUBSET Orders, S \subseteq T
      PROVE  Total(S) \in Int /\ Total(S) <= Total(T)
  <2>1. IsFiniteSet(T) /\ (\A x \in T : Qty[x] \in Nat) /\ S \in SUBSET T
    BY <1>1, <1>4, FS_Subset
  <2> QED BY <1>2, <2>1, SumPart
<1>5. ASSUME NEW S \in SUBSET Orders PROVE IsFiniteSet(S) /\ Total(S) \in Nat
  <2>1. {} \in SUBSET Orders /\ {} \subseteq S
    OBVIOUS
  <2>2. Total({}) <= Total(S) /\ Total(S) \in Int
    BY <1>4, <2>1
  <2> QED BY <1>1, <1>3, <2>2, FS_Subset
<1>6. ASSUME NEW S \in SUBSET Orders, NEW T \in SUBSET Orders, S \cap T = {}
      PROVE  Total(S \cup T) = Total(S) + Total(T)
  BY <1>1, <1>2, <1>6, SumApart
<1>7. ASSUME NEW o \in Orders PROVE Total({o}) = o.qty
  <2>1. {o} \in SUBSET Orders /\ o \in {o} /\ {o} \ {o} = {}
    OBVIOUS
  <2>2. \A T \in SUBSET Orders : \A x \in T : SumFunctionOnSet(Qty, T) = Qty[x] + SumFunctionOnSet(Qty, T \ {x})
    BY <1>1, SumRemove, ZenonT(30)
  <2>3. SumFunctionOnSet(Qty, {o}) = Qty[o] + SumFunctionOnSet(Qty, {})
    BY <2>1, <2>2
  <2> QED BY <1>1, <1>2, <1>3, <2>3
<1> QED BY <1>3, <1>4, <1>5, <1>6, <1>7

\* One order more.
LEMMA OneMore ==
  ASSUME NEW S \in SUBSET Orders, NEW o \in Orders, o \notin S, NEW sym
  PROVE  /\ Total(Buys(S, sym)) \in Nat /\ Total(Sells(S, sym)) \in Nat
         /\ Total(Buys(S \cup {o}, sym)) = Total(Buys(S, sym)) + (IF o.side = "BUY" /\ o.sym = sym THEN o.qty ELSE 0)
         /\ Total(Sells(S \cup {o}, sym)) = Total(Sells(S, sym)) + (IF o.side = "SELL" /\ o.sym = sym THEN o.qty ELSE 0)
<1>1. /\ Buys(S, sym) \in SUBSET Orders /\ Sells(S, sym) \in SUBSET Orders /\ {o} \in SUBSET Orders
      /\ Buys(S, sym) \cap {o} = {} /\ Sells(S, sym) \cap {o} = {}
  BY DEF Buys, Sells
<1>2. /\ Buys(S \cup {o}, sym) = IF o.side = "BUY" /\ o.sym = sym THEN Buys(S, sym) \cup {o} ELSE Buys(S, sym)
      /\ Sells(S \cup {o}, sym) = IF o.side = "SELL" /\ o.sym = sym THEN Sells(S, sym) \cup {o} ELSE Sells(S, sym)
  BY DEF Buys, Sells
<1>3. Total(Buys(S, sym)) \in Nat /\ Total(Sells(S, sym)) \in Nat
  BY <1>1, Totals
<1>4. /\ Total(Buys(S, sym) \cup {o}) = Total(Buys(S, sym)) + o.qty
      /\ Total(Sells(S, sym) \cup {o}) = Total(Sells(S, sym)) + o.qty
  BY <1>1, Totals, Zenon
<1> QED BY <1>2, <1>3, <1>4

\* More orders, more of each side.
LEMMA MoreIsMore ==
  ASSUME NEW S \in SUBSET Orders, NEW T \in SUBSET Orders, S \subseteq T, NEW sym
  PROVE  Total(Buys(S, sym)) <= Total(Buys(T, sym)) /\ Total(Sells(S, sym)) <= Total(Sells(T, sym))
<1>1. /\ Buys(S, sym) \in SUBSET Orders /\ Buys(T, sym) \in SUBSET Orders /\ Buys(S, sym) \subseteq Buys(T, sym)
      /\ Sells(S, sym) \in SUBSET Orders /\ Sells(T, sym) \in SUBSET Orders /\ Sells(S, sym) \subseteq Sells(T, sym)
  BY DEF Buys, Sells
<1> QED BY <1>1, Totals

HoldingsOK == OrdersOK /\ SalesCovered /\ PositionsOK

\* What is on offer is what was placed to be sold and is not booked.
LEMMA OfferedIs ==
  ASSUME OrdersOK, NEW sym
  PROVE  Total(Sells(Placed, sym)) = Total(Sells(Booked, sym)) + OpenSells(sym)
<1> DEFINE offered == {o \in Orders : IsOpen(o) /\ o.side = "SELL" /\ o.sym = sym}
<1>1. OpenSells(sym) = Total(offered)
  BY DEF OpenSells, Total
<1>2. \A o \in Orders : orders[o].state \in {"NONE", "OPEN", "EXECUTED", "FILLED"}
  BY DEF OrdersOK, OrderRows
<1>3. Sells(Placed, sym) = Sells(Booked, sym) \cup offered /\ Sells(Booked, sym) \cap offered = {}
  BY <1>2 DEF Sells, Placed, Booked, IsOpen
<1>4. Sells(Booked, sym) \in SUBSET Orders /\ offered \in SUBSET Orders
  BY DEF Sells, Booked
<1> QED BY <1>1, <1>3, <1>4, Totals, Zenon

\* An order is placed for no more than is left to sell.
LEMMA PlaceKeeps ==
  ASSUME HoldingsOK, NEW o \in Orders, Place(o)
  PROVE  HoldingsOK'
<1>0. OrdersOK /\ SalesCovered /\ PositionsOK
  BY DEF HoldingsOK
<1>1. /\ orders[o].state = "NONE" /\ Affordable(o)
      /\ orders' = [orders EXCEPT ![o].state = "OPEN"] /\ positions' = positions /\ now' = now
  BY DEF Place, market
<1>2. /\ orders' \in [Orders -> OrderRows] /\ orders'[o].state = "OPEN" /\ orders'[o].at = orders[o].at
      /\ \A p \in Orders : p # o => orders'[p] = orders[p]
  BY <1>0, <1>1 DEF OrdersOK, OrderRows
<1>3. /\ Booked' = Booked /\ Traded' = Traded /\ Placed' = Placed \cup {o} /\ o \notin Placed
      /\ o \notin Booked /\ o \notin Traded
  BY <1>1, <1>2 DEF Booked, Traded, Placed
<1>4. \A p \in Traded : Till(Traded, p)' = Till(Traded, p) /\ Till(Booked, p)' = Till(Booked, p)
  <2>1. \A p, q \in Traded \cup Booked : NotAfter(q, p)' = NotAfter(q, p)
    BY <1>2, <1>3 DEF NotAfter, Traded, Booked
  <2> QED BY <1>3, <2>1 DEF Till
<1>5. OrdersOK'
  BY <1>0, <1>1, <1>2, <1>3, Zenon DEF OrdersOK, Booked
<1>6. PositionsOK'
  BY <1>0, <1>1, <1>3 DEF PositionsOK
<1>7. ASSUME NEW sym \in Symbols PROVE Total(Sells(Placed \cup {o}, sym)) <= Total(Buys(Booked, sym))
  <2>1. Placed \in SUBSET Orders /\ Booked \in SUBSET Orders
    BY DEF Placed, Booked
  <2>2. /\ Total(Sells(Placed, sym)) \in Nat /\ Total(Sells(Booked, sym)) \in Nat /\ Total(Buys(Booked, sym)) \in Nat
        /\ Total(Sells(Placed \cup {o}, sym)) = Total(Sells(Placed, sym)) + (IF o.side = "SELL" /\ o.sym = sym THEN o.qty ELSE 0)
    BY <1>3, <2>1, OneMore, Zenon
  <2>3. CASE ~(o.side = "SELL" /\ o.sym = sym)
    BY <1>0, <2>2, <2>3 DEF SalesCovered
  <2>4. CASE o.side = "SELL" /\ o.sym = sym
    <3>1. o.qty <= positions[sym].qty - OpenSells(sym)
      BY <1>1, <2>4 DEF Affordable
    <3>2. Total(Sells(Placed, sym)) = Total(Sells(Booked, sym)) + OpenSells(sym)
      BY <1>0, OfferedIs
    <3>3. positions[sym].qty = Total(Buys(Booked, sym)) - Total(Sells(Booked, sym))
      BY <1>0 DEF PositionsOK, Net
    <3>4. OpenSells(sym) \in Int
      <4>1. {p \in Orders : IsOpen(p) /\ p.side = "SELL" /\ p.sym = sym} \in SUBSET Orders
        OBVIOUS
      <4> QED BY <4>1, Totals DEF OpenSells, Total
    <3>5. o.qty \in Nat
      BY PortfolioAssumption
    <3> QED BY <2>2, <2>4, <3>1, <3>2, <3>3, <3>4, <3>5
  <2> QED BY <2>3, <2>4
<1>8. SalesCovered'
  BY <1>0, <1>3, <1>4, <1>7 DEF SalesCovered
<1> QED BY <1>5, <1>6, <1>8 DEF HoldingsOK

\* An execution is the last of its instant until it is booked.
LEMMA ExecuteKeeps ==
  ASSUME HoldingsOK, NEW o \in Orders, Execute(o)
  PROVE  HoldingsOK'
<1>0. OrdersOK /\ SalesCovered /\ PositionsOK
  BY DEF HoldingsOK
<1>1. /\ orders[o].state = "OPEN" /\ positions' = positions /\ now' = now
      /\ \E px \in Nat : orders' = [orders EXCEPT ![o].state = "EXECUTED", ![o].px = px, ![o].at = now]
  BY PortfolioAssumption, Zenon DEF Execute, market
<1>2. PICK px \in Nat : orders' = [orders EXCEPT ![o].state = "EXECUTED", ![o].px = px, ![o].at = now]
  BY <1>1, Zenon
<1>3. /\ orders' \in [Orders -> OrderRows] /\ orders'[o].state = "EXECUTED" /\ orders'[o].at = now
      /\ \A p \in Orders : p # o => orders'[p] = orders[p]
  BY <1>0, <1>2, ZenonT(30) DEF OrdersOK, OrderRows
<1>4. /\ Booked' = Booked /\ Traded' = Traded \cup {o} /\ Placed' = Placed
      /\ o \notin Booked /\ o \notin Traded /\ Booked \in SUBSET Orders /\ Traded \in SUBSET Orders
  BY <1>1, <1>3 DEF Booked, Traded, Placed
<1>5. OrdersOK'
  <2>1. now \in Nat /\ \A p \in Orders : orders'[p].at <= now
    BY <1>0, <1>3 DEF OrdersOK
  <2>2. \A p \in Booked : p \in Orders /\ orders'[p] = orders[p]
    BY <1>3, <1>4
  <2>3. /\ \A p \in Booked : orders'[p].seq \in 1 .. Cardinality(Booked)
        /\ \A p, q \in Booked : orders'[p].seq = orders'[q].seq => p = q
    BY <1>0, <2>2 DEF OrdersOK
  <2> QED BY <1>1, <1>3, <1>4, <2>1, <2>3 DEF OrdersOK
<1>6. PositionsOK'
  BY <1>0, <1>1, <1>4 DEF PositionsOK
<1>7. \A p \in Orders : orders[p].at \in Nat /\ orders[p].at <= now /\ now \in Nat
  BY <1>0 DEF OrdersOK, OrderRows
<1>8. ASSUME NEW sym \in Symbols, NEW p \in Traded'
      PROVE  Total(Sells(Till(Traded, p)', sym)) <= Total(Buys(Till(Booked, p)', sym))
  <2>1. CASE orders'[p].state = "EXECUTED" /\ orders'[p].at = now
    <3>1. Till(Booked, p)' = Booked
      BY <1>3, <1>4, <1>7, <2>1 DEF Till, NotAfter, Booked
    <3>2. Till(Traded, p)' \in SUBSET Orders /\ Till(Traded, p)' \subseteq Placed /\ Placed \in SUBSET Orders
      BY <1>3, <1>4 DEF Till, Traded, Placed
    <3>3. Total(Sells(Till(Traded, p)', sym)) <= Total(Sells(Placed, sym))
      BY <3>2, MoreIsMore
    <3>4. Total(Sells(Placed, sym)) <= Total(Buys(Booked, sym))
      BY <1>0 DEF SalesCovered
    <3>5. /\ Sells(Till(Traded, p)', sym) \in SUBSET Orders /\ Sells(Placed, sym) \in SUBSET Orders
          /\ Buys(Booked, sym) \in SUBSET Orders
      BY <3>2, <1>4 DEF Sells, Buys
    <3>6. Total(Sells(Till(Traded, p)', sym)) \in Nat /\ Total(Sells(Placed, sym)) \in Nat /\ Total(Buys(Booked, sym)) \in Nat
      BY <3>5, Totals
    <3> QED BY <3>1, <3>3, <3>4, <3>6
  <2>2. CASE ~(orders'[p].state = "EXECUTED" /\ orders'[p].at = now)
    <3>1. p # o /\ p \in Traded
      BY <1>3, <1>4, <2>2
    <3>2. ~NotAfter(o, p)'
      BY <1>3, <1>4, <1>7, <2>2, <3>1 DEF NotAfter, Traded
    <3>3. \A q \in Traded \cup Booked : NotAfter(q, p)' = NotAfter(q, p)
      BY <1>3, <1>4, <3>1 DEF NotAfter
    <3>4. Till(Traded, p)' = Till(Traded, p) /\ Till(Booked, p)' = Till(Booked, p)
      BY <1>4, <3>2, <3>3 DEF Till
    <3> QED BY <1>0, <3>1, <3>4 DEF SalesCovered
  <2> QED BY <2>1, <2>2
<1>9. SalesCovered'
  BY <1>0, <1>4, <1>8 DEF SalesCovered
<1> QED BY <1>5, <1>6, <1>9 DEF HoldingsOK

Position == [qty : Int, basis : Int]

\* What a fill that is covered makes of a position, and its gain.
LEMMA AppliedIs ==
  ASSUME NEW position \in Position, position.basis % UnitsPerCent = 0,
         NEW fill, fill.side \in {"BUY", "SELL"}, fill.qty \in Nat \ {0}, fill.notional \in Int,
         fill.side = "SELL" => fill.qty <= position.qty
  PROVE  /\ Apply(position, fill) \in Position /\ Apply(position, fill).basis % UnitsPerCent = 0
         /\ Gain(position, fill) \in Int
         /\ Apply(position, fill).qty = position.qty + (IF fill.side = "BUY" THEN fill.qty ELSE -fill.qty)
         /\ Apply(position, fill).basis = position.basis + UnitsPerCent *
              (Gain(position, fill) + Fee + (IF fill.side = "BUY" THEN fill.notional ELSE -fill.notional))
<1>1. UnitsPerCent = 100 /\ Fee \in Nat
  BY PortfolioAssumption DEF UnitsPerCent
<1>2. PICK qty, basis \in Int : position = [qty |-> qty, basis |-> basis]
  BY DEF Position
<1>3. PICK sold, notional \in Int : sold = fill.qty /\ notional = fill.notional
  OBVIOUS
<1>4. CASE fill.side = "BUY"
  <2>1. Gain(position, fill) = 0
    BY <1>4 DEF Gain
  <2>2. Apply(position, fill) = [qty |-> qty + sold, basis |-> (basis + notional * 100) + Fee * 100]
    BY <1>1, <1>2, <1>3, <1>4 DEF Apply, ApplyBuyFill, AddMoney
  <2>3. ((basis + notional * 100) + Fee * 100) % 100 = 0
    BY <1>1, <1>2
  <2> QED BY <1>1, <1>2, <1>3, <1>4, <2>1, <2>2, <2>3 DEF Position
<1>5. CASE fill.side = "SELL"
  <2>1. sold \in Nat \ {0} /\ qty \in Nat \ {0} /\ sold <= qty /\ basis % UnitsPerCent = 0
    BY <1>2, <1>3, <1>5
  <2>2. PICK share : share = Allocated(basis, sold, qty)
    OBVIOUS
  <2>3. share \in Int /\ Remaining(basis, sold, qty) = basis - share * 100
    <3>1. CASE sold = qty
      <4>1. share = HalfEven(basis, 100)
        BY <1>1, <2>2, <3>1 DEF Allocated
      <4>2. /\ share \in Int /\ 2 * (100 * share - basis) <= 100 /\ 2 * (basis - 100 * share) <= 100
        BY <4>1, RoundsToNearest
      <4>3. basis = 100 * share
        BY <1>1, <2>1, <4>2
      <4> QED BY <3>1, <4>2, <4>3 DEF Remaining
    <3>2. CASE sold # qty
      <4>1. share = HalfEven(basis * sold, qty * 100)
        BY <1>1, <2>2, <3>2 DEF Allocated
      <4>2. basis * sold \in Int /\ qty * 100 \in Nat \ {0}
        BY <2>1
      <4>3. share \in Int
        BY <4>1, <4>2, RoundsToNearest
      <4> QED BY <1>1, <2>2, <3>2, <4>3 DEF Remaining
    <3> QED BY <3>1, <3>2
  <2>4. Gain(position, fill) = (notional - Fee) - share
    BY <1>2, <1>3, <1>5, <2>2 DEF Gain
  <2>5. Apply(position, fill) = [qty |-> qty - sold, basis |-> basis - share * 100]
    BY <1>2, <1>3, <1>5, <2>3 DEF Apply, ApplySellFill
  <2>6. (basis - share * 100) % 100 = 0
    BY <1>1, <2>1, <2>3
  <2> QED BY <1>1, <1>2, <1>3, <1>5, <2>3, <2>4, <2>5, <2>6, SMTT(30) DEF Position
<1> QED BY <1>4, <1>5

\* What booking an execution makes of the orders.
LEMMA Books ==
  ASSUME HoldingsOK, NEW o \in Orders, BookFill(o)
  PROVE  /\ orders[o].state = "EXECUTED" /\ now' = now
         /\ orders' \in [Orders -> OrderRows] /\ \A p \in Orders : p # o => orders'[p] = orders[p]
         /\ orders'[o].state = "FILLED" /\ orders'[o].at = orders[o].at /\ orders'[o].px = orders[o].px
         /\ orders'[o].seq = Cardinality(Booked) + 1 /\ Cardinality(Booked) \in Nat
         /\ Booked' = Booked \cup {o} /\ o \notin Booked /\ Booked \in SUBSET Orders /\ IsFiniteSet(Booked)
         /\ Traded' = Traded /\ o \in Traded /\ Placed' = Placed /\ Placed \in SUBSET Orders /\ Booked' \in SUBSET Placed
         /\ Cardinality(Booked') = Cardinality(Booked) + 1
         /\ positions' = [positions EXCEPT ![o.sym] = Apply(@, FillOf(o))]
<1>1. OrdersOK
  BY DEF HoldingsOK
<1>2. /\ orders[o].state = "EXECUTED" /\ now' = now
      /\ positions' = [positions EXCEPT ![o.sym] = Apply(@, FillOf(o))]
      /\ orders' = [orders EXCEPT ![o].state = "FILLED", ![o].booked = now, ![o].seq = Cardinality(Booked) + 1]
  BY DEF BookFill, market
<1>3. Booked \in SUBSET Orders /\ IsFiniteSet(Booked) /\ Cardinality(Booked) \in Nat
  BY PortfolioAssumption, FS_Subset, FS_CardinalityType DEF Booked
<1>4. PICK n \in Nat : n = Cardinality(Booked) + 1
  BY <1>3
<1>5. /\ orders' \in [Orders -> OrderRows] /\ \A p \in Orders : p # o => orders'[p] = orders[p]
      /\ orders'[o].state = "FILLED" /\ orders'[o].at = orders[o].at /\ orders'[o].px = orders[o].px
      /\ orders'[o].seq = n
  BY <1>1, <1>2, <1>4, ZenonT(30) DEF OrdersOK, OrderRows
<1>6. Booked' = Booked \cup {o} /\ o \notin Booked /\ Traded' = Traded /\ o \in Traded /\ Placed' = Placed
  BY <1>2, <1>5 DEF Booked, Traded, Placed
<1>7. Placed \in SUBSET Orders /\ Booked' \in SUBSET Placed
  BY <1>2, <1>6, Zenon DEF Booked, Placed
<1>8. Cardinality(Booked') = Cardinality(Booked) + 1
  BY <1>3, <1>6, FS_AddElement, Zenon
<1> QED BY <1>2, <1>3, <1>4, <1>5, <1>6, <1>7, <1>8

\* What is sold is held, and a fill is worth a number of cents.
LEMMA FillIsCovered ==
  ASSUME HoldingsOK, NEW o \in Orders, o \in Placed, o \notin Booked
  PROVE  o.side = "SELL" => o.qty <= positions[o.sym].qty
<1>1. Booked \in SUBSET Orders /\ Placed \in SUBSET Orders /\ Booked \cup {o} \in SUBSET Placed
  BY DEF Booked, Placed
<1>2. PICK sym \in Symbols : sym = o.sym
  BY PortfolioAssumption
<1>3. /\ Total(Sells(Booked, sym)) \in Nat /\ Total(Buys(Booked, sym)) \in Nat
      /\ o.side = "SELL" => Total(Sells(Booked \cup {o}, sym)) = Total(Sells(Booked, sym)) + o.qty
  BY <1>1, <1>2, OneMore
<1>4. Total(Sells(Booked \cup {o}, sym)) <= Total(Sells(Placed, sym))
  BY <1>1, MoreIsMore
<1>5. Total(Sells(Placed, sym)) <= Total(Buys(Booked, sym))
  BY DEF HoldingsOK, SalesCovered
<1>6. positions[sym].qty = Total(Buys(Booked, sym)) - Total(Sells(Booked, sym))
  BY DEF HoldingsOK, PositionsOK, Net
<1>7. Total(Sells(Placed, sym)) \in Nat /\ o.qty \in Nat
  <2>1. Sells(Placed, sym) \in SUBSET Orders
    BY <1>1 DEF Sells
  <2> QED BY <2>1, Totals, PortfolioAssumption
<1> QED BY <1>2, <1>3, <1>4, <1>5, <1>6, <1>7

\* A fill is its order's, and worth a number of cents.
LEMMA FillIs ==
  ASSUME OrdersOK, NEW o \in Orders
  PROVE  LET fill == FillOf(o)
         IN  /\ fill.sym = o.sym /\ fill.side = o.side /\ fill.qty = o.qty /\ fill.notional \in Int
             /\ fill.sym \in Symbols /\ fill.side \in {"BUY", "SELL"} /\ fill.qty \in Nat \ {0}
<1>1. orders[o].px * o.qty \in Int /\ UnitsPerCent \in Nat \ {0}
  <2>1. orders[o].px \in Nat /\ o.qty \in Nat
    BY PortfolioAssumption DEF OrdersOK, OrderRows
  <2> QED BY <2>1 DEF UnitsPerCent
<1>2. Notional(orders[o].px, o.qty) \in Int
  BY <1>1, RoundsToNearest DEF Notional
<1> QED BY <1>2, PortfolioAssumption DEF FillOf

\* A fill that is booked moves its position as its order says.
LEMMA BookKeeps ==
  ASSUME HoldingsOK, NEW o \in Orders, BookFill(o)
  PROVE  HoldingsOK'
<1>0. OrdersOK /\ SalesCovered /\ PositionsOK
  BY DEF HoldingsOK
<1>1. /\ orders[o].state = "EXECUTED" /\ now' = now
      /\ orders' \in [Orders -> OrderRows] /\ \A p \in Orders : p # o => orders'[p] = orders[p]
      /\ orders'[o].state = "FILLED" /\ orders'[o].at = orders[o].at
      /\ orders'[o].seq = Cardinality(Booked) + 1 /\ Cardinality(Booked) \in Nat
      /\ Booked' = Booked \cup {o} /\ o \notin Booked /\ Booked \in SUBSET Orders
      /\ Traded' = Traded /\ o \in Traded /\ Placed' = Placed /\ Placed \in SUBSET Orders
      /\ Cardinality(Booked') = Cardinality(Booked) + 1
      /\ positions' = [positions EXCEPT ![o.sym] = Apply(@, FillOf(o))]
  BY Books
<1>2. \A p \in Booked : orders'[p] = orders[p] /\ orders[p].seq \in 1 .. Cardinality(Booked)
  BY <1>0, <1>1 DEF OrdersOK
<1>3. OrdersOK'
  <2>1. now \in Nat /\ \A p \in Orders : orders'[p].at <= now
    BY <1>0, <1>1 DEF OrdersOK
  <2>2. \A p \in Booked' : orders'[p].seq \in 1 .. Cardinality(Booked')
    BY <1>1, <1>2
  <2>3. \A p, q \in Booked' : orders'[p].seq = orders'[q].seq => p = q
    <3>1. \A p, q \in Booked : orders'[p].seq = orders'[q].seq => p = q
      BY <1>0, <1>2 DEF OrdersOK
    <3>2. \A p \in Booked : orders'[p].seq # orders'[o].seq
      BY <1>1, <1>2
    <3> QED BY <1>1, <3>1, <3>2
  <2> QED BY <1>1, <2>1, <2>2, <2>3, Zenon DEF OrdersOK
<1>4. \A p \in Orders : orders[p].at \in Nat /\ orders[p].seq \in Nat
  BY <1>0 DEF OrdersOK, OrderRows
<1>5. ASSUME NEW sym \in Symbols
      PROVE  Total(Sells(Placed', sym)) <= Total(Buys(Booked', sym))
  <2>1. Total(Buys(Booked, sym)) <= Total(Buys(Booked', sym))
    BY <1>1, MoreIsMore
  <2>2. Total(Sells(Placed, sym)) <= Total(Buys(Booked, sym))
    BY <1>0 DEF SalesCovered
  <2>3. /\ Sells(Placed, sym) \in SUBSET Orders /\ Buys(Booked, sym) \in SUBSET Orders
        /\ Buys(Booked', sym) \in SUBSET Orders
    BY <1>1 DEF Sells, Buys
  <2>4. Total(Sells(Placed, sym)) \in Nat /\ Total(Buys(Booked, sym)) \in Nat /\ Total(Buys(Booked', sym)) \in Nat
    BY <2>3, Totals
  <2> QED BY <1>1, <2>1, <2>2, <2>4
<1>6. ASSUME NEW sym \in Symbols, NEW p \in Traded
      PROVE  Total(Sells(Till(Traded, p)', sym)) <= Total(Buys(Till(Booked, p)', sym))
  <2>1. /\ Till(Traded, p)' \in SUBSET Orders /\ Till(Traded, p) \in SUBSET Orders
        /\ Till(Booked, p)' \in SUBSET Orders /\ Till(Booked, p) \in SUBSET Orders
    BY <1>1 DEF Till, Traded
  <2>2. Till(Traded, p)' \subseteq Till(Traded, p) /\ Till(Booked, p) \subseteq Till(Booked, p)'
    <3>1. CASE p = o
      <4>1. \A q \in Traded : NotAfter(q, p)' => NotAfter(q, p)
        BY <1>1, <1>4, <3>1 DEF NotAfter, Traded
      <4>2. \A q \in Booked : NotAfter(q, p) => NotAfter(q, p)'
        BY <1>1, <1>2, <1>4, <3>1 DEF NotAfter, Booked
      <4> QED BY <1>1, <4>1, <4>2 DEF Till
    <3>2. CASE p # o
      <4>1. \A q \in Traded : q # o => (NotAfter(q, p)' <=> NotAfter(q, p))
        BY <1>1, <3>2 DEF NotAfter, Traded
      <4>2. NotAfter(o, p)' => NotAfter(o, p)
        <5>1. CASE orders[p].state = "EXECUTED"
          BY <1>1, <1>4, <3>2, <5>1 DEF NotAfter, Traded
        <5>2. CASE p \in Booked
          BY <1>1, <1>2, <1>4, <3>2, <5>2 DEF NotAfter, Traded
        <5> QED BY <5>1, <5>2 DEF Traded, Booked
      <4>3. Booked \in SUBSET Traded
        BY DEF Booked, Traded
      <4> QED BY <1>1, <4>1, <4>2, <4>3 DEF Till
    <3> QED BY <3>1, <3>2
  <2>3. /\ Total(Sells(Till(Traded, p)', sym)) <= Total(Sells(Till(Traded, p), sym))
        /\ Total(Buys(Till(Booked, p), sym)) <= Total(Buys(Till(Booked, p)', sym))
    BY <2>1, <2>2, MoreIsMore
  <2>4. Total(Sells(Till(Traded, p), sym)) <= Total(Buys(Till(Booked, p), sym))
    BY <1>0 DEF SalesCovered
  <2>5. /\ Sells(Till(Traded, p)', sym) \in SUBSET Orders /\ Sells(Till(Traded, p), sym) \in SUBSET Orders
        /\ Buys(Till(Booked, p), sym) \in SUBSET Orders /\ Buys(Till(Booked, p)', sym) \in SUBSET Orders
    BY <2>1 DEF Sells, Buys
  <2>6. /\ Total(Sells(Till(Traded, p)', sym)) \in Nat /\ Total(Sells(Till(Traded, p), sym)) \in Nat
        /\ Total(Buys(Till(Booked, p), sym)) \in Nat /\ Total(Buys(Till(Booked, p)', sym)) \in Nat
    BY <2>5, Totals
  <2> QED BY <2>3, <2>4, <2>6
<1>7. SalesCovered'
  BY <1>1, <1>5, <1>6, Zenon DEF SalesCovered
<1>8. PositionsOK'
  <2>1. positions \in [Symbols -> Position] /\ o.sym \in Symbols
    BY <1>0, PortfolioAssumption DEF PositionsOK, Position
  <2>2. PICK fill : fill = FillOf(o)
    OBVIOUS
  <2>3. /\ fill.side = o.side /\ fill.qty = o.qty /\ fill.notional \in Int
        /\ fill.side \in {"BUY", "SELL"} /\ fill.qty \in Nat \ {0}
    BY <1>0, <2>2, FillIs
  <2>4. o.side = "SELL" => o.qty <= positions[o.sym].qty
    BY <1>1, FillIsCovered DEF Placed
  <2>5. PICK position \in Position : position = positions[o.sym] /\ position.basis % UnitsPerCent = 0
    BY <1>0, <2>1 DEF PositionsOK
  <2>6. /\ Apply(position, fill) \in Position /\ Apply(position, fill).basis % UnitsPerCent = 0
        /\ Apply(position, fill).qty = position.qty + (IF fill.side = "BUY" THEN fill.qty ELSE -fill.qty)
    BY <2>3, <2>4, <2>5, AppliedIs
  <2>7. PICK after \in Position : after = Apply(position, fill)
    BY <2>6
  <2>8. positions' = [positions EXCEPT ![o.sym] = after]
    BY <1>1, <2>2, <2>5, <2>7
  <2>9. positions' \in [Symbols -> Position]
    BY <2>1, <2>8
  <2>10. ASSUME NEW sym \in Symbols
         PROVE  positions'[sym].qty = Net(Booked', sym) /\ positions'[sym].basis % UnitsPerCent = 0
    <3>0. /\ Total(Buys(Booked, sym)) \in Nat /\ Total(Sells(Booked, sym)) \in Nat
          /\ Total(Buys(Booked \cup {o}, sym))
               = Total(Buys(Booked, sym)) + (IF o.side = "BUY" /\ o.sym = sym THEN o.qty ELSE 0)
          /\ Total(Sells(Booked \cup {o}, sym))
               = Total(Sells(Booked, sym)) + (IF o.side = "SELL" /\ o.sym = sym THEN o.qty ELSE 0)
      BY <1>1, OneMore, ZenonT(30)
    <3>1. /\ Total(Buys(Booked, sym)) \in Nat /\ Total(Sells(Booked, sym)) \in Nat
          /\ Total(Buys(Booked', sym)) = Total(Buys(Booked, sym)) + (IF o.side = "BUY" /\ o.sym = sym THEN o.qty ELSE 0)
          /\ Total(Sells(Booked', sym)) = Total(Sells(Booked, sym)) + (IF o.side = "SELL" /\ o.sym = sym THEN o.qty ELSE 0)
      BY <1>1, <3>0
    <3>2. positions[sym].qty = Total(Buys(Booked, sym)) - Total(Sells(Booked, sym)) /\ positions[sym].basis % UnitsPerCent = 0
      BY <1>0 DEF PositionsOK, Net
    <3>3. CASE sym = o.sym
      <4>1. positions'[sym] = after
        BY <2>1, <2>8, <3>3
      <4>2. after.qty = position.qty + (IF o.side = "BUY" THEN o.qty ELSE -o.qty) /\ after.basis % UnitsPerCent = 0
        BY <2>3, <2>6, <2>7
      <4> QED BY <2>3, <2>5, <3>1, <3>2, <3>3, <4>1, <4>2 DEF Net
    <3>4. CASE sym # o.sym
      <4>1. positions'[sym] = positions[sym]
        BY <2>1, <2>8, <3>4
      <4> QED BY <3>1, <3>2, <3>4, <4>1 DEF Net
    <3> QED BY <3>3, <3>4
  <2> QED BY <2>9, <2>10 DEF PositionsOK, Position
<1> QED BY <1>3, <1>7, <1>8 DEF HoldingsOK

\* Without an order there is nothing to cover.
LEMMA HoldingsStart ==
  ASSUME Init
  PROVE  HoldingsOK
<1>1. /\ now = 0 /\ orders = [o \in Orders |-> Unplaced] /\ positions = [sym \in Symbols |-> Flat]
  BY DEF Init
<1>2. Booked = {} /\ Placed = {} /\ Traded = {}
  BY <1>1 DEF Booked, Placed, Traded, Unplaced
<1>3. OrdersOK
  BY <1>1, <1>2 DEF OrdersOK, OrderRows, Unplaced
<1>4. \A sym : Buys({}, sym) = {} /\ Sells({}, sym) = {}
  BY DEF Buys, Sells
<1>5. Total({}) = 0
  BY Totals
<1>6. SalesCovered
  BY <1>2, <1>4, <1>5 DEF SalesCovered
<1>7. PositionsOK
  <2>1. \A sym \in Symbols : Net({}, sym) = 0
    BY <1>4, <1>5 DEF Net
  <2>2. Flat \in [qty : Int, basis : Int] /\ Flat.qty = 0 /\ Flat.basis = 0 /\ 0 % UnitsPerCent = 0
    BY DEF Flat, UnitsPerCent
  <2> QED BY <1>1, <1>2, <2>1, <2>2 DEF PositionsOK
<1> QED BY <1>3, <1>6, <1>7 DEF HoldingsOK

\* The clock, transfers and reads move neither.
LEMMA HoldingsFrame ==
  ASSUME HoldingsOK, orders' = orders, positions' = positions, now' \in Nat, now <= now'
  PROVE  HoldingsOK'
<1>0. OrdersOK /\ SalesCovered /\ PositionsOK
  BY DEF HoldingsOK
<1>1. Booked' = Booked /\ Traded' = Traded /\ Placed' = Placed
  BY DEF Booked, Traded, Placed
<1>2. \A p : Till(Traded, p)' = Till(Traded, p) /\ Till(Booked, p)' = Till(Booked, p)
  BY <1>1 DEF Till, NotAfter
<1>3. OrdersOK'
  <2>1. \A o \in Orders : orders[o].at \in Nat /\ orders[o].at <= now /\ now \in Nat
    BY <1>0 DEF OrdersOK, OrderRows
  <2>2. \A o \in Orders : orders'[o].at <= now'
    BY <2>1
  <2> QED BY <1>0, <1>1, <2>2 DEF OrdersOK
<1>4. SalesCovered'
  BY <1>0, <1>1, <1>2 DEF SalesCovered
<1>5. PositionsOK'
  BY <1>0, <1>1 DEF PositionsOK
<1> QED BY <1>3, <1>4, <1>5 DEF HoldingsOK

\* Every step keeps what was sold bought before.
LEMMA HoldingsStep ==
  ASSUME HoldingsOK, Next
  PROVE  HoldingsOK'
<1>0. now \in Nat
  BY DEF HoldingsOK, OrdersOK
<1>1. CASE Tick
  BY <1>0, <1>1, HoldingsFrame DEF Tick
<1>2. ASSUME NEW o \in Orders, Place(o) \/ Execute(o) \/ BookFill(o) PROVE HoldingsOK'
  BY <1>2, PlaceKeeps, ExecuteKeeps, BookKeeps
<1>3. ASSUME NEW amount \in Flows, Transfer(amount) PROVE HoldingsOK'
  BY <1>0, <1>3, HoldingsFrame DEF Transfer, market
<1>4. ASSUME NEW kind \in Kinds, Start(kind) PROVE HoldingsOK'
  BY <1>0, <1>4, HoldingsFrame DEF Start, market
<1>5. CASE Reading \/ Answer
  <2>1. orders' = orders /\ positions' = positions /\ now' = now
    <3>1. CASE Reading
      BY <3>1, Zenon DEF Reading, ReadFills, ReadLedger, ReadPositions, ReadOpenSells, ReadRealized, market
    <3>2. CASE Answer
      BY <3>2 DEF Answer, market
    <3> QED BY <1>5, <3>1, <3>2
  <2> QED BY <1>0, <2>1, HoldingsFrame
<1> QED BY <1>1, <1>2, <1>3, <1>4, <1>5 DEF Next

\* It is an invariant of the specification.
LEMMA HoldingsHold == FiguresSpec => []HoldingsOK
<1>1. FiguresInit => HoldingsOK
  BY HoldingsStart DEF FiguresInit
<1>2. ASSUME HoldingsOK, [FiguresNext]_figureVars PROVE HoldingsOK'
  <2>1. CASE Next
    BY <1>2, <2>1, HoldingsStep
  <2>2. CASE UNCHANGED vars
    <3>1. orders' = orders /\ positions' = positions /\ now' = now
      BY <2>2 DEF vars
    <3>2. now \in Nat
      BY <1>2 DEF HoldingsOK, OrdersOK
    <3> QED BY <1>2, <3>1, <3>2, HoldingsFrame
  <2> QED BY <1>2, <2>1, <2>2 DEF FiguresNext, figureVars
<1> QED BY <1>1, <1>2, PTL DEF FiguresSpec

--------------------------------------------------------------------------------
(* The replay against the books: what it holds, and what it earned.            *)

\* A replay that sold what it held, of the fills of a set of orders.
Dones == [book : [Symbols -> Position], realized : Int, over : BOOLEAN]
DoneOK(done, S) ==
  /\ done \in Dones /\ done.over = FALSE
  /\ \A sym \in Symbols : done.book[sym].qty = Net(S, sym) /\ done.book[sym].basis % UnitsPerCent = 0

\* A fill that is covered moves its own symbol's position, and what was realized.
LEMMA StepIs ==
  ASSUME NEW done \in Dones, done.over = FALSE, NEW fill, fill.sym \in Symbols,
         fill.side = "SELL" => ~(done.book[fill.sym].qty < fill.qty),
         Apply(done.book[fill.sym], fill) \in Position, Gain(done.book[fill.sym], fill) \in Int
  PROVE  /\ ReplayStep(done, fill) \in Dones /\ ReplayStep(done, fill).over = FALSE
         /\ ReplayStep(done, fill).book[fill.sym] = Apply(done.book[fill.sym], fill)
         /\ \A sym \in Symbols : sym # fill.sym => ReplayStep(done, fill).book[sym] = done.book[sym]
         /\ ReplayStep(done, fill).realized = done.realized + Gain(done.book[fill.sym], fill)
<1>1. PICK sym \in Symbols : sym = fill.sym
  OBVIOUS
<1>2. PICK position \in Position : position = Apply(done.book[fill.sym], fill)
  OBVIOUS
<1>3. PICK gain \in Int : gain = Gain(done.book[fill.sym], fill)
  OBVIOUS
<1>4. PICK next : next = [done EXCEPT !.book[sym] = position, !.realized = @ + gain]
  OBVIOUS
<1>5. ReplayStep(done, fill) = next
  BY <1>1, <1>2, <1>3, <1>4 DEF ReplayStep
<1>6. PICK book \in [Symbols -> Position] : book = [done.book EXCEPT ![sym] = position]
  BY Zenon DEF Dones
<1>7. PICK made \in Int : made = done.realized + gain
  BY DEF Dones
<1>8. next = [done EXCEPT !.book = book, !.realized = made]
  BY <1>4, <1>6, <1>7 DEF Dones
<1>9. next \in Dones /\ next.over = FALSE /\ next.book = book /\ next.realized = made
  BY <1>8, Zenon DEF Dones
<1>10. book[sym] = position /\ \A x \in Symbols : x # sym => book[x] = done.book[x]
  BY <1>6 DEF Dones
<1> QED BY <1>1, <1>2, <1>3, <1>5, <1>7, <1>9, <1>10

\* The booked fills follow one another.
LEMMA ChronoIsLinear ==
  ASSUME OrdersOK
  PROVE  Linear(Booked, Chrono) /\ IsFiniteSet(Booked) /\ Booked \in SUBSET Orders /\ Cardinality(Booked) \in Nat
<1>1. /\ IsFiniteSet(Booked) /\ Booked \in SUBSET Orders /\ Cardinality(Booked) \in Nat
  BY PortfolioAssumption, FS_Subset, FS_CardinalityType DEF Booked
<1>2. \A o \in Booked : orders[o].at \in Nat /\ orders[o].seq \in Nat
  BY <1>1 DEF OrdersOK, OrderRows
<1>3. \A o, p \in Booked : orders[o].seq = orders[p].seq => o = p
  BY DEF OrdersOK
<1>4. \A o, p \in Booked : <<o, p>> \in Chrono <=> Earlier(o, p)
  BY <1>1 DEF Chrono
<1>5. \A o \in Booked : ~Earlier(o, o)
  BY <1>2 DEF Earlier
<1>6. \A o, p \in Booked : o # p => Earlier(o, p) \/ Earlier(p, o)
  BY <1>2, <1>3 DEF Earlier
<1>7. \A o, p, q \in Booked : Earlier(o, p) /\ Earlier(p, q) => Earlier(o, q)
  BY <1>2 DEF Earlier
<1> QED BY <1>1, <1>4, <1>5, <1>6, <1>7 DEF Linear

\* What sells in its turn sells what it holds.
LEMMA TurnIsCovered ==
  ASSUME HoldingsOK, NEW o \in Booked, o.side = "SELL"
  PROVE  o.qty <= Net(Preceding(Booked, Chrono, o), o.sym)
<1>0. OrdersOK /\ SalesCovered
  BY DEF HoldingsOK
<1>1. PICK S : S = Preceding(Booked, Chrono, o)
  OBVIOUS
<1>2. Booked \in SUBSET Orders /\ Linear(Booked, Chrono)
  BY <1>0, ChronoIsLinear
<1>3. PICK sym \in Symbols : sym = o.sym
  BY <1>2, PortfolioAssumption
<1>4. \A p \in Booked : orders[p].state = "FILLED" /\ orders[p].at \in Nat /\ orders[p].seq \in Nat
  BY <1>0, <1>2 DEF OrdersOK, OrderRows, Booked
<1>5. Till(Booked, o) = S \cup {o}
  <2>1. \A p \in Booked : p # o => orders[p].seq # orders[o].seq
    BY <1>0 DEF OrdersOK
  <2>2. \A p \in Booked : NotAfter(p, o) <=> p = o \/ Earlier(p, o)
    BY <1>4, <2>1 DEF NotAfter, Earlier
  <2> QED BY <1>1, <1>2, <2>2 DEF Till, Preceding, Chrono
<1>6. o \notin S /\ S \in SUBSET Orders /\ o \in Orders /\ o \in Traded
  BY <1>1, <1>2, <1>4 DEF Linear, Preceding, Traded
<1>7. /\ Total(Buys(S, sym)) \in Nat /\ Total(Sells(S, sym)) \in Nat
      /\ Total(Buys(S \cup {o}, sym)) = Total(Buys(S, sym)) + (IF o.side = "BUY" /\ o.sym = sym THEN o.qty ELSE 0)
      /\ Total(Sells(S \cup {o}, sym)) = Total(Sells(S, sym)) + (IF o.side = "SELL" /\ o.sym = sym THEN o.qty ELSE 0)
  BY <1>6, OneMore, Zenon
<1>8. Total(Sells(Till(Traded, o), sym)) <= Total(Buys(Till(Booked, o), sym))
  BY <1>0, <1>6 DEF SalesCovered
<1>9. Total(Sells(Till(Booked, o), sym)) <= Total(Sells(Till(Traded, o), sym)) /\ Total(Sells(Till(Traded, o), sym)) \in Nat
  <2>1. Till(Booked, o) \in SUBSET Orders /\ Till(Traded, o) \in SUBSET Orders /\ Till(Booked, o) \subseteq Till(Traded, o)
    BY <1>2 DEF Till, Booked, Traded
  <2>2. Sells(Till(Traded, o), sym) \in SUBSET Orders
    BY <2>1 DEF Sells
  <2> QED BY <2>1, <2>2, MoreIsMore, Totals
<1>10. o.qty \in Nat /\ o.side # "BUY"
  BY <1>6, PortfolioAssumption
<1>11. PICK bought, sold, all \in Nat : bought = Total(Buys(S, sym)) /\ sold = Total(Sells(S, sym)) /\ all = Total(Sells(Till(Traded, o), sym))
  BY <1>7, <1>9
<1>12. sold + o.qty <= all /\ all <= bought
  BY <1>3, <1>5, <1>7, <1>8, <1>9, <1>10, <1>11
<1> QED BY <1>1, <1>3, <1>10, <1>11, <1>12 DEF Net

\* A turn of the replay.
LEMMA DoneSteps ==
  ASSUME HoldingsOK, NEW o \in Booked, NEW done, DoneOK(done, Preceding(Booked, Chrono, o))
  PROVE  DoneOK(ReplayStep(done, FillOf(o)), Preceding(Booked, Chrono, o) \cup {o})
<1>0. OrdersOK
  BY DEF HoldingsOK
<1>1. PICK S : S = Preceding(Booked, Chrono, o)
  OBVIOUS
<1>2. Booked \in SUBSET Orders /\ Linear(Booked, Chrono) /\ o \in Orders
  BY <1>0, ChronoIsLinear
<1>3. o \notin S /\ S \in SUBSET Orders
  BY <1>1, <1>2 DEF Linear, Preceding
<1>4. PICK fill : fill = FillOf(o)
  OBVIOUS
<1>5. /\ fill.sym = o.sym /\ fill.side = o.side /\ fill.qty = o.qty /\ fill.notional \in Int
      /\ fill.sym \in Symbols /\ fill.side \in {"BUY", "SELL"} /\ fill.qty \in Nat \ {0}
  BY <1>0, <1>2, <1>4, FillIs
<1>6. /\ done \in Dones /\ done.over = FALSE
      /\ \A sym \in Symbols : done.book[sym].qty = Net(S, sym) /\ done.book[sym].basis % UnitsPerCent = 0
  BY <1>1 DEF DoneOK
<1>7. PICK book \in [Symbols -> Position] : book = done.book
  BY <1>6 DEF Dones
<1>8. \A sym \in Symbols : book[sym].qty = Net(S, sym) /\ book[sym].basis % UnitsPerCent = 0
  BY <1>6, <1>7
<1>9. PICK position \in Position : position = book[fill.sym]
  BY <1>5
<1>10. position.qty = Net(S, fill.sym) /\ position.basis % UnitsPerCent = 0 /\ position.qty \in Int
  BY <1>5, <1>8, <1>9 DEF Position
<1>11. fill.side = "SELL" => fill.qty <= position.qty
  BY <1>1, <1>5, <1>10, TurnIsCovered, Zenon
<1>12. /\ Apply(position, fill) \in Position /\ Apply(position, fill).basis % UnitsPerCent = 0
       /\ Gain(position, fill) \in Int
       /\ Apply(position, fill).qty = position.qty + (IF fill.side = "BUY" THEN fill.qty ELSE -fill.qty)
  BY <1>5, <1>10, <1>11, AppliedIs
<1>13. PICK after \in Position : after = Apply(position, fill)
  BY <1>12
<1>14. PICK gain \in Int : gain = Gain(position, fill)
  BY <1>12
<1>15. PICK then : then = ReplayStep(done, fill)
  OBVIOUS
<1>16. /\ then \in Dones /\ then.over = FALSE /\ then.book[fill.sym] = after
       /\ \A sym \in Symbols : sym # fill.sym => then.book[sym] = book[sym]
  <2>1. fill.side = "SELL" => ~(position.qty < fill.qty)
    BY <1>5, <1>10, <1>11
  <2>2. position = done.book[fill.sym]
    BY <1>7, <1>9
  <2>3. /\ fill.sym \in Symbols /\ done \in Dones /\ done.over = FALSE
        /\ fill.side = "SELL" => ~(done.book[fill.sym].qty < fill.qty)
        /\ Apply(done.book[fill.sym], fill) = after /\ Gain(done.book[fill.sym], fill) = gain
    BY <1>5, <1>6, <1>13, <1>14, <2>1, <2>2
  <2>4. Apply(done.book[fill.sym], fill) \in Position /\ Gain(done.book[fill.sym], fill) \in Int
    BY <1>13, <1>14, <2>3
  <2>5. /\ ReplayStep(done, fill) \in Dones /\ ReplayStep(done, fill).over = FALSE
        /\ ReplayStep(done, fill).book[fill.sym] = Apply(done.book[fill.sym], fill)
        /\ \A sym \in Symbols : sym # fill.sym => ReplayStep(done, fill).book[sym] = done.book[sym]
    BY <2>3, <2>4, StepIs, Zenon
  <2> QED BY <1>7, <1>15, <2>3, <2>5
<1>17. ASSUME NEW sym \in Symbols PROVE then.book[sym].qty = Net(S \cup {o}, sym) /\ then.book[sym].basis % UnitsPerCent = 0
  <2>1. /\ Total(Buys(S, sym)) \in Nat /\ Total(Sells(S, sym)) \in Nat
        /\ Total(Buys(S \cup {o}, sym)) = Total(Buys(S, sym)) + (IF o.side = "BUY" /\ o.sym = sym THEN o.qty ELSE 0)
        /\ Total(Sells(S \cup {o}, sym)) = Total(Sells(S, sym)) + (IF o.side = "SELL" /\ o.sym = sym THEN o.qty ELSE 0)
    BY <1>2, <1>3, OneMore, Zenon
  <2>2. book[sym].qty = Total(Buys(S, sym)) - Total(Sells(S, sym)) /\ book[sym].basis % UnitsPerCent = 0
    BY <1>8 DEF Net
  <2>3. CASE sym = fill.sym
    <3>1. then.book[sym] = after /\ after.basis % UnitsPerCent = 0
      BY <1>5, <1>12, <1>13, <1>16, <2>3
    <3>2. after.qty = position.qty + (IF o.side = "BUY" THEN o.qty ELSE -o.qty) /\ position.qty = book[sym].qty
      BY <1>5, <1>9, <1>12, <1>13, <2>3
    <3>3. o.sym = sym /\ o.qty \in Nat /\ (o.side = "BUY" \/ o.side = "SELL")
      BY <1>5, <2>3
    <3> QED BY <2>1, <2>2, <3>1, <3>2, <3>3 DEF Net
  <2>4. CASE sym # fill.sym
    <3>1. then.book[sym] = book[sym] /\ o.sym # sym
      BY <1>5, <1>16, <2>4
    <3> QED BY <2>1, <2>2, <3>1 DEF Net
  <2> QED BY <2>3, <2>4
<1> QED BY <1>1, <1>4, <1>15, <1>16, <1>17, Zenon DEF DoneOK

\* The whole of it.
LEMMA ReplayIsDone ==
  ASSUME HoldingsOK
  PROVE  DoneOK(Replay(FillsChronological), Booked)
<1>0. OrdersOK
  BY DEF HoldingsOK
<1>1. Linear(Booked, Chrono) /\ IsFiniteSet(Booked) /\ Booked \in SUBSET Orders /\ Cardinality(Booked) \in Nat
  BY <1>0, ChronoIsLinear
<1>2. PICK n \in Nat : n = Cardinality(Booked)
  BY <1>1
<1>3. PICK fills : fills = FillsChronological
  OBVIOUS
<1>4. fills = [i \in 1 .. n |-> FillOf(AtPlace(Booked, Chrono, i))]
  <2>1. FillsChronological = [i \in 1 .. Cardinality(Booked) |-> FillOf(AtPlace(Booked, Chrono, i))]
    BY FillsAre, PTL
  <2> QED BY <1>2, <1>3, <2>1
<1>5. /\ After(fills, 0) = Empty /\ Replay(fills) = After(fills, n)
      /\ \A k \in 1 .. n : After(fills, k) = ReplayStep(After(fills, k - 1), fills[k])
  BY <1>4, ReplayRuns, Zenon
<1>6. First(Booked, Chrono, 0) = {} /\ First(Booked, Chrono, n) = Booked
  BY <1>1, <1>2, FirstsEnd
<1>7. DoneOK(Empty, {})
  <2>1. \A sym \in Symbols : Net({}, sym) = 0
    <3>1. \A sym : Buys({}, sym) = {} /\ Sells({}, sym) = {}
      BY DEF Buys, Sells
    <3>2. Total({}) = 0
      BY Totals
    <3> QED BY <3>1, <3>2 DEF Net
  <2>2. PICK book : book = [sym \in Symbols |-> Flat]
    BY Zenon
  <2>3. book \in [Symbols -> Position] /\ \A sym \in Symbols : book[sym].qty = 0 /\ book[sym].basis % UnitsPerCent = 0
    BY <2>2 DEF Flat, Position, UnitsPerCent
  <2>4. Empty \in Dones /\ Empty.over = FALSE /\ Empty.book = book
    BY <2>2, <2>3 DEF Empty, Dones
  <2> QED BY <2>1, <2>3, <2>4 DEF DoneOK
<1> DEFINE Q == {k \in 0 .. n : ~DoneOK(After(fills, k), First(Booked, Chrono, k))}
<1>8. ASSUME Q # {} PROVE FALSE
  <2>1. PICK k \in Q : \A j \in Q : k <= j
    <3>1. Q \in SUBSET Nat
      OBVIOUS
    <3> HIDE DEF Q
    <3> QED BY <1>8, <3>1, LeastNatural
  <2>2. k # 0
    BY <1>5, <1>6, <1>7, <2>1
  <2>3. k \in 1 .. n /\ k - 1 \in 0 .. n /\ k - 1 \notin Q
    BY <2>1, <2>2
  <2>4. PICK o : o = AtPlace(Booked, Chrono, k)
    OBVIOUS
  <2>5. /\ o \in Booked
        /\ First(Booked, Chrono, k - 1) = Preceding(Booked, Chrono, o)
        /\ First(Booked, Chrono, k) = First(Booked, Chrono, k - 1) \cup {o}
    BY <1>1, <1>2, <2>3, <2>4, FirstsGrow
  <2>6. DoneOK(After(fills, k - 1), Preceding(Booked, Chrono, o))
    BY <2>3, <2>5
  <2>7. After(fills, k) = ReplayStep(After(fills, k - 1), FillOf(o))
    BY <1>4, <1>5, <2>3, <2>4
  <2>8. DoneOK(ReplayStep(After(fills, k - 1), FillOf(o)), Preceding(Booked, Chrono, o) \cup {o})
    BY <2>5, <2>6, DoneSteps
  <2> QED BY <2>1, <2>3, <2>5, <2>7, <2>8, Zenon
<1>9. DoneOK(After(fills, n), First(Booked, Chrono, n))
  BY <1>2, <1>8
<1> QED BY <1>3, <1>5, <1>6, <1>9

Rows == [amount : Int, at : Nat, external : BOOLEAN]

\* A sequence with one element more.
LEMMA AppendIs ==
  ASSUME NEW S, NEW L \in Seq(S), NEW r \in S
  PROVE  /\ Append(L, r) \in Seq(S) /\ Len(L) \in Nat /\ DOMAIN L = 1 .. Len(L)
         /\ Len(Append(L, r)) = Len(L) + 1 /\ DOMAIN Append(L, r) = 1 .. Len(L) + 1
         /\ Append(L, r)[Len(L) + 1] = r /\ \A i \in 1 .. Len(L) : Append(L, r)[i] = L[i]
OBVIOUS

\* A sum with one row more.
LEMMA RowMore ==
  ASSUME NEW L \in Seq(Rows), NEW r \in Rows, NEW D \in SUBSET DOMAIN L
  PROVE  /\ SumOf(L, D) \in Int /\ SumOf(Append(L, r), D) = SumOf(L, D)
         /\ SumOf(Append(L, r), D \cup {Len(L) + 1}) = SumOf(L, D) + r.amount
<1>1. PICK n \in Nat : n = Len(L) /\ DOMAIN L = 1 .. n
  OBVIOUS
<1>2. PICK M \in Seq(Rows) : M = Append(L, r)
  BY AppendIs, Zenon
<1>3. Len(M) = n + 1 /\ DOMAIN M = 1 .. n + 1 /\ M[n + 1] = r /\ \A i \in 1 .. n : M[i] = L[i]
  BY <1>1, <1>2, AppendIs
<1>4. PICK T : T = D \cup {n + 1}
  BY Zenon
<1>5. IsFiniteSet(D) /\ IsFiniteSet(T) /\ n + 1 \notin D /\ D \in SUBSET (1 .. n)
  <2>1. IsFiniteSet(1 .. n + 1)
    BY <1>1, FS_Interval
  <2>2. D \in SUBSET (1 .. n + 1) /\ T \in SUBSET (1 .. n + 1)
    BY <1>1, <1>4
  <2>3. IsFiniteSet(D) /\ IsFiniteSet(T)
    BY <2>1, <2>2, FS_Subset, Zenon
  <2> QED BY <1>1, <2>3
<1>6. /\ \A i \in 1 .. n : L[i].amount \in Int
      /\ \A i \in 1 .. n + 1 : M[i].amount \in Int
  <2>1. \A i \in 1 .. n : L[i] \in Rows
    BY <1>1
  <2>2. \A i \in 1 .. n + 1 : M[i] \in Rows
    BY <1>1, <1>2, <1>3
  <2> QED BY <2>1, <2>2 DEF Rows
<1>7. PICK f : f = [i \in T |-> M[i].amount]
  BY Zenon
<1>8. (\A i \in T : f[i] \in Int) /\ D \in SUBSET T /\ T \in SUBSET T /\ n + 1 \in T /\ T \ {n + 1} = D
  BY <1>1, <1>4, <1>5, <1>6, <1>7
<1>9. SumFunctionOnSet(f, T) = f[n + 1] + SumFunctionOnSet(f, D) /\ SumFunctionOnSet(f, D) \in Int
  <2>1. SumFunctionOnSet(f, T) = f[n + 1] + SumFunctionOnSet(f, T \ {n + 1})
    BY <1>5, <1>8, SumRemove, SMTT(30)
  <2>2. SumFunctionOnSet(f, D) \in Int
    BY <1>5, <1>8, SumType
  <2> QED BY <1>8, <2>1, <2>2, Zenon
<1>10. SumOf(M, T) = SumFunctionOnSet(f, T)
  BY <1>7 DEF SumOf
<1>11. SumOf(L, D) = SumFunctionOnSet(f, D)
  <2>1. PICK g : g = [i \in D |-> L[i].amount]
    BY Zenon
  <2>2. \A i \in D : f[i] = g[i]
    BY <1>3, <1>5, <1>7, <1>8, <2>1
  <2>3. SumFunctionOnSet(f, D) = SumFunctionOnSet(g, D)
    BY <1>5, <2>2, SumSame
  <2> QED BY <2>1, <2>3 DEF SumOf
<1>12. SumOf(M, D) = SumFunctionOnSet(f, D)
  <2>1. PICK g : g = [i \in D |-> M[i].amount]
    BY Zenon
  <2>2. \A i \in D : f[i] = g[i]
    BY <1>7, <1>8, <2>1
  <2>3. SumFunctionOnSet(f, D) = SumFunctionOnSet(g, D)
    BY <1>5, <2>2, SumSame
  <2> QED BY <2>1, <2>3 DEF SumOf
<1>13. f[n + 1] = r.amount /\ r.amount \in Int
  BY <1>3, <1>7, <1>8 DEF Rows
<1>14. SumOf(M, T) = SumOf(L, D) + r.amount /\ SumOf(M, D) = SumOf(L, D) /\ SumOf(L, D) \in Int
  BY <1>9, <1>10, <1>11, <1>12, <1>13
<1> QED BY <1>1, <1>2, <1>4, <1>14

\* What was not paid in: the own cash.
Own(L) == Cash(L) - NetDeposits(L)

\* A row that is not paid in or out moves the own cash.
LEMMA OwnMore ==
  ASSUME NEW L \in Seq(Rows), NEW r \in Rows
  PROVE  /\ Append(L, r) \in Seq(Rows) /\ Own(L) \in Int
         /\ Own(Append(L, r)) = Own(L) + (IF r.external THEN 0 ELSE r.amount)
<1>1. PICK n \in Nat : n = Len(L) /\ DOMAIN L = 1 .. n
  OBVIOUS
<1>2. PICK M \in Seq(Rows) : M = Append(L, r)
  BY AppendIs, Zenon
<1>3. Len(M) = n + 1 /\ DOMAIN M = DOMAIN L \cup {n + 1} /\ M[n + 1] = r /\ \A i \in 1 .. n : M[i] = L[i]
  <2>1. /\ Len(M) = n + 1 /\ DOMAIN M = 1 .. n + 1
        /\ M[n + 1] = r /\ \A i \in 1 .. n : M[i] = L[i]
    BY <1>1, <1>2, AppendIs
  <2> QED BY <1>1, <2>1
<1>4. PICK D : D = {i \in DOMAIN L : L[i].external}
  BY Zenon
<1>5. {i \in DOMAIN M : M[i].external} = IF r.external THEN D \cup {n + 1} ELSE D
  <2>1. \A i \in DOMAIN M : M[i].external <=> IF i = n + 1 THEN r.external ELSE i \in D
    BY <1>1, <1>3, <1>4
  <2>2. n + 1 \notin D /\ D \subseteq DOMAIN L
    BY <1>1, <1>4
  <2> QED BY <1>3, <2>1, <2>2
<1>6. DOMAIN L \in SUBSET DOMAIN L /\ D \in SUBSET DOMAIN L
  BY <1>4
<1>7. /\ SumOf(L, DOMAIN L) \in Int /\ SumOf(L, D) \in Int
      /\ SumOf(M, DOMAIN L \cup {n + 1}) = SumOf(L, DOMAIN L) + r.amount
      /\ SumOf(M, D \cup {n + 1}) = SumOf(L, D) + r.amount /\ SumOf(M, D) = SumOf(L, D)
  BY <1>1, <1>2, <1>6, RowMore, ZenonT(30)
<1>8. Own(L) = SumOf(L, DOMAIN L) - SumOf(L, D)
  BY <1>4 DEF Own, Cash, NetDeposits
<1>9. Own(M) = SumOf(M, DOMAIN L \cup {n + 1}) - SumOf(M, IF r.external THEN D \cup {n + 1} ELSE D)
  BY <1>3, <1>5, Zenon DEF Own, Cash, NetDeposits
<1>10. r.amount \in Int
  BY DEF Rows
<1> QED BY <1>2, <1>7, <1>8, <1>9, <1>10

\* The positions' cost.
Basis(book) == SumFunctionOnSet([sym \in Symbols |-> book[sym].basis], Symbols)

\* One position moves the cost by what it moves itself.
LEMMA BasisMoves ==
  ASSUME NEW book \in [Symbols -> Position], NEW after \in [Symbols -> Position], NEW sym \in Symbols,
         \A x \in Symbols : x # sym => after[x] = book[x]
  PROVE  Basis(book) \in Int /\ Basis(after) - after[sym].basis = Basis(book) - book[sym].basis
<1>1. PICK f : f = [x \in Symbols |-> book[x].basis]
  BY Zenon
<1>2. PICK g : g = [x \in Symbols |-> after[x].basis]
  BY Zenon
<1>3. \A x \in Symbols : f[x] \in Int /\ g[x] \in Int
  BY <1>1, <1>2 DEF Position
<1>4. IsFiniteSet(Symbols) /\ IsFiniteSet(Symbols \ {sym}) /\ Symbols \in SUBSET Symbols
  BY PortfolioAssumption, FS_Subset
<1>5. \A x \in Symbols \ {sym} : f[x] = g[x]
  BY <1>1, <1>2
<1>6. SumFunctionOnSet(f, Symbols \ {sym}) = SumFunctionOnSet(g, Symbols \ {sym})
  BY <1>4, <1>5, SumSame
<1>7. SumFunctionOnSet(f, Symbols) = f[sym] + SumFunctionOnSet(f, Symbols \ {sym})
  BY <1>3, <1>4, SumRemove
<1>8. SumFunctionOnSet(g, Symbols) = g[sym] + SumFunctionOnSet(g, Symbols \ {sym})
  BY <1>3, <1>4, SumRemove
<1>9. SumFunctionOnSet(f, Symbols \ {sym}) \in Int
  <2>1. Symbols \ {sym} \in SUBSET Symbols
    OBVIOUS
  <2> QED BY <1>3, <1>4, <2>1, SumType
<1>10. f[sym] = book[sym].basis /\ g[sym] = after[sym].basis /\ f[sym] \in Int /\ g[sym] \in Int
  BY <1>1, <1>2, <1>3
<1>11. Basis(book) = SumFunctionOnSet(f, Symbols) /\ Basis(after) = SumFunctionOnSet(g, Symbols)
  BY <1>1, <1>2 DEF Basis
<1> QED BY <1>6, <1>7, <1>8, <1>9, <1>10, <1>11

\* Nothing held costs nothing.
LEMMA NoBasis ==
  ASSUME NEW book, \A sym \in Symbols : book[sym].basis = 0
  PROVE  Basis(book) = 0
<1>1. PICK f : f = [x \in Symbols |-> book[x].basis]
  BY Zenon
<1>2. \A x \in Symbols : f[x] \in Nat /\ f[x] \in Int /\ f[x] = 0
  BY <1>1
<1> DEFINE Q == {T \in SUBSET Symbols : SumFunctionOnSet(f, T) # 0}
<1>3. ASSUME Q # {} PROVE FALSE
  <2>1. PICK T \in Q : \A V \in Q : ~(V \subseteq T /\ V # T)
    <3>1. Q \in SUBSET (SUBSET Symbols) /\ IsFiniteSet(Symbols)
      BY PortfolioAssumption
    <3> HIDE DEF Q
    <3> QED BY <1>3, <3>1, Smallest
  <2>2. T \in SUBSET Symbols /\ IsFiniteSet(T) /\ IsFiniteSet(Symbols)
    BY <2>1, PortfolioAssumption, FS_Subset
  <2>3. T # {}
    BY <2>1, SumTurn, FS_EmptySet, Zenon
  <2>4. PICK x \in T : TRUE
    BY <2>3
  <2>5. T \ {x} \notin Q /\ T \ {x} \in SUBSET Symbols
    BY <2>1, <2>2
  <2>6. SumFunctionOnSet(f, T) = f[x] + SumFunctionOnSet(f, T \ {x})
    BY <1>2, <2>2, <2>4, SumRemove
  <2> QED BY <1>2, <2>1, <2>2, <2>4, <2>5, <2>6
<1>4. Symbols \in SUBSET Symbols
  OBVIOUS
<1>5. SumFunctionOnSet(f, Symbols) = 0
  BY <1>3, <1>4
<1> QED BY <1>1, <1>5 DEF Basis

\* What the ledger holds, and what was booked in order.
Matched == BookedInOrder => /\ Replay(FillsChronological).book = positions
                            /\ (Own(ledger) - Replay(FillsChronological).realized) * UnitsPerCent = -Basis(positions)
BooksOK == ledger \in Seq(Rows) /\ Matched

\* The second half of what the replay must agree on.
LEMMA MatchedIs ==
  Matched <=> (BookedInOrder => Replay(FillsChronological).book = positions /\ GainsMatchLedger)
BY DEF Matched, GainsMatchLedger, Own, Basis

\* As a fact of every state.
LEMMA ChronoAlways == [](OrdersOK => Linear(Booked, Chrono) /\ IsFiniteSet(Booked) /\ Booked \in SUBSET Orders)
<1>1. OrdersOK => Linear(Booked, Chrono) /\ IsFiniteSet(Booked) /\ Booked \in SUBSET Orders
  BY ChronoIsLinear
<1> QED BY <1>1, PTL

\* Orders that are not booked do not matter to the replay.
LEMMA FillsStay ==
  ASSUME OrdersOK, Booked' = Booked, \A p \in Booked : orders'[p] = orders[p]
  PROVE  FillsChronological' = FillsChronological /\ (BookedInOrder' <=> BookedInOrder)
<1>1. FillsChronological = [i \in 1 .. Cardinality(Booked) |-> FillOf(AtPlace(Booked, Chrono, i))]
  BY FillsAre, PTL
<1>2. (FillsChronological = [i \in 1 .. Cardinality(Booked) |-> FillOf(AtPlace(Booked, Chrono, i))])'
  BY FillsAre, PTL
<1>3. \A x \in Booked : \A y \in Booked : <<x, y>> \in Chrono <=> <<x, y>> \in Chrono'
  BY DEF Chrono, Earlier, Booked
<1>4. \A x \in Booked : Preceding(Booked, Chrono', x) = Preceding(Booked, Chrono, x)
  BY <1>3 DEF Preceding
<1>5. \A i : AtPlace(Booked', Chrono', i) = AtPlace(Booked, Chrono, i)
  BY <1>4 DEF AtPlace
<1>6. ASSUME NEW i \in 1 .. Cardinality(Booked)
      PROVE  FillOf(AtPlace(Booked, Chrono, i))' = FillOf(AtPlace(Booked, Chrono, i))
  <2>1. PICK x : x = AtPlace(Booked, Chrono, i)
    OBVIOUS
  <2>2. x \in Booked
    BY <2>1, ChronoIsLinear, PlacesTaken
  <2>3. AtPlace(Booked, Chrono, i)' = x
    BY <1>5, <2>1
  <2>4. orders'[x] = orders[x]
    BY <2>2
  <2> QED BY <2>1, <2>3, <2>4 DEF FillOf
<1>7. FillsChronological' = FillsChronological
  BY <1>1, <1>2, <1>6
<1>8. BookedInOrder' <=> BookedInOrder
  BY DEF BookedInOrder
<1> QED BY <1>7, <1>8

\* Sequences that agree on each element are one.
LEMMA SeqIs ==
  ASSUME NEW S, NEW P \in Seq(S), NEW Q \in Seq(S), Len(P) = Len(Q), \A i \in 1 .. Len(P) : P[i] = Q[i]
  PROVE  P = Q
<1>1. PICK n \in Nat : n = Len(P)
  OBVIOUS
<1>2. P \in [1 .. n -> S]
  BY <1>1
<1>3. Q \in [1 .. n -> S]
  BY <1>1
<1> QED BY <1>1, <1>2, <1>3

\* A row or two at the end of a sequence.
LEMMA ConcatIs ==
  ASSUME NEW S, NEW L \in Seq(S), NEW q \in S, NEW r \in S
  PROVE  L \o <<q>> = Append(L, q) /\ L \o <<q, r>> = Append(Append(L, q), r)
<1>1. L \o <<q>> = Append(L, q)
  OBVIOUS
<1>2. PICK M \in Seq(S) : M = Append(L, q)
  BY AppendIs, Zenon
<1>3. PICK N \in Seq(S) : N = Append(M, r)
  BY AppendIs, Zenon
<1>4. PICK n \in Nat : n = Len(L) /\ DOMAIN L = 1 .. n
  OBVIOUS
<1>5. Len(M) = n + 1 /\ M[n + 1] = q /\ \A i \in 1 .. n : M[i] = L[i]
  BY <1>2, <1>4, AppendIs
<1>6. Len(N) = n + 2 /\ N[n + 2] = r /\ \A i \in 1 .. n + 1 : N[i] = M[i]
  <2>1. Len(N) = Len(M) + 1 /\ N[Len(M) + 1] = r /\ \A i \in 1 .. Len(M) : N[i] = M[i]
    BY <1>3, AppendIs
  <2> QED BY <1>4, <1>5, <2>1
<1>7. PICK P : P = L \o <<q, r>>
  BY Zenon
<1>8. P \in Seq(S) /\ Len(P) = n + 2 /\ P[n + 1] = q /\ P[n + 2] = r /\ \A i \in 1 .. n : P[i] = L[i]
  <2>1. <<q, r>> \in Seq(S) /\ Len(<<q, r>>) = 2
    OBVIOUS
  <2> QED BY <1>4, <1>7, <2>1
<1>9. \A i \in 1 .. n + 2 : P[i] = N[i]
  <2>1. \A i \in 1 .. n : P[i] = N[i]
    BY <1>4, <1>5, <1>6, <1>8
  <2>2. P[n + 1] = N[n + 1]
    BY <1>4, <1>5, <1>6, <1>8, SMTT(30)
  <2> QED BY <1>4, <1>6, <1>8, <2>1, <2>2
<1>10. P = N
  <2>1. P \in Seq(S) /\ Len(P) = Len(N) /\ \A i \in 1 .. Len(P) : P[i] = N[i]
    BY <1>6, <1>8, <1>9
  <2> QED BY <2>1, SeqIs
<1> QED BY <1>1, <1>2, <1>3, <1>7, <1>10

\* What a fill brings in or costs, its fee included.
LEMMA LedgerOfFill ==
  ASSUME OrdersOK, ledger \in Seq(Rows), NEW o \in Orders, BookFill(o)
  PROVE  /\ ledger' \in Seq(Rows) /\ Own(ledger) \in Int
         /\ Own(ledger') = Own(ledger) + (IF o.side = "BUY" THEN -FillOf(o).notional ELSE FillOf(o).notional) - Fee
<1>0. now \in Nat /\ FillOf(o).notional \in Int /\ Fee \in Nat
  BY FillIs, PortfolioAssumption DEF OrdersOK
<1>1. PICK trade \in Int : trade = IF o.side = "BUY" THEN -FillOf(o).notional ELSE FillOf(o).notional
  BY <1>0
<1>2. PICK entries : entries = <<trade>> \o (IF Fee = 0 THEN << >> ELSE << -Fee >>)
  BY Zenon
<1>3. ledger' = ledger \o [i \in DOMAIN entries |-> [amount |-> entries[i], at |-> now, external |-> FALSE]]
  BY <1>1, <1>2 DEF BookFill
<1>4. PICK q \in Rows : q = [amount |-> trade, at |-> now, external |-> FALSE]
  BY <1>0, <1>1, Zenon DEF Rows
<1>a. PICK fee \in Int : fee = -Fee
  BY <1>0
<1>5. PICK r \in Rows : r = [amount |-> fee, at |-> now, external |-> FALSE]
  BY <1>0, Zenon DEF Rows
<1>6. q.amount = trade /\ ~q.external /\ r.amount = -Fee /\ ~r.external
  BY <1>4, <1>5, <1>a
<1>7. PICK L \in Seq(Rows) : L = Append(ledger, q)
  BY OwnMore, Zenon
<1>8. Own(ledger) \in Int /\ Own(L) = Own(ledger) + trade
  BY <1>6, <1>7, OwnMore
<1>9. Append(L, r) \in Seq(Rows) /\ Own(Append(L, r)) = Own(L) - Fee
  <2>1. Append(L, r) \in Seq(Rows) /\ Own(L) \in Int /\ Own(Append(L, r)) = Own(L) + (IF r.external THEN 0 ELSE r.amount)
    BY OwnMore
  <2> QED BY <1>0, <1>6, <2>1
<1> DEFINE made == [i \in DOMAIN entries |-> [amount |-> entries[i], at |-> now, external |-> FALSE]]
<1>10. CASE Fee = 0
  <2>1. entries = <<trade>>
    BY <1>2, <1>10
  <2>2. made = <<q>>
    <3>1. DOMAIN entries = 1 .. 1 /\ entries[1] = trade
      BY <2>1
    <3>a. \A i \in 1 .. 1 : entries[i] = trade
      BY <3>1
    <3>b. \A i \in 1 .. 1 : [amount |-> entries[i], at |-> now, external |-> FALSE] = q
      BY <1>4, <3>a, Zenon
    <3>2. made = [i \in 1 .. 1 |-> q]
      BY <3>1, <3>b
    <3>3. <<q>> = [i \in 1 .. 1 |-> q]
      OBVIOUS
    <3> QED BY <3>2, <3>3, Zenon
  <2>3. ledger' = L
    BY <1>3, <1>7, <2>2, ConcatIs
  <2> QED BY <1>0, <1>1, <1>7, <1>8, <1>10, <2>3
<1>11. CASE Fee # 0
  <2>1. DOMAIN entries = 1 .. 2 /\ entries[1] = trade /\ entries[2] = fee
    <3>0. PICK one : one = <<trade>>
      BY Zenon
    <3>1. one \in Seq(Int) /\ one = <<trade>>
      BY <3>0
    <3>2. Len(one) = 1 /\ one[1] = trade
      BY <3>1
    <3>3. entries = Append(one, fee)
      <4>1. entries = one \o <<fee>>
        BY <1>2, <1>11, <1>a, <3>1
      <4> QED BY <4>1, ConcatIs
    <3>4. DOMAIN entries = 1 .. Len(one) + 1 /\ entries[Len(one) + 1] = fee /\ \A i \in 1 .. Len(one) : entries[i] = one[i]
      BY <3>3, AppendIs
    <3> QED BY <3>2, <3>4
  <2>2. made = <<q, r>>
    <3>1. 1 .. 2 = {1, 2}
      OBVIOUS
    <3>a. [amount |-> entries[1], at |-> now, external |-> FALSE] = q /\ [amount |-> entries[2], at |-> now, external |-> FALSE] = r
      BY <1>4, <1>5, <2>1
    <3>b. \A i \in 1 .. 2 : [amount |-> entries[i], at |-> now, external |-> FALSE] = IF i = 1 THEN q ELSE r
      BY <3>1, <3>a, Zenon
    <3>2. made = [i \in 1 .. 2 |-> IF i = 1 THEN q ELSE r]
      BY <2>1, <3>b
    <3>3. <<q, r>> = [i \in 1 .. 2 |-> IF i = 1 THEN q ELSE r]
      OBVIOUS
    <3> QED BY <3>2, <3>3
  <2>3. ledger' = Append(L, r)
    BY <1>3, <1>7, <2>2, ConcatIs
  <2> QED BY <1>0, <1>1, <1>8, <1>9, <2>3
<1> QED BY <1>10, <1>11

\* Where no order is booked, no position changed and only money paid in or out moves.
LEMMA BooksStay ==
  ASSUME OrdersOK, BooksOK, Booked' = Booked, \A p \in Booked : orders'[p] = orders[p], positions' = positions,
         ledger' \in Seq(Rows), Own(ledger') = Own(ledger)
  PROVE  BooksOK'
<1>1. FillsChronological' = FillsChronological /\ (BookedInOrder' <=> BookedInOrder)
  BY FillsStay
<1> QED BY <1>1 DEF BooksOK, Matched

\* What is booked last of all is replayed last of all.
LEMMA FillsGrow ==
  ASSUME HoldingsOK, OrdersOK', NEW o \in Orders, BookFill(o), BookedInOrder'
  PROVE  BookedInOrder /\ Replay(FillsChronological)' = ReplayStep(Replay(FillsChronological), FillOf(o))
<1>0. OrdersOK
  BY DEF HoldingsOK
<1>1. /\ orders'[o].at = orders[o].at /\ orders'[o].px = orders[o].px
      /\ orders'[o].seq = Cardinality(Booked) + 1 /\ Cardinality(Booked) \in Nat
      /\ \A p \in Orders : p # o => orders'[p] = orders[p]
      /\ Booked' = Booked \cup {o} /\ o \notin Booked /\ Booked \in SUBSET Orders /\ IsFiniteSet(Booked)
      /\ orders' \in [Orders -> OrderRows]
  BY Books
<1>2. \A p \in Booked : p \in Booked' /\ orders'[p] = orders[p] /\ orders[p].seq \in 1 .. Cardinality(Booked)
  BY <1>0, <1>1 DEF OrdersOK
<1>3. BookedInOrder
  BY <1>2 DEF BookedInOrder
<1>4. \A p \in Booked : orders'[p].at <= orders'[o].at /\ orders'[p].seq < orders'[o].seq
  <2>1. \A p \in Booked : orders'[p].seq < orders'[o].seq
    BY <1>1, <1>2
  <2>2. o \in Booked'
    BY <1>1
  <2> QED BY <1>2, <2>1, <2>2 DEF BookedInOrder
<1>5. \A p \in Booked : <<p, o>> \in Chrono'
  <2>1. \A p \in Booked : orders'[p].at \in Nat /\ orders'[o].at \in Nat
    BY <1>1 DEF OrderRows
  <2> QED BY <1>1, <1>4, <2>1 DEF Chrono, Earlier
<1>6. \A p, q \in Booked : <<p, q>> \in Chrono' <=> <<p, q>> \in Chrono
  BY <1>1, <1>2 DEF Chrono, Earlier
<1>7. Linear(Booked, Chrono)
  BY <1>0, ChronoIsLinear
<1>8. (OrdersOK => Linear(Booked, Chrono) /\ IsFiniteSet(Booked) /\ Booked \in SUBSET Orders)'
  BY ChronoAlways, PTL
<1>9. Linear(Booked \cup {o}, Chrono')
  BY <1>1, <1>8
<1>10. PICK n \in Nat : n = Cardinality(Booked)
  BY <1>1
<1>11. PICK Q : Q = Chrono'
  OBVIOUS
<1>12. /\ Cardinality(Booked \cup {o}) = n + 1
       /\ \A i \in 1 .. n : AtPlace(Booked \cup {o}, Q, i) = AtPlace(Booked, Chrono, i)
       /\ AtPlace(Booked \cup {o}, Q, n + 1) = o
  BY <1>1, <1>5, <1>6, <1>7, <1>9, <1>10, <1>11, LastAppends
<1>13. PICK fills : fills = FillsChronological
  OBVIOUS
<1>14. PICK more : more = FillsChronological'
  OBVIOUS
<1>15. fills = [i \in 1 .. n |-> FillOf(AtPlace(Booked, Chrono, i))]
  <2>1. FillsChronological = [i \in 1 .. Cardinality(Booked) |-> FillOf(AtPlace(Booked, Chrono, i))]
    BY FillsAre, PTL
  <2> QED BY <1>10, <1>13, <2>1
<1>16. more = [i \in 1 .. n + 1 |-> FillOf(AtPlace(Booked, Chrono, i))']
  <2>1. (FillsChronological = [i \in 1 .. Cardinality(Booked) |-> FillOf(AtPlace(Booked, Chrono, i))])'
    BY FillsAre, PTL
  <2> QED BY <1>1, <1>12, <1>14, <2>1
<1>17. \A x \in Booked \cup {o} : orders'[x].at = orders[x].at /\ orders'[x].px = orders[x].px
  BY <1>1, <1>2
<1>18. ASSUME NEW i \in 1 .. n PROVE more[i] = fills[i]
  <2>1. PICK x : x = AtPlace(Booked, Chrono, i)
    OBVIOUS
  <2>2. x \in Booked
    BY <1>1, <1>7, <1>10, <2>1, PlacesTaken
  <2>3. AtPlace(Booked, Chrono, i)' = x
    BY <1>1, <1>11, <1>12, <2>1, Zenon
  <2>4. FillOf(AtPlace(Booked, Chrono, i))' = FillOf(x)
    BY <1>17, <2>2, <2>3 DEF FillOf
  <2> QED BY <1>15, <1>16, <2>1, <2>4
<1>19. more[n + 1] = FillOf(o)
  <2>1. AtPlace(Booked, Chrono, n + 1)' = o
    BY <1>1, <1>11, <1>12
  <2>2. FillOf(AtPlace(Booked, Chrono, n + 1))' = FillOf(o)
    BY <1>17, <2>1 DEF FillOf
  <2> QED BY <1>16, <2>2
<1>20. Replay(more) = ReplayStep(Replay(fills), more[n + 1])
  <2>1. DOMAIN fills = 1 .. n /\ DOMAIN more = 1 .. n + 1
    BY <1>15, <1>16
  <2> QED BY <1>18, <2>1, ReplayGrows
<1> QED BY <1>3, <1>13, <1>14, <1>19, <1>20

\* A fill booked in order moves the replay as it moves the position.
LEMMA BookMatches ==
  ASSUME HoldingsOK, HoldingsOK', BooksOK, NEW o \in Orders, BookFill(o)
  PROVE  BooksOK'
<1>0. OrdersOK /\ PositionsOK /\ OrdersOK' /\ PositionsOK'
  BY DEF HoldingsOK
<1>1. PICK fill : fill = FillOf(o)
  OBVIOUS
<1>2. /\ fill.sym = o.sym /\ fill.side = o.side /\ fill.qty = o.qty /\ fill.notional \in Int
      /\ fill.sym \in Symbols /\ fill.side \in {"BUY", "SELL"} /\ fill.qty \in Nat \ {0}
  BY <1>0, <1>1, FillIs
<1>3. /\ ledger' \in Seq(Rows) /\ Own(ledger) \in Int
      /\ Own(ledger') = Own(ledger) + (IF fill.side = "BUY" THEN -fill.notional ELSE fill.notional) - Fee
  <2>1. ledger \in Seq(Rows)
    BY DEF BooksOK
  <2> QED BY <1>0, <1>1, <1>2, <2>1, LedgerOfFill
<1>4. positions \in [Symbols -> Position] /\ positions' \in [Symbols -> Position]
  BY <1>0 DEF PositionsOK, Position
<1>5. PICK sym \in Symbols : sym = fill.sym /\ sym = o.sym
  BY <1>2
<1>6. positions' = [positions EXCEPT ![sym] = Apply(positions[sym], fill)]
  <2>1. positions' = [positions EXCEPT ![o.sym] = Apply(@, FillOf(o))]
    BY Books
  <2> QED BY <1>1, <1>5, <2>1
<1>7. positions'[sym] = Apply(positions[sym], fill) /\ \A x \in Symbols : x # sym => positions'[x] = positions[x]
  BY <1>4, <1>6
<1>8. PICK position \in Position : position = positions[sym]
  BY <1>4
<1>9. position.basis % UnitsPerCent = 0 /\ position.basis \in Int
  BY <1>0, <1>8 DEF PositionsOK, Position
<1>10. fill.side = "SELL" => fill.qty <= position.qty
  <2>1. o \in Placed /\ o \notin Booked
    BY Books DEF Placed
  <2> QED BY <1>2, <1>5, <1>8, <2>1, FillIsCovered, Zenon
<1>11. /\ Gain(position, fill) \in Int /\ Apply(position, fill) \in Position
       /\ Apply(position, fill).basis = position.basis + UnitsPerCent *
            (Gain(position, fill) + Fee + (IF fill.side = "BUY" THEN fill.notional ELSE -fill.notional))
  BY <1>2, <1>9, <1>10, AppliedIs
<1>12. Basis(positions) \in Int /\ Basis(positions') - positions'[sym].basis = Basis(positions) - position.basis
  BY <1>4, <1>7, <1>8, BasisMoves
<1>13. Basis(positions') \in Int
  BY <1>4, BasisMoves
<1>14. ASSUME BookedInOrder'
       PROVE  /\ Replay(FillsChronological)'.book = positions'
              /\ (Own(ledger') - Replay(FillsChronological)'.realized) * UnitsPerCent = -Basis(positions')
  <2>1. PICK done : done = Replay(FillsChronological)
    OBVIOUS
  <2>2. BookedInOrder /\ Replay(FillsChronological)' = ReplayStep(done, fill)
    BY <1>0, <1>1, <1>14, <2>1, FillsGrow
  <2>3. done \in Dones /\ done.over = FALSE
    BY <2>1, ReplayIsDone, Zenon DEF DoneOK
  <2>4. done.book = positions /\ (Own(ledger) - done.realized) * UnitsPerCent = -Basis(positions)
    BY <2>1, <2>2 DEF BooksOK, Matched
  <2>5. done.book[fill.sym] = position /\ done.realized \in Int
    BY <1>5, <1>8, <2>3, <2>4 DEF Dones
  <2>6. fill.side = "SELL" => ~(position.qty < fill.qty)
    BY <1>2, <1>8, <1>10 DEF Position
  <2>7. PICK after : after = ReplayStep(done, fill)
    OBVIOUS
  <2>8. /\ after \in Dones /\ after.book[fill.sym] = Apply(position, fill)
        /\ \A x \in Symbols : x # fill.sym => after.book[x] = done.book[x]
        /\ after.realized = done.realized + Gain(position, fill)
    <3>1. /\ fill.sym \in Symbols
          /\ fill.side = "SELL" => ~(done.book[fill.sym].qty < fill.qty)
          /\ Apply(done.book[fill.sym], fill) \in Position /\ Gain(done.book[fill.sym], fill) \in Int
      BY <1>2, <1>11, <2>5, <2>6
    <3>2. /\ ReplayStep(done, fill) \in Dones
          /\ ReplayStep(done, fill).book[fill.sym] = Apply(done.book[fill.sym], fill)
          /\ \A x \in Symbols : x # fill.sym => ReplayStep(done, fill).book[x] = done.book[x]
          /\ ReplayStep(done, fill).realized = done.realized + Gain(done.book[fill.sym], fill)
      BY <2>3, <3>1, StepIs, Zenon
    <3> QED BY <2>5, <2>7, <3>2
  <2>9. after.book = positions'
    <3>1. after.book \in [Symbols -> Position]
      BY <2>8 DEF Dones
    <3>2. \A x \in Symbols : after.book[x] = positions'[x]
      BY <1>5, <1>7, <1>8, <2>4, <2>8
    <3> QED BY <1>4, <3>1, <3>2
  <2>10. (Own(ledger') - after.realized) * UnitsPerCent = -Basis(positions')
    <3>1. PICK gain, own, realized, basis, old, cost \in Int :
            /\ gain = Gain(position, fill) /\ own = Own(ledger) /\ realized = done.realized
            /\ basis = Basis(positions) /\ old = position.basis
            /\ cost = Fee + (IF fill.side = "BUY" THEN fill.notional ELSE -fill.notional)
      <4>1. Fee + (IF fill.side = "BUY" THEN fill.notional ELSE -fill.notional) \in Int
        BY <1>2, PortfolioAssumption
      <4> QED BY <1>3, <1>9, <1>11, <1>12, <2>5, <4>1, Zenon
    <3>2. Own(ledger') = own - cost
      BY <1>2, <1>3, <3>1, PortfolioAssumption, SMTT(30)
    <3>3. after.realized = realized + gain
      BY <2>8, <3>1
    <3>4. positions'[sym].basis = old + UnitsPerCent * (gain + cost)
      <4>1. Gain(position, fill) + Fee + (IF fill.side = "BUY" THEN fill.notional ELSE -fill.notional) = gain + cost
        BY <1>2, <3>1, PortfolioAssumption
      <4> QED BY <1>7, <1>8, <1>11, <3>1, <4>1
    <3>5. UnitsPerCent = 100
      BY DEF UnitsPerCent
    <3>6. (own - realized) * 100 = -basis
      BY <2>4, <3>1, <3>5
    <3>7. Basis(positions') = basis + 100 * (gain + cost)
      <4>1. PICK change \in Int : change = 100 * (gain + cost)
        OBVIOUS
      <4>2. PICK total \in Int : total = Basis(positions')
        BY <1>13
      <4>3. PICK new : new = positions'[sym].basis
        OBVIOUS
      <4>4. new = old + change
        BY <3>4, <3>5, <4>1, <4>3
      <4>5. total - new = basis - old
        BY <1>12, <3>1, <4>2, <4>3
      <4>6. total = basis + change
        BY <4>4, <4>5
      <4> QED BY <4>1, <4>2, <4>6
    <3>8. ((own - cost) - (realized + gain)) * 100 = -(basis + 100 * (gain + cost))
      BY <3>6
    <3> QED BY <3>2, <3>3, <3>5, <3>7, <3>8
  <2> QED BY <2>2, <2>7, <2>9, <2>10
<1> QED BY <1>3, <1>14 DEF BooksOK, Matched

\* The opening deposit is paid in, and nothing is held.
LEMMA BooksStart ==
  ASSUME Init
  PROVE  BooksOK
<1>1. /\ orders = [o \in Orders |-> Unplaced] /\ positions = [sym \in Symbols |-> Flat]
      /\ ledger = <<[amount |-> Opening, at |-> 0, external |-> TRUE]>>
  BY DEF Init
<1>2. PICK row1 \in Rows : row1 = [amount |-> Opening, at |-> 0, external |-> TRUE]
  BY PortfolioAssumption, Zenon DEF Rows
<1>a. << >> \in Seq(Rows)
  OBVIOUS
<1>3. PICK none \in Seq(Rows) : none = << >>
  BY <1>a, Zenon
<1>4. ledger = Append(none, row1)
  BY <1>1, <1>2, <1>3
<1>5. ledger \in Seq(Rows) /\ Own(ledger) = Own(none) /\ Own(none) \in Int
  <2>1. row1.external
    BY <1>2
  <2>2. Append(none, row1) \in Seq(Rows) /\ Own(none) \in Int /\ Own(Append(none, row1)) = Own(none) + (IF row1.external THEN 0 ELSE row1.amount)
    BY OwnMore
  <2> QED BY <1>4, <2>1, <2>2
<1>6. Own(none) = 0
  <2>1. DOMAIN none = {} /\ {i \in DOMAIN none : none[i].external} = {}
    BY <1>3
  <2>2. Own(none) = SumOf(none, {}) - SumOf(none, {})
    BY <2>1 DEF Own, Cash, NetDeposits
  <2>3. SumOf(none, {}) = 0
    BY SumTurn, FS_EmptySet, Zenon DEF SumOf
  <2> QED BY <2>2, <2>3
<1>7. Booked = {}
  BY <1>1 DEF Booked, Unplaced
<1>8. PICK fills : fills = FillsChronological
  OBVIOUS
<1>9. Replay(fills) = Empty
  <2>1. FillsChronological = [i \in 1 .. Cardinality(Booked) |-> FillOf(AtPlace(Booked, Chrono, i))]
    BY FillsAre, PTL
  <2>2. Cardinality(Booked) = 0
    BY <1>7, FS_EmptySet
  <2>3. DOMAIN fills = 1 .. 0
    BY <1>8, <2>1, <2>2
  <2>4. 0 \in Nat
    OBVIOUS
  <2> QED BY <2>3, <2>4, ReplayRuns
<1>10. Empty.book = positions /\ Empty.realized = 0
  BY <1>1 DEF Empty
<1>11. Basis(positions) = 0
  BY <1>1, NoBasis DEF Flat
<1>12. PICK zero \in Int : zero = 0
  OBVIOUS
<1>13. (zero - zero) * UnitsPerCent = -zero
  <2>1. UnitsPerCent = 100
    BY DEF UnitsPerCent
  <2>2. zero - zero = 0
    BY <1>12
  <2>3. (zero - zero) * UnitsPerCent = 0
    BY <2>1, <2>2
  <2>4. -zero = 0
    <3>1. \A x \in Int : x <= 0 /\ 0 <= x => -x = 0
      OBVIOUS
    <3>2. zero <= 0 /\ 0 <= zero
      BY <1>12
    <3> QED BY <3>1, <3>2
  <2> QED BY <2>3, <2>4
<1> QED BY <1>5, <1>6, <1>8, <1>9, <1>10, <1>11, <1>12, <1>13 DEF BooksOK, Matched

\* Every step keeps the books and the replay together.
LEMMA BooksStep ==
  ASSUME HoldingsOK, HoldingsOK', BooksOK, Next
  PROVE  BooksOK'
<1>0. OrdersOK /\ ledger \in Seq(Rows) /\ now \in Nat
  BY DEF HoldingsOK, BooksOK, OrdersOK
<1>1. ASSUME orders' = orders, positions' = positions, ledger' = ledger PROVE BooksOK'
  <2>1. Booked' = Booked /\ \A p \in Booked : orders'[p] = orders[p]
    BY <1>1 DEF Booked
  <2>2. ledger' \in Seq(Rows) /\ Own(ledger') = Own(ledger)
    BY <1>0, <1>1
  <2> QED BY <1>0, <1>1, <2>1, <2>2, BooksStay
<1>2. CASE Tick
  BY <1>1, <1>2 DEF Tick
<1>3. ASSUME NEW o \in Orders, Place(o) \/ Execute(o) PROVE BooksOK'
  <2>1. /\ positions' = positions /\ ledger' = ledger
        /\ orders[o].state # "FILLED" /\ orders'[o].state # "FILLED"
        /\ \A p \in Orders : p # o => orders'[p] = orders[p]
    <3>1. CASE Place(o)
      <4>1. /\ positions' = positions /\ ledger' = ledger /\ orders[o].state = "NONE"
            /\ orders' = [orders EXCEPT ![o].state = "OPEN"]
        BY <3>1 DEF Place
      <4>2. orders'[o].state = "OPEN" /\ \A p \in Orders : p # o => orders'[p] = orders[p]
        BY <1>0, <4>1 DEF OrdersOK, OrderRows
      <4> QED BY <4>1, <4>2
    <3>2. CASE Execute(o)
      <4>1. /\ positions' = positions /\ ledger' = ledger /\ orders[o].state = "OPEN"
            /\ \E px \in Nat : orders' = [orders EXCEPT ![o].state = "EXECUTED", ![o].px = px, ![o].at = now]
        BY <3>2, PortfolioAssumption, Zenon DEF Execute
      <4>2. PICK px \in Nat : orders' = [orders EXCEPT ![o].state = "EXECUTED", ![o].px = px, ![o].at = now]
        BY <4>1, Zenon
      <4>3. orders'[o].state = "EXECUTED" /\ \A p \in Orders : p # o => orders'[p] = orders[p]
        BY <1>0, <4>2 DEF OrdersOK, OrderRows
      <4> QED BY <4>1, <4>3, Zenon
    <3> QED BY <1>3, <3>1, <3>2
  <2>2. Booked' = Booked /\ \A p \in Booked : orders'[p] = orders[p]
    BY <2>1 DEF Booked
  <2>3. ledger' \in Seq(Rows) /\ Own(ledger') = Own(ledger)
    BY <1>0, <2>1
  <2> QED BY <1>0, <2>1, <2>2, <2>3, BooksStay
<1>4. ASSUME NEW o \in Orders, BookFill(o) PROVE BooksOK'
  BY <1>4, BookMatches
<1>5. ASSUME NEW amount \in Flows, Transfer(amount) PROVE BooksOK'
  <2>1. PICK added \in Rows : added = [amount |-> amount, at |-> now, external |-> TRUE]
    <3>1. amount \in Int
      BY PortfolioAssumption
    <3> QED BY <1>0, <3>1, Zenon DEF Rows
  <2>2. orders' = orders /\ positions' = positions /\ ledger' = Append(ledger, added)
    BY <1>5, <2>1 DEF Transfer
  <2>3. added.external
    BY <2>1
  <2>4. Append(ledger, added) \in Seq(Rows) /\ Own(ledger) \in Int /\ Own(Append(ledger, added)) = Own(ledger) + (IF added.external THEN 0 ELSE added.amount)
    BY <1>0, OwnMore
  <2>5. ledger' \in Seq(Rows) /\ Own(ledger') = Own(ledger)
    BY <2>2, <2>3, <2>4
  <2>6. Booked' = Booked /\ \A p \in Booked : orders'[p] = orders[p]
    BY <2>2 DEF Booked
  <2> QED BY <1>0, <2>2, <2>5, <2>6, BooksStay
<1>6. ASSUME NEW kind \in Kinds, Start(kind) PROVE BooksOK'
  BY <1>1, <1>6 DEF Start
<1>7. CASE Reading \/ Answer
  <2>1. CASE Reading
    BY <1>1, <2>1, Zenon DEF Reading, ReadFills, ReadLedger, ReadPositions, ReadOpenSells, ReadRealized
  <2>2. CASE Answer
    BY <1>1, <2>2 DEF Answer
  <2> QED BY <1>7, <2>1, <2>2
<1> QED BY <1>2, <1>3, <1>4, <1>5, <1>6, <1>7 DEF Next

\* It is an invariant of the specification.
LEMMA BooksHold == FiguresSpec => []BooksOK
<1>1. FiguresInit => BooksOK
  BY BooksStart DEF FiguresInit
<1>2. ASSUME HoldingsOK, HoldingsOK', BooksOK, [FiguresNext]_figureVars PROVE BooksOK'
  <2>1. CASE Next
    BY <1>2, <2>1, BooksStep
  <2>2. CASE UNCHANGED vars
    <3>1. orders' = orders /\ positions' = positions /\ ledger' = ledger
      BY <2>2 DEF vars
    <3>2. OrdersOK /\ ledger \in Seq(Rows)
      BY <1>2 DEF HoldingsOK, BooksOK
    <3>3. Booked' = Booked /\ \A p \in Booked : orders'[p] = orders[p]
      BY <3>1 DEF Booked
    <3>4. ledger' \in Seq(Rows) /\ Own(ledger') = Own(ledger)
      BY <3>1, <3>2
    <3> QED BY <1>2, <3>1, <3>2, <3>3, <3>4, BooksStay
  <2> QED BY <1>2, <2>1, <2>2 DEF FiguresNext, figureVars
<1> QED BY <1>1, <1>2, HoldingsHold, PTL DEF FiguresSpec

\* However late and in whatever order fills are booked, the replay in the order
\* they occurred never sells what is not held and leaves the quantities booked;
\* booked in order, it leaves the same basis, and the ledger accounts for the gains.
THEOREM ReplaysAgree == FiguresSpec => []ReplayAgrees
<1>1. ASSUME HoldingsOK, BooksOK PROVE ReplayAgrees
  <2>1. PICK done : done = Replay(FillsChronological)
    OBVIOUS
  <2>2. done.over = FALSE /\ \A sym \in Symbols : done.book[sym].qty = Net(Booked, sym)
    BY <1>1, <2>1, ReplayIsDone, Zenon DEF DoneOK
  <2>3. \A sym \in Symbols : positions[sym].qty = Net(Booked, sym)
    BY <1>1 DEF HoldingsOK, PositionsOK
  <2>4. BookedInOrder => done.book = positions /\ GainsMatchLedger
    BY <1>1, <2>1, MatchedIs DEF BooksOK
  <2> QED BY <2>1, <2>2, <2>3, <2>4 DEF ReplayAgrees
<1> QED BY <1>1, HoldingsHold, BooksHold, PTL

--------------------------------------------------------------------------------
(* The series drawn: sums, the grid of instants, and the close carried.        *)

\* A sum of nothing but zeros.
LEMMA SumZeros ==
  ASSUME NEW f, NEW S, IsFiniteSet(S), \A x \in S : f[x] = 0
  PROVE  SumFunctionOnSet(f, S) = 0
<1> DEFINE Q == {T \in SUBSET S : SumFunctionOnSet(f, T) # 0}
<1>1. ASSUME Q # {} PROVE FALSE
  <2>1. PICK T \in Q : \A V \in Q : ~(V \subseteq T /\ V # T)
    <3>1. Q \in SUBSET (SUBSET S)
      OBVIOUS
    <3> HIDE DEF Q
    <3> QED BY <1>1, <3>1, Smallest
  <2>2. T \in SUBSET S /\ IsFiniteSet(T)
    BY <2>1, FS_Subset
  <2>3. T # {}
    BY <2>1, SumTurn, FS_EmptySet, Zenon
  <2>4. PICK x \in T : TRUE
    BY <2>3
  <2>5. T \ {x} \notin Q /\ T \ {x} \in SUBSET S
    BY <2>1, <2>2
  <2>6. SumFunctionOnSet(f, T) = f[x] + SumFunctionOnSet(f, T \ {x})
    <3>1. \A y \in S : f[y] \in Int
      OBVIOUS
    <3> QED BY <2>2, <2>4, <3>1, SumRemove
  <2> QED BY <2>1, <2>2, <2>4, <2>5, <2>6
<1>2. S \in SUBSET S
  OBVIOUS
<1> QED BY <1>1, <1>2

\* What is zero elsewhere adds nothing.
LEMMA SumSupport ==
  ASSUME NEW f, NEW S, IsFiniteSet(S), \A x \in S : f[x] \in Int,
         NEW H \in SUBSET S, \A x \in S \ H : f[x] = 0
  PROVE  SumFunctionOnSet(f, S) = SumFunctionOnSet(f, H)
<1>1. H \cap (S \ H) = {} /\ H \cup (S \ H) = S /\ S \ H \in SUBSET S /\ IsFiniteSet(S \ H)
  BY FS_Subset
<1>2. SumFunctionOnSet(f, H \cup (S \ H)) = SumFunctionOnSet(f, H) + SumFunctionOnSet(f, S \ H)
  BY <1>1, SumApart
<1>3. SumFunctionOnSet(f, S \ H) = 0
  BY <1>1, SumZeros
<1>4. SumFunctionOnSet(f, H) \in Int
  BY SumType
<1>5. SumFunctionOnSet(f, S) = SumFunctionOnSet(f, H) + SumFunctionOnSet(f, S \ H)
  <2>1. PICK W : W = H \cup (S \ H)
    OBVIOUS
  <2>2. SumFunctionOnSet(f, W) = SumFunctionOnSet(f, H) + SumFunctionOnSet(f, S \ H)
    BY <1>2, <2>1
  <2>3. W = S
    BY <2>1
  <2> QED BY <2>2, <2>3
<1> QED BY <1>3, <1>4, <1>5

\* A sum counted off the other side.
LEMMA SumNegated ==
  ASSUME NEW f, NEW g, NEW S, IsFiniteSet(S), \A x \in S : f[x] \in Int /\ g[x] = -f[x]
  PROVE  SumFunctionOnSet(f, S) \in Int /\ SumFunctionOnSet(g, S) = -SumFunctionOnSet(f, S)
<1>0. /\ \A x \in S : f[x] \in Int /\ g[x] \in Int
      /\ \A T \in SUBSET S : SumFunctionOnSet(f, T) \in Int
  <2>1. \A x \in S : f[x] \in Int /\ g[x] \in Int
    OBVIOUS
  <2> QED BY <2>1, SumType
<1> DEFINE Q == {T \in SUBSET S : SumFunctionOnSet(f, T) + SumFunctionOnSet(g, T) # 0}
<1>1. ASSUME Q # {} PROVE FALSE
  <2>1. PICK T \in Q : \A V \in Q : ~(V \subseteq T /\ V # T)
    <3>1. Q \in SUBSET (SUBSET S)
      OBVIOUS
    <3> HIDE DEF Q
    <3> QED BY <1>1, <3>1, Smallest
  <2>2. T \in SUBSET S /\ IsFiniteSet(T)
    BY <2>1, FS_Subset
  <2>3. T # {}
    <3>1. SumFunctionOnSet(f, {}) = 0 /\ SumFunctionOnSet(g, {}) = 0
      BY SumTurn, FS_EmptySet, Zenon
    <3>2. SumFunctionOnSet(f, {}) + SumFunctionOnSet(g, {}) = 0
      BY <3>1
    <3>3. SumFunctionOnSet(f, T) + SumFunctionOnSet(g, T) # 0
      BY <2>1
    <3> QED BY <3>2, <3>3, Zenon
  <2>4. PICK x \in T : TRUE
    BY <2>3
  <2>5. T \ {x} \notin Q /\ T \ {x} \in SUBSET S
    BY <2>1, <2>2
  <2>6. SumFunctionOnSet(f, T) = f[x] + SumFunctionOnSet(f, T \ {x})
    BY <1>0, <2>2, <2>4, SumRemove
  <2>7. SumFunctionOnSet(g, T) = g[x] + SumFunctionOnSet(g, T \ {x})
    BY <1>0, <2>2, <2>4, SumRemove
  <2>8. SumFunctionOnSet(g, T \ {x}) \in Int /\ SumFunctionOnSet(f, T \ {x}) \in Int
    BY <1>0, <2>5, SumType
  <2>9. SumFunctionOnSet(f, T \ {x}) + SumFunctionOnSet(g, T \ {x}) = 0
    BY <2>5
  <2>10. f[x] + g[x] = 0 /\ f[x] \in Int /\ g[x] \in Int
    BY <1>0, <2>2, <2>4
  <2> QED BY <2>1, <2>6, <2>7, <2>8, <2>9, <2>10
<1>2. S \in SUBSET S
  OBVIOUS
<1>3. SumFunctionOnSet(f, S) + SumFunctionOnSet(g, S) = 0
  BY <1>1, <1>2
<1>4. SumFunctionOnSet(g, S) \in Int
  BY <1>0, <1>2, SumType
<1> QED BY <1>0, <1>2, <1>3, <1>4

\* A sum by other names: m renames the members of P, whose terms g are those of f.
Renames(P, m, U, g, f) ==
  /\ IsFiniteSet(P) /\ \A x, y \in P : m[x] = m[y] => x = y
  /\ \A z : z \in U <=> \E x \in P : z = m[x]
  /\ \A x \in P : g[x] = f[m[x]] /\ g[x] \in Int

\* A sum counted off another set, element for element.
LEMMA SumMoved ==
  ASSUME NEW P, NEW m, NEW U, NEW g, NEW f, Renames(P, m, U, g, f)
  PROVE  SumFunctionOnSet(g, P) = SumFunctionOnSet(f, U)
<1>0. /\ IsFiniteSet(P) /\ \A x, y \in P : m[x] = m[y] => x = y
      /\ \A z : z \in U <=> \E x \in P : z = m[x]
      /\ \A x \in P : g[x] = f[m[x]] /\ g[x] \in Int
  BY DEF Renames
<1> DEFINE To(T) == {m[x] : x \in T}
           Q == {T \in SUBSET P : SumFunctionOnSet(g, T) # SumFunctionOnSet(f, To(T))}
<1>1. ASSUME Q # {} PROVE FALSE
  <2>1. PICK T \in Q : \A V \in Q : ~(V \subseteq T /\ V # T)
    <3>1. Q \in SUBSET (SUBSET P)
      OBVIOUS
    <3> HIDE DEF Q
    <3> QED BY <1>0, <1>1, <3>1, Smallest
  <2>2. T \in SUBSET P /\ IsFiniteSet(T) /\ IsFiniteSet(To(T))
    <3>1. T \in SUBSET P /\ IsFiniteSet(T)
      BY <1>0, <2>1, FS_Subset
    <3>2. PICK h : h = [x \in T |-> m[x]]
      BY Zenon
    <3>3. PICK W : W = {m[x] : x \in T}
      OBVIOUS
    <3>4. h \in Surjection(T, W)
      BY <3>2, <3>3 DEF Surjection
    <3>5. IsFiniteSet(W)
      BY <3>1, <3>4, FS_Surjection
    <3> QED BY <3>1, <3>3, <3>5
  <2>3. T # {}
    <3>1. To({}) = {}
      OBVIOUS
    <3> QED BY <2>1, <3>1, SumTurn, FS_EmptySet, Zenon
  <2>4. PICK x \in T : TRUE
    BY <2>3
  <2>5. T \ {x} \notin Q /\ T \ {x} \in SUBSET P
    BY <2>1, <2>2
  <2>6. SumFunctionOnSet(g, T) = g[x] + SumFunctionOnSet(g, T \ {x})
    BY <1>0, <2>2, <2>4, SumRemove
  <2>7. SumFunctionOnSet(f, To(T)) = f[m[x]] + SumFunctionOnSet(f, To(T) \ {m[x]})
    <3>1. \A z \in To(T) : f[z] \in Int
      BY <1>0, <2>2
    <3>2. m[x] \in To(T) /\ To(T) \in SUBSET To(T)
      BY <2>4
    <3> HIDE DEF To
    <3> QED BY <2>2, <3>1, <3>2, SumRemove
  <2>8. To(T) \ {m[x]} = To(T \ {x})
    BY <1>0, <2>2, <2>4
  <2>9. SumFunctionOnSet(g, T \ {x}) = SumFunctionOnSet(f, To(T \ {x}))
    BY <2>5
  <2>10. g[x] = f[m[x]]
    BY <1>0, <2>2, <2>4
  <2>11. SumFunctionOnSet(g, T) = SumFunctionOnSet(f, To(T))
    BY <2>6, <2>7, <2>8, <2>9, <2>10, Zenon
  <2> QED BY <2>1, <2>11
<1>2. P \in SUBSET P /\ U = To(P)
  BY <1>0
<1> QED BY <1>1, <1>2, Zenon

\* The greatest of some numbers that are not above a bound.
LEMMA GreatestIs ==
  ASSUME NEW S \in SUBSET Nat, S # {}, NEW n \in Nat, \A x \in S : x <= n
  PROVE  Max(S) \in S /\ \A x \in S : x <= Max(S)
<1>1. PICK Q : Q = {n - x : x \in S}
  BY Zenon
<1>2. Q \in SUBSET Nat /\ Q # {}
  <2>1. \A x \in S : n - x \in Nat
    <3>1. \A x \in S : x \in Nat /\ x <= n
      OBVIOUS
    <3> QED BY <3>1
  <2>2. \A q \in Q : q \in Nat
    BY <1>1, <2>1
  <2>3. PICK x \in S : TRUE
    BY Zenon
  <2>4. n - x \in Q
    BY <1>1, <2>3
  <2> QED BY <2>2, <2>4
<1>3. PICK d \in Q : \A e \in Q : d <= e
  BY <1>2, LeastNatural
<1>4. PICK x \in S : d = n - x
  BY <1>1, <1>3
<1>5. \A y \in S : y <= x
  <2>1. \A y \in S : d <= n - y
    BY <1>1, <1>3
  <2> QED BY <1>4, <2>1
<1>6. x \in S /\ \A y \in S : x >= y
  <2>1. \A y \in S : y \in Nat /\ x \in Nat
    OBVIOUS
  <2> QED BY <1>5, <2>1
<1>7. Max(S) \in S /\ \A y \in S : Max(S) >= y
  BY <1>6, Zenon DEF Max
<1>8. \A y \in S : y \in Nat /\ Max(S) \in Nat
  BY <1>7, Zenon
<1> QED BY <1>7, <1>8

\* A sum over nothing.
LEMMA SumNone == \A f : SumFunctionOnSet(f, {}) = 0
BY SumTurn, FS_EmptySet

\* What a fill adds to what is held of its symbol.
Signed(o) == IF o.side = "BUY" THEN o.qty ELSE -o.qty

\* A net quantity is the sum of what its orders do.
LEMMA NetIsSum ==
  ASSUME NEW T \in SUBSET Orders, NEW sym
  PROVE  /\ Net(T, sym) \in Int
         /\ SumFunctionOnSet([o \in Orders |-> Signed(o)], {o \in T : o.sym = sym}) = Net(T, sym)
<1>1. PICK H : H = {o \in T : o.sym = sym}
  BY Zenon
<1>2. PICK f : f = [o \in Orders |-> Signed(o)]
  BY Zenon
<1>3. PICK q : q = [o \in Orders |-> o.qty]
  BY Zenon
<1>4. PICK B, S \in SUBSET Orders : B = Buys(T, sym) /\ S = Sells(T, sym)
  BY Zenon DEF Buys, Sells
<1>5. \A o \in Orders : o.qty \in Int /\ f[o] \in Int /\ o.side \in {"BUY", "SELL"}
  <2>1. \A o \in Orders : o.qty \in Int /\ -o.qty \in Int /\ o.side \in {"BUY", "SELL"}
    BY PortfolioAssumption
  <2> QED BY <1>2, <2>1 DEF Signed
<1>6. B \cup S = H /\ B \cap S = {} /\ IsFiniteSet(B) /\ IsFiniteSet(S) /\ IsFiniteSet(Orders)
  BY <1>1, <1>4, <1>5, PortfolioAssumption, FS_Subset DEF Buys, Sells
<1>7. SumFunctionOnSet(f, H) = SumFunctionOnSet(f, B) + SumFunctionOnSet(f, S)
  <2>1. SumFunctionOnSet(f, B \cup S) = SumFunctionOnSet(f, B) + SumFunctionOnSet(f, S)
    BY <1>5, <1>6, SumApart
  <2> QED BY <1>6, <2>1
<1>8. SumFunctionOnSet(f, B) = SumFunctionOnSet(q, B)
  <2>1. \A o \in B : f[o] = q[o]
    BY <1>2, <1>3, <1>4 DEF Buys, Signed
  <2> QED BY <1>6, <2>1, SumSame
<1>9. SumFunctionOnSet(q, S) \in Int /\ SumFunctionOnSet(f, S) = -SumFunctionOnSet(q, S)
  <2>1. \A o \in S : q[o] \in Int /\ f[o] = -q[o]
    BY <1>2, <1>3, <1>4, <1>5 DEF Sells, Signed
  <2> QED BY <1>6, <2>1, SumNegated
<1>10. SumFunctionOnSet(q, B) = Total(B) /\ SumFunctionOnSet(q, S) = Total(S) /\ Total(B) \in Int
  BY <1>3, <1>4, Totals DEF Total
<1>11. Net(T, sym) = Total(B) - Total(S) /\ Total(S) \in Int
  BY <1>4, <1>9, <1>10 DEF Net
<1>12. PICK b, s \in Int : b = SumFunctionOnSet(q, B) /\ s = SumFunctionOnSet(q, S)
  BY <1>9, <1>10
<1>13. SumFunctionOnSet(f, H) = b - s
  BY <1>7, <1>8, <1>9, <1>12
<1>14. Net(T, sym) = b - s
  BY <1>10, <1>11, <1>12
<1> QED BY <1>1, <1>2, <1>12, <1>13, <1>14

\* What the fills of before t leave of a symbol is what their orders do.
LEMMA HeldIs ==
  ASSUME OrdersOK, NEW c, NEW sym
  PROVE  HeldBefore(FillsChronological, c, sym) = Net({o \in Booked : orders[o].at < c}, sym)
<1>1. IsFiniteSet(Booked) /\ Linear(Booked, Chrono) /\ Booked \in SUBSET Orders
  BY ChronoIsLinear
<1>2. PICK n \in Nat : n = Cardinality(Booked)
  BY <1>1, FS_CardinalityType
<1>3. PICK m : m = [i \in 1 .. n |-> AtPlace(Booked, Chrono, i)]
  BY Zenon
<1>4. \A i \in 1 .. n : m[i] \in Booked /\ Cardinality(Preceding(Booked, Chrono, m[i])) = i - 1
  BY <1>1, <1>2, <1>3, PlacesTaken
<1>5. \A o \in Booked : \E i \in 1 .. n : m[i] = o
  BY <1>1, <1>2, <1>3, PlaceIsUnique
<1>6. PICK fills : fills = FillsChronological
  OBVIOUS
<1>7. DOMAIN fills = 1 .. n /\ \A i \in 1 .. n : fills[i] = FillOf(m[i])
  <2>1. FillsChronological = [i \in 1 .. Cardinality(Booked) |-> FillOf(AtPlace(Booked, Chrono, i))]
    BY FillsAre, PTL
  <2> QED BY <1>2, <1>3, <1>6, <2>1
<1>8. \A i \in 1 .. n : /\ fills[i].at = orders[m[i]].at /\ fills[i].sym = m[i].sym
                        /\ SignedQty(fills[i]) = Signed(m[i])
  BY <1>7 DEF FillOf, SignedQty, Signed
<1>9. PICK D : D = {i \in Before(fills, c) : fills[i].sym = sym}
  BY Zenon
<1>10. D = {i \in 1 .. n : orders[m[i]].at < c /\ m[i].sym = sym} /\ IsFiniteSet(D)
  <2>1. IsFiniteSet(1 .. n)
    BY <1>2, FS_Interval
  <2>2. D = {i \in 1 .. n : orders[m[i]].at < c /\ m[i].sym = sym}
    BY <1>7, <1>8, <1>9 DEF Before
  <2>3. D \in SUBSET (1 .. n)
    BY <2>2
  <2> QED BY <2>1, <2>2, <2>3, FS_Subset
<1>11. PICK H : H = {o \in {p \in Booked : orders[p].at < c} : o.sym = sym}
  BY Zenon
<1>12. \A z : z \in H <=> \E i \in D : z = m[i]
  BY <1>4, <1>5, <1>10, <1>11
<1>13. \A i, j \in D : m[i] = m[j] => i = j
  BY <1>4, <1>10
<1>14. PICK g : g = [i \in DOMAIN fills |-> SignedQty(fills[i])]
  BY Zenon
<1>15. PICK f : f = [o \in Orders |-> Signed(o)]
  BY Zenon
<1>16. \A i \in D : g[i] = f[m[i]] /\ g[i] \in Int
  <2>1. \A o \in Orders : Signed(o) \in Int
    <3>1. \A o \in Orders : o.qty \in Int /\ -o.qty \in Int
      BY PortfolioAssumption
    <3> QED BY <3>1 DEF Signed
  <2>2. \A i \in D : m[i] \in Orders /\ i \in DOMAIN fills /\ g[i] = Signed(m[i])
    BY <1>1, <1>4, <1>7, <1>8, <1>10, <1>14
  <2> QED BY <1>15, <2>1, <2>2
<1>18. SumFunctionOnSet(g, D) = SumFunctionOnSet(f, H)
  <2>1. Renames(D, m, H, g, f)
    BY <1>10, <1>12, <1>13, <1>16 DEF Renames
  <2> QED BY <2>1, SumMoved
<1>19. HeldBefore(fills, c, sym) = SumFunctionOnSet(g, D)
  BY <1>9, <1>14 DEF HeldBefore
<1>20. PICK T \in SUBSET Orders : T = {p \in Booked : orders[p].at < c}
  BY <1>1, Zenon
<1>21. SumFunctionOnSet(f, H) = Net(T, sym)
  <2>1. H = {o \in T : o.sym = sym}
    BY <1>11, <1>20
  <2>2. SumFunctionOnSet([o \in Orders |-> Signed(o)], {o \in T : o.sym = sym}) = Net(T, sym)
    BY NetIsSum
  <2> QED BY <1>15, <2>1, <2>2
<1> QED BY <1>6, <1>18, <1>19, <1>20, <1>21

\* A set of instants in ascending order.
LEMMA AscendingIs ==
  ASSUME NEW S \in SUBSET Nat, IsFiniteSet(S)
  PROVE  \E n \in Nat : /\ DOMAIN Ascending(S) = 1 .. n
                        /\ \A i \in 1 .. n : Ascending(S)[i] \in S
                        /\ \A i, j \in 1 .. n : i < j <=> Ascending(S)[i] < Ascending(S)[j]
                        /\ \A t \in S : \E i \in 1 .. n : Ascending(S)[i] = t
<1>1. PICK R : R = {p \in Nat \X Nat : p[1] < p[2]}
  BY Zenon
<1>2. \A t, u \in Nat : <<t, u>> \in R <=> t < u
  BY <1>1
<1>3. Linear(S, R)
  <2>1. \A t \in S : t \in Nat
    OBVIOUS
  <2>2. \A t, u \in S : <<t, u>> \in R <=> t < u
    BY <1>2, <2>1, Zenon
  <2>3. \A t \in S : ~(t < t)
    BY <2>1
  <2>4. \A t, u \in S : t # u => t < u \/ u < t
    BY <2>1
  <2>5. \A t, u, v \in S : t < u /\ u < v => t < v
    BY <2>1
  <2> QED BY <2>2, <2>3, <2>4, <2>5 DEF Linear
<1>4. PICK n \in Nat : n = Cardinality(S)
  BY FS_CardinalityType
<1>5. PICK a : a = Ascending(S)
  OBVIOUS
<1>6. DOMAIN a = 1 .. n /\ \A i \in 1 .. n : a[i] = AtPlace(S, R, i)
  <2>1. \A t \in S : Preceding(S, R, t) = {u \in S : u < t}
    BY <1>2, Zenon DEF Preceding
  <2>2. \A i : AtPlace(S, R, i) = CHOOSE t \in S : Cardinality({u \in S : u < t}) = i - 1
    BY <2>1, Zenon DEF AtPlace
  <2> QED BY <1>4, <1>5, <2>2, Zenon DEF Ascending
<1>7. \A i \in 1 .. n : a[i] \in S /\ Cardinality(Preceding(S, R, a[i])) = i - 1
  BY <1>3, <1>4, <1>6, PlacesTaken
<1>8. \A t, u \in S : t < u <=> Cardinality(Preceding(S, R, t)) < Cardinality(Preceding(S, R, u))
  <2>1. \A t, u \in S : <<t, u>> \in R <=> Cardinality(Preceding(S, R, t)) < Cardinality(Preceding(S, R, u))
    BY <1>3, CountsRise, Zenon
  <2>2. \A t, u \in S : <<t, u>> \in R <=> t < u
    BY <1>2, Zenon
  <2> QED BY <2>1, <2>2, Zenon
<1>9. \A i, j \in 1 .. n : i < j <=> a[i] < a[j]
  <2>1. \A i, j \in 1 .. n : i - 1 < j - 1 <=> i < j
    OBVIOUS
  <2>2. ASSUME NEW i \in 1 .. n, NEW j \in 1 .. n
        PROVE  a[i] < a[j] <=> i - 1 < j - 1
    <3>1. PICK t, u \in S : t = a[i] /\ u = a[j]
      BY <1>7, Zenon
    <3>2. Cardinality(Preceding(S, R, t)) = i - 1 /\ Cardinality(Preceding(S, R, u)) = j - 1
      BY <1>7, <3>1
    <3>3. t < u <=> Cardinality(Preceding(S, R, t)) < Cardinality(Preceding(S, R, u))
      BY <1>8
    <3> QED BY <3>1, <3>2, <3>3
  <2> QED BY <2>1, <2>2
<1>10. \A t \in S : \E i \in 1 .. n : a[i] = t
  BY <1>3, <1>4, <1>6, PlaceIsUnique
<1> QED BY <1>5, <1>6, <1>7, <1>9, <1>10, Zenon

\* A history's times are numbers, and what it has are finite.
HistoryOK(h) ==
  /\ h.now \in Nat /\ h.created = 0 /\ h.bar \in Nat \ {0} /\ h.lookback \in Nat
  /\ IsFiniteSet(DOMAIN h.candles)
  /\ \A sym \in DOMAIN h.candles : DOMAIN h.candles[sym] \in SUBSET Nat /\ IsFiniteSet(DOMAIN h.candles[sym])
  /\ IsFiniteSet(DOMAIN h.ledger) /\ \A i \in DOMAIN h.ledger : h.ledger[i].at \in Nat
  /\ \A i \in DOMAIN h.fills : h.fills[i].at \in Nat

\* The window opens at a time.
LEMMA WindowIs ==
  ASSUME NEW h, HistoryOK(h)
  PROVE  WindowStart(h) \in Nat
<1>1. PICK a, b \in Nat : a = h.now /\ b = h.lookback
  BY DEF HistoryOK
<1>2. h.created = 0 /\ WindowStart(h) = IF a - b > 0 THEN a - b ELSE 0
  BY <1>1 DEF HistoryOK, WindowStart
<1> QED BY <1>2

\* Some bars are numbers, and finitely many: those of one symbol, of a few.
LEMMA BarsAreFew ==
  ASSUME NEW h, HistoryOK(h)
  PROVE  /\ BarGrid(h) \in SUBSET Nat /\ IsFiniteSet(BarGrid(h))
         /\ EventGrid(h) \in SUBSET Nat /\ IsFiniteSet(EventGrid(h))
<1>1. PICK f : f = [sym \in DOMAIN h.candles |-> DOMAIN h.candles[sym]]
  BY Zenon
<1>2. PICK K : K = {f[sym] : sym \in DOMAIN h.candles}
  BY Zenon
<1>3. f \in Surjection(DOMAIN h.candles, K)
  BY <1>1, <1>2 DEF Surjection
<1>4. IsFiniteSet(K)
  BY <1>3, FS_Surjection DEF HistoryOK
<1>5. \A T \in K : T \in SUBSET Nat /\ IsFiniteSet(T)
  BY <1>1, <1>2 DEF HistoryOK
<1>6. IsFiniteSet(UNION K)
  BY <1>4, <1>5, FS_UNION
<1>7. BarGrid(h) \in SUBSET (UNION K)
  BY <1>1, <1>2 DEF BarGrid, InvolvedSymbols
<1>8. BarGrid(h) \in SUBSET Nat
  BY <1>5, <1>7
<1>9. PICK g : g = [i \in DOMAIN h.ledger |-> h.ledger[i].at]
  BY Zenon
<1>10. PICK L : L = {g[i] : i \in DOMAIN h.ledger}
  BY Zenon
<1>11. g \in Surjection(DOMAIN h.ledger, L)
  BY <1>9, <1>10 DEF Surjection
<1>12. IsFiniteSet(L)
  BY <1>11, FS_Surjection DEF HistoryOK
<1>13. EventGrid(h) \in SUBSET L /\ L \in SUBSET Nat
  BY <1>9, <1>10 DEF EventGrid, HistoryOK
<1> QED BY <1>6, <1>7, <1>8, <1>12, <1>13, FS_Subset, Zenon

\* The instants of a series: they ascend, none is missing, and all are over.
GridOK(h, at, n, bar) ==
  /\ n \in Nat /\ bar \in Nat /\ DOMAIN at = 1 .. n
  /\ \A i \in 1 .. n : at[i] \in Nat /\ at[i] + bar < h.now
  /\ \A i, j \in 1 .. n : i < j <=> at[i] < at[j]
  /\ \A i \in 1 .. n : at[i] + bar >= WindowStart(h)
  /\ BarGrid(h) # {} => bar = h.bar /\ \A t : t \in BarGrid(h) <=> \E i \in 1 .. n : at[i] = t
  /\ BarGrid(h) = {} => bar = 0

\* The grid is of bars that are over, or of instants of the ledger, ascending.
LEMMA GridIs ==
  ASSUME NEW h, HistoryOK(h)
  PROVE  \E n \in Nat : GridOK(h, Grid(h).at, n, Grid(h).bar)
<1>1. PICK S : S = IF BarGrid(h) # {} THEN BarGrid(h) ELSE EventGrid(h)
  OBVIOUS
<1>2. PICK bar : bar = IF BarGrid(h) # {} THEN h.bar ELSE 0
  OBVIOUS
<1>3. Grid(h).at = Ascending(S) /\ Grid(h).bar = bar
  BY <1>1, <1>2 DEF Grid
<1>4. S \in SUBSET Nat /\ IsFiniteSet(S)
  BY <1>1, BarsAreFew
<1>5. PICK at : at = Ascending(S)
  OBVIOUS
<1>6. PICK n \in Nat : /\ DOMAIN at = 1 .. n
                       /\ \A i \in 1 .. n : at[i] \in S
                       /\ \A i, j \in 1 .. n : i < j <=> at[i] < at[j]
                       /\ \A t \in S : \E i \in 1 .. n : at[i] = t
  BY <1>4, <1>5, AscendingIs
<1>7. PICK start, w, b \in Nat : start = h.now /\ w = WindowStart(h) /\ b = h.bar
  BY WindowIs DEF HistoryOK
<1>8. bar \in Nat /\ \A t \in S : t \in Nat /\ t + bar < start /\ t + bar >= w
  <2>1. CASE BarGrid(h) # {}
    <3>1. S = BarGrid(h) /\ bar = b
      BY <1>1, <1>2, <1>7, <2>1
    <3>2. \A t \in S : t + b < start /\ t >= w - b
      BY <1>7, <3>1 DEF BarGrid
    <3> QED BY <1>4, <3>1, <3>2
  <2>2. CASE BarGrid(h) = {}
    <3>1. S = EventGrid(h) /\ bar = 0
      BY <1>1, <1>2, <2>2
    <3>2. \A t \in S : t < start /\ t >= w
      BY <1>7, <3>1 DEF EventGrid
    <3> QED BY <1>4, <3>1, <3>2
  <2> QED BY <2>1, <2>2
<1>9. BarGrid(h) # {} => \A t : t \in BarGrid(h) <=> \E i \in 1 .. n : at[i] = t
  BY <1>1, <1>6
<1>10. GridOK(h, at, n, bar)
  BY <1>2, <1>6, <1>7, <1>8, <1>9, Zenon DEF GridOK
<1> QED BY <1>3, <1>5, <1>10

\* What is held was filled.
LEMMA HeldWasFilled ==
  ASSUME NEW h, NEW c, NEW sym, HeldBefore(h.fills, c, sym) # 0
  PROVE  \E k \in DOMAIN h.fills : h.fills[k].sym = sym /\ h.fills[k].at < c
<1>1. ASSUME ~ \E k \in DOMAIN h.fills : h.fills[k].sym = sym /\ h.fills[k].at < c PROVE FALSE
  <2>1. {k \in Before(h.fills, c) : h.fills[k].sym = sym} = {}
    BY <1>1 DEF Before
  <2> QED BY <2>1, SumNone, Zenon DEF HeldBefore
<1> QED BY <1>1

\* So was what needs prices.
LEMMA InvolvedWasFilled ==
  ASSUME NEW h, NEW sym \in InvolvedSymbols(h)
  PROVE  sym \in DOMAIN h.candles /\ \E k \in DOMAIN h.fills : h.fills[k].sym = sym
<1>1. ASSUME HeldBefore(h.fills, WindowStart(h), sym) > 0
      PROVE  \E k \in DOMAIN h.fills : h.fills[k].sym = sym
  <2>1. HeldBefore(h.fills, WindowStart(h), sym) # 0
    BY <1>1
  <2> QED BY <2>1, HeldWasFilled
<1> QED BY <1>1 DEF InvolvedSymbols

\* What is held at a point was traded in the window, or held as it opened.
LEMMA HeldIsInvolved ==
  ASSUME NEW h, HistoryOK(h), NEW grid, NEW n, GridOK(h, grid.at, n, grid.bar),
         NEW i \in 1 .. n, NEW sym \in HeldAt(h, grid, i)
  PROVE  /\ sym \in InvolvedSymbols(h)
         /\ \E k \in DOMAIN h.fills : h.fills[k].sym = sym /\ h.fills[k].at < Cutoff(grid, i)
<1>1. sym \in DOMAIN h.candles /\ HeldBefore(h.fills, Cutoff(grid, i), sym) > 0
  BY DEF HeldAt
<1>2. PICK c : c = Cutoff(grid, i)
  OBVIOUS
<1>3. PICK w \in Nat : w = WindowStart(h)
  BY WindowIs
<1>4. c \in Nat /\ w <= c
  <2>1. PICK t, b \in Nat : t = grid.at[i] /\ b = grid.bar
    BY DEF GridOK
  <2>2. t + b >= w
    BY <1>3, <2>1 DEF GridOK
  <2>3. c = IF b > 0 THEN t + b ELSE t + 1
    BY <1>2, <2>1 DEF Cutoff
  <2> QED BY <2>2, <2>3
<1>5. HeldBefore(h.fills, c, sym) # 0
  BY <1>1, <1>2
<1>6. ASSUME \A k \in DOMAIN h.fills : h.fills[k].sym = sym => ~(h.fills[k].at >= w)
      PROVE  HeldBefore(h.fills, w, sym) = HeldBefore(h.fills, c, sym)
  <2>1. \A k \in DOMAIN h.fills : h.fills[k].sym = sym => h.fills[k].at \in Nat /\ h.fills[k].at < w
    BY <1>6 DEF HistoryOK
  <2>2. \A k \in DOMAIN h.fills : h.fills[k].sym = sym => (h.fills[k].at < w <=> h.fills[k].at < c)
    BY <1>4, <2>1
  <2>3. {k \in Before(h.fills, w) : h.fills[k].sym = sym} = {k \in Before(h.fills, c) : h.fills[k].sym = sym}
    BY <2>2 DEF Before
  <2> QED BY <2>3, Zenon DEF HeldBefore
<1>7. sym \in InvolvedSymbols(h)
  BY <1>1, <1>2, <1>3, <1>6 DEF InvolvedSymbols
<1> QED BY <1>2, <1>5, <1>7, HeldWasFilled

\* What a point of bars carries are the bars that are over by then, all of them
\* on the grid or from before it; a point without bars the same, if none starts
\* at such a point.
Over(h, sym, end) == {b \in DOMAIN h.candles[sym] : b + h.bar <= end}
Settled(h, grid, i, sym) == BarGrid(h) # {} \/ \A j \in 1 .. i : grid.at[j] \notin DOMAIN h.candles[sym]

\* What a settled point carries is the last close by then.
LEMMA CarriedIs ==
  ASSUME NEW h, HistoryOK(h), NEW grid, NEW n, GridOK(h, grid.at, n, grid.bar),
         NEW i \in 1 .. n, NEW sym \in InvolvedSymbols(h), Settled(h, grid, i, sym)
  PROVE  Carried(h, grid, i, sym) = Over(h, sym, grid.at[i] + grid.bar)
<1>1. PICK B : B = DOMAIN h.candles[sym]
  OBVIOUS
<1>2. PICK at : at = grid.at
  OBVIOUS
<1>3. PICK bar, size, w, start \in Nat : bar = grid.bar /\ size = h.bar /\ w = WindowStart(h) /\ start = h.now
  BY WindowIs, Zenon DEF GridOK, HistoryOK
<1>4. n \in Nat /\ i \in Nat /\ 1 \in 1 .. n /\ 1 <= i /\ i <= n /\ \A j \in 1 .. i : j \in 1 .. n /\ j <= i
  BY DEF GridOK
<1>5. size > 0 /\ sym \in DOMAIN h.candles /\ \A b \in B : b \in Nat
  BY <1>1, <1>3 DEF HistoryOK, InvolvedSymbols
<1>6. /\ \A j \in 1 .. n : at[j] \in Nat /\ at[j] + bar < start /\ at[j] + bar >= w
      /\ \A j, k \in 1 .. n : j < k <=> at[j] < at[k]
  BY <1>2, <1>3, Zenon DEF GridOK
<1>7. Carried(h, grid, i, sym) = {b \in B : b + size <= at[1] + bar \/ \E j \in 1 .. i : at[j] = b}
  BY <1>1, <1>2, <1>3 DEF Carried
<1>8. \A j \in 1 .. i : at[j] <= at[i]
  <2>1. ASSUME NEW j \in 1 .. i PROVE at[j] <= at[i]
    <3>1. PICK t, u \in Nat : t = at[j] /\ u = at[i]
      BY <1>4, <1>6
    <3>2. j \in 1 .. n /\ i \in 1 .. n /\ ~(i < j)
      BY <1>4
    <3>3. ~(u < t)
      BY <1>6, <3>1, <3>2
    <3> QED BY <3>1, <3>3
  <2> QED BY <2>1
<1>9. PICK first, last \in Nat : first = at[1] /\ last = at[i] /\ first <= last
  <2>1. 1 \in 1 .. i
    BY <1>4
  <2> QED BY <1>4, <1>6, <1>8, <2>1
<1>10. last + bar < start /\ first + bar >= w
  BY <1>4, <1>6, <1>9
<1>11. ASSUME NEW b \in B, NEW j \in 1 .. i, at[j] = b PROVE b + size <= last + bar
  <2>1. BarGrid(h) # {}
    BY <1>1, <1>2, <1>11 DEF Settled
  <2>2. bar = size
    BY <1>3, <2>1 DEF GridOK
  <2>3. b \in Nat /\ b <= last
    BY <1>5, <1>8, <1>9, <1>11
  <2> QED BY <2>2, <2>3
<1>12. ASSUME NEW b \in B, b + size <= last + bar, ~(b + size <= first + bar)
       PROVE  \E j \in 1 .. i : at[j] = b
  <2>1. b \in Nat
    BY <1>5
  <2>2. b \in BarGrid(h)
    <3>1. b >= w - size /\ b + size > 0 /\ b + size < start
      BY <1>5, <1>9, <1>10, <1>12, <2>1
    <3>2. h.created = 0
      BY DEF HistoryOK
    <3>3. b \in UNION {DOMAIN h.candles[s] : s \in InvolvedSymbols(h)}
      BY <1>1, <1>12
    <3> QED BY <1>3, <3>1, <3>2, <3>3 DEF BarGrid
  <2>3. bar = size
    BY <1>3, <2>2 DEF GridOK
  <2>4. PICK j \in 1 .. n : at[j] = b
    BY <1>2, <2>2 DEF GridOK
  <2>5. b <= last
    BY <1>12, <2>1, <2>3
  <2>6. ~(last < b)
    BY <2>1, <2>5
  <2>7. ~(i < j)
    BY <1>4, <1>6, <1>9, <2>4, <2>6
  <2>8. j \in 1 .. i
    BY <1>4, <2>7
  <2> QED BY <2>4, <2>8
<1>13. \A b \in B : b + size <= first + bar => b + size <= last + bar
  BY <1>5, <1>9
<1>14. Carried(h, grid, i, sym) = {b \in B : b + size <= last + bar}
  BY <1>7, <1>9, <1>11, <1>12, <1>13
<1> QED BY <1>1, <1>2, <1>3, <1>9, <1>14 DEF Over

\* What a request learns it has, and what it had it keeps.
LEMMA LearnIs ==
  ASSUME NEW facts, Learn(facts)
  PROVE  /\ DOMAIN read' = DOMAIN read \cup DOMAIN facts
         /\ \A k \in DOMAIN facts : read'[k] = facts[k]
         /\ \A k \in DOMAIN read : k \notin DOMAIN facts => read'[k] = read[k]
BY DEF Learn

\* The points before today's are those of the grid.
LEMMA SeriesIs ==
  ASSUME NEW h, NEW n, GridOK(h, Grid(h).at, n, Grid(h).bar)
  PROVE  \E m \in 0 .. n : /\ DOMAIN Front(EquitySeries(h)) = 1 .. m
                           /\ \A i \in 1 .. m : Front(EquitySeries(h))[i] = PointAt(h, Grid(h), i)
<1>1. n \in Nat /\ DOMAIN Grid(h).at = 1 .. n
  BY DEF GridOK
<1>2. PICK past : past = [i \in 1 .. n |-> PointAt(h, Grid(h), i)]
  BY Zenon
<1>3. PICK Q : Q = {0} \cup {i \in DOMAIN past : past[i].t < h.now}
  BY Zenon
<1>4. Q \in SUBSET (0 .. n) /\ 0 \in Q
  BY <1>1, <1>2, <1>3
<1>5. PICK m \in 0 .. n : m = Max(Q)
  <2>1. Q \in SUBSET Nat /\ Q # {} /\ \A x \in Q : x <= n
    BY <1>1, <1>4
  <2>2. Max(Q) \in Q
    BY <1>1, <2>1, GreatestIs, Zenon
  <2> QED BY <1>4, <2>2, Zenon
<1>6. EquitySeries(h) = [i \in 1 .. m |-> past[i]] \o <<LivePoint(h)>>
  BY <1>1, <1>2, <1>3, <1>5 DEF EquitySeries
<1>7. PICK S : S = {past[i] : i \in 1 .. m} \cup {LivePoint(h)}
  BY Zenon
<1>8. PICK kept \in Seq(S) : kept = [i \in 1 .. m |-> past[i]] /\ Len(kept) = m
  <2>1. [i \in 1 .. m |-> past[i]] \in [1 .. m -> S]
    BY <1>7
  <2>2. m \in Nat
    BY <1>1, <1>5
  <2>3. PICK k \in [1 .. m -> S] : k = [i \in 1 .. m |-> past[i]]
    BY <2>1, Zenon
  <2>4. k \in Seq(S) /\ Len(k) = m
    BY <2>2
  <2> QED BY <2>3, <2>4
<1>9. PICK live \in S : live = LivePoint(h)
  BY <1>7
<1>10. EquitySeries(h) = Append(kept, live)
  <2>1. kept \o <<live>> = Append(kept, live)
    OBVIOUS
  <2> QED BY <1>6, <1>8, <1>9, <2>1
<1>11. PICK all \in Seq(S) : all = Append(kept, live)
  BY AppendIs, Zenon
<1>12. Len(all) = m + 1 /\ DOMAIN all = 1 .. m + 1 /\ \A i \in 1 .. m : all[i] = kept[i]
  BY <1>8, <1>11, AppendIs
<1>13. DOMAIN Front(all) = 1 .. m /\ \A i \in 1 .. m : Front(all)[i] = all[i]
  <2>1. m \in Nat /\ Len(all) - 1 = m /\ m <= Len(all)
    BY <1>1, <1>12
  <2>2. Front(all) = SubSeq(all, 1, m)
    BY <2>1 DEF Front
  <2>3. SubSeq(all, 1, m) = [i \in 1 .. m |-> all[i]]
    BY <2>1
  <2> QED BY <2>2, <2>3
<1>14. \A i \in 1 .. m : all[i] = PointAt(h, Grid(h), i)
  <2>1. \A i \in 1 .. m : kept[i] = past[i]
    BY <1>8
  <2>2. \A i \in 1 .. m : i \in 1 .. n
    BY <1>1, <1>5
  <2>3. \A i \in 1 .. m : past[i] = PointAt(h, Grid(h), i)
    BY <1>2, <2>2
  <2> QED BY <1>12, <2>1, <2>3
<1> QED BY <1>5, <1>10, <1>11, <1>13, <1>14, Zenon

--------------------------------------------------------------------------------
(* What is on record of an instant, and what a request has read of it.         *)

\* What was recorded of an instant is what had been booked before its end.
Ended == [cash : Int, qty : [Symbols -> Nat]]
BookedBefore(c) == {o \in Booked : orders[o].booked < c}
WasOK ==
  /\ now \in Nat /\ now <= MaxTime /\ bars \in BarChoices
  /\ was \in Seq(Ended) /\ Len(was) = now
  /\ \A i \in DOMAIN ledger : ledger[i].at <= now
  /\ \A o \in Booked : orders[o].booked <= now
  /\ \A c \in 1 .. now : /\ was[c].cash = SumOf(ledger, Before(ledger, c))
                         /\ \A sym \in Symbols : was[c].qty[sym] = Net(BookedBefore(c), sym)

\* Within an instant, rows are added and fills booked at that instant.
Added ==
  /\ now' = now /\ bars' = bars /\ was' = was
  /\ \A i \in DOMAIN ledger : i \in DOMAIN ledger' /\ ledger'[i] = ledger[i]
  /\ \A i \in DOMAIN ledger' : i \notin DOMAIN ledger => ledger'[i].at = now
  /\ \A o \in Booked : o \in Booked' /\ orders'[o] = orders[o]
  /\ \A o \in Booked' : o \notin Booked => orders'[o].booked = now

\* A concatenation has the rows of the first, then those of the second.
LEMMA ConcatAdds ==
  ASSUME NEW S, NEW L \in Seq(S), NEW M \in Seq(S)
  PROVE  LET all == L \o M
         IN  /\ \A i \in DOMAIN L : i \in DOMAIN all /\ all[i] = L[i]
             /\ \A i \in DOMAIN all : i \notin DOMAIN L => \E j \in DOMAIN M : all[i] = M[j]
<1>1. PICK m, n \in Nat : m = Len(L) /\ n = Len(M) /\ DOMAIN L = 1 .. m /\ DOMAIN M = 1 .. n
  OBVIOUS
<1>2. PICK all : all = L \o M
  BY Zenon
<1>3. DOMAIN all = 1 .. m + n /\ \A i \in 1 .. m + n : all[i] = IF i <= m THEN L[i] ELSE M[i - m]
  BY <1>1, <1>2
<1>4. \A i \in 1 .. m : i \in 1 .. m + n /\ all[i] = L[i]
  BY <1>1, <1>3
<1>5. ASSUME NEW i \in 1 .. m + n, i \notin 1 .. m PROVE \E j \in 1 .. n : all[i] = M[j]
  <2>1. i - m \in 1 .. n /\ ~(i <= m)
    BY <1>1, <1>5
  <2> QED BY <1>3, <2>1, Zenon
<1> QED BY <1>1, <1>2, <1>3, <1>4, <1>5, Zenon

\* A fill that is booked adds rows of that instant.
LEMMA FillAdds ==
  ASSUME OrdersOK, ledger \in Seq(Rows), NEW o \in Orders, BookFill(o)
  PROVE  /\ \A i \in DOMAIN ledger : i \in DOMAIN ledger' /\ ledger'[i] = ledger[i]
         /\ \A i \in DOMAIN ledger' : i \notin DOMAIN ledger => ledger'[i].at = now
<1>0. now \in Nat /\ FillOf(o).notional \in Int /\ Fee \in Nat
  BY FillIs, PortfolioAssumption DEF OrdersOK
<1>1. PICK trade \in Int : trade = IF o.side = "BUY" THEN -FillOf(o).notional ELSE FillOf(o).notional
  BY <1>0
<1>2. PICK fee \in Int : fee = -Fee
  BY <1>0
<1>3. PICK one \in Seq(Int) : one = <<trade>>
  <2>1. <<trade>> \in Seq(Int)
    OBVIOUS
  <2> QED BY <2>1, Zenon
<1>4. PICK more \in Seq(Int) : more = IF Fee = 0 THEN << >> ELSE << -Fee >>
  <2>1. << >> \in Seq(Int) /\ <<fee>> \in Seq(Int)
    OBVIOUS
  <2> QED BY <1>2, <2>1, Zenon
<1>5. PICK entries \in Seq(Int) : entries = one \o more
  <2>1. one \o more \in Seq(Int)
    OBVIOUS
  <2> QED BY <2>1, Zenon
<1>6. PICK made : made = [i \in DOMAIN entries |-> [amount |-> entries[i], at |-> now, external |-> FALSE]]
  BY Zenon
<1>7. ledger' = ledger \o made
  BY <1>1, <1>3, <1>4, <1>5, <1>6 DEF BookFill
<1>8. PICK n \in Nat : DOMAIN entries = 1 .. n
  BY <1>5
<1>9. \A i \in 1 .. n : made[i] \in Rows /\ made[i].at = now
  <2>1. \A i \in 1 .. n : entries[i] \in Int
    BY <1>5, <1>8
  <2> QED BY <1>0, <1>6, <1>8, <2>1 DEF Rows
<1>10. made \in Seq(Rows) /\ DOMAIN made = 1 .. n
  <2>1. PICK k \in [1 .. n -> Rows] : k = made
    BY <1>6, <1>8, <1>9, Zenon
  <2>2. k \in Seq(Rows) /\ DOMAIN k = 1 .. n
    BY <1>8
  <2> QED BY <2>1, <2>2
<1>11. /\ \A i \in DOMAIN ledger : i \in DOMAIN (ledger \o made) /\ (ledger \o made)[i] = ledger[i]
       /\ \A i \in DOMAIN (ledger \o made) : i \notin DOMAIN ledger => \E j \in DOMAIN made : (ledger \o made)[i] = made[j]
  BY <1>10, ConcatAdds, Zenon
<1> QED BY <1>7, <1>9, <1>10, <1>11

\* A step is the clock's, or adds to what is booked.
LEMMA StepAdds ==
  ASSUME HoldingsOK, BooksOK, WasOK, Next
  PROVE  Tick \/ Added
<1>0. OrdersOK /\ ledger \in Seq(Rows)
  BY DEF HoldingsOK, BooksOK
<1>1. ASSUME orders' = orders, ledger' = ledger, now' = now, bars' = bars, was' = was PROVE Added
  BY <1>1 DEF Added, Booked
<1>2. ASSUME NEW o \in Orders, Place(o) \/ Execute(o) PROVE Added
  <2>1. /\ ledger' = ledger /\ now' = now /\ bars' = bars /\ was' = was
        /\ orders[o].state # "FILLED" /\ orders'[o].state # "FILLED"
        /\ \A p \in Orders : p # o => orders'[p] = orders[p]
    <3>1. CASE Place(o)
      <4>1. /\ ledger' = ledger /\ now' = now /\ bars' = bars /\ was' = was /\ orders[o].state = "NONE"
            /\ orders' = [orders EXCEPT ![o].state = "OPEN"]
        BY <3>1 DEF Place, market
      <4>2. orders'[o].state = "OPEN" /\ \A p \in Orders : p # o => orders'[p] = orders[p]
        BY <1>0, <4>1 DEF OrdersOK, OrderRows
      <4> QED BY <4>1, <4>2
    <3>2. CASE Execute(o)
      <4>1. /\ ledger' = ledger /\ now' = now /\ bars' = bars /\ was' = was /\ orders[o].state = "OPEN"
            /\ \E px \in Nat : orders' = [orders EXCEPT ![o].state = "EXECUTED", ![o].px = px, ![o].at = now]
        BY <3>2, PortfolioAssumption, Zenon DEF Execute, market
      <4>2. PICK px \in Nat : orders' = [orders EXCEPT ![o].state = "EXECUTED", ![o].px = px, ![o].at = now]
        BY <4>1, Zenon
      <4>3. orders'[o].state = "EXECUTED" /\ \A p \in Orders : p # o => orders'[p] = orders[p]
        BY <1>0, <4>2 DEF OrdersOK, OrderRows
      <4> QED BY <4>1, <4>3, Zenon
    <3> QED BY <1>2, <3>1, <3>2
  <2>2. Booked' = Booked /\ \A p \in Booked : orders'[p] = orders[p]
    BY <2>1 DEF Booked
  <2> QED BY <2>1, <2>2 DEF Added
<1>3. ASSUME NEW o \in Orders, BookFill(o) PROVE Added
  <2>1. now' = now /\ bars' = bars /\ was' = was
    BY <1>3 DEF BookFill, market
  <2>2. /\ Booked' = Booked \cup {o} /\ o \notin Booked /\ Booked \in SUBSET Orders
        /\ \A p \in Orders : p # o => orders'[p] = orders[p]
    BY <1>3, Books
  <2>3. orders'[o].booked = now
    <3>1. PICK n : n = Cardinality(Booked) + 1
      OBVIOUS
    <3>2. orders' = [orders EXCEPT ![o].state = "FILLED", ![o].booked = now, ![o].seq = n]
      BY <1>3, <3>1 DEF BookFill
    <3> QED BY <1>0, <3>2 DEF OrdersOK, OrderRows
  <2>4. /\ \A i \in DOMAIN ledger : i \in DOMAIN ledger' /\ ledger'[i] = ledger[i]
        /\ \A i \in DOMAIN ledger' : i \notin DOMAIN ledger => ledger'[i].at = now
    BY <1>0, <1>3, FillAdds
  <2> QED BY <2>1, <2>2, <2>3, <2>4 DEF Added
<1>4. ASSUME NEW amount \in Flows, Transfer(amount) PROVE Added
  <2>1. PICK added \in Rows : added = [amount |-> amount, at |-> now, external |-> TRUE]
    <3>1. amount \in Int /\ now \in Nat
      BY PortfolioAssumption DEF WasOK
    <3> QED BY <3>1, Zenon DEF Rows
  <2>2. orders' = orders /\ now' = now /\ bars' = bars /\ was' = was /\ ledger' = Append(ledger, added)
    BY <1>4, <2>1 DEF Transfer, market
  <2>3. /\ DOMAIN ledger = 1 .. Len(ledger) /\ DOMAIN ledger' = 1 .. Len(ledger) + 1 /\ Len(ledger) \in Nat
        /\ ledger'[Len(ledger) + 1] = added /\ \A i \in 1 .. Len(ledger) : ledger'[i] = ledger[i]
    BY <1>0, <2>2, AppendIs
  <2>4. added.at = now
    BY <2>1
  <2>5. \A i \in DOMAIN ledger' : i \notin DOMAIN ledger => i = Len(ledger) + 1
    BY <2>3
  <2>6. \A i \in DOMAIN ledger : i \in DOMAIN ledger'
    BY <2>3
  <2> QED BY <2>2, <2>3, <2>4, <2>5, <2>6 DEF Added, Booked
<1>5. ASSUME NEW kind \in Kinds, Start(kind) PROVE Added
  BY <1>1, <1>5 DEF Start, market
<1>6. CASE Reading \/ Answer
  <2>1. CASE Reading
    BY <1>1, <2>1, Zenon DEF Reading, ReadFills, ReadLedger, ReadPositions, ReadOpenSells, ReadRealized, market
  <2>2. CASE Answer
    BY <1>1, <2>2 DEF Answer, market
  <2> QED BY <1>6, <2>1, <2>2
<1> QED BY <1>2, <1>3, <1>4, <1>5, <1>6 DEF Next

\* What is booked at an instant does not count before it.
LEMMA WasStays ==
  ASSUME WasOK, Added
  PROVE  WasOK'
<1>1. /\ now \in Nat /\ now' = now /\ bars' = bars /\ was' = was /\ Len(was) = now
      /\ \A i \in DOMAIN ledger : ledger[i].at <= now
      /\ \A o \in Booked : orders[o].booked <= now
  BY DEF WasOK, Added
<1>2. /\ \A i \in DOMAIN ledger : i \in DOMAIN ledger' /\ ledger'[i] = ledger[i]
      /\ \A i \in DOMAIN ledger' : i \notin DOMAIN ledger => ledger'[i].at = now
      /\ \A o \in Booked : o \in Booked' /\ orders'[o] = orders[o]
      /\ \A o \in Booked' : o \notin Booked => orders'[o].booked = now
  BY DEF Added
<1>3. \A i \in DOMAIN ledger' : ledger'[i].at <= now
  BY <1>1, <1>2
<1>4. \A o \in Booked' : orders'[o].booked <= now
  BY <1>1, <1>2
<1>5. ASSUME NEW c \in 1 .. now
      PROVE  /\ was[c].cash = SumOf(ledger', Before(ledger', c))
             /\ \A sym \in Symbols : was[c].qty[sym] = Net(BookedBefore(c)', sym)
  <2>1. ~(now < c)
    BY <1>1
  <2>2. Before(ledger', c) = Before(ledger, c)
    BY <1>2, <2>1 DEF Before
  <2>3. PICK D : D = Before(ledger, c)
    OBVIOUS
  <2>4. \A i \in D : ledger'[i] = ledger[i]
    BY <1>2, <2>3 DEF Before
  <2>5. SumOf(ledger', D) = SumOf(ledger, D)
    <3>1. [i \in D |-> ledger'[i].amount] = [i \in D |-> ledger[i].amount]
      BY <2>4
    <3> QED BY <3>1 DEF SumOf
  <2>6. BookedBefore(c)' = BookedBefore(c)
    BY <1>2, <2>1 DEF BookedBefore
  <2>7. was[c].cash = SumOf(ledger, D) /\ \A sym \in Symbols : was[c].qty[sym] = Net(BookedBefore(c), sym)
    BY <2>3 DEF WasOK
  <2> QED BY <2>2, <2>3, <2>5, <2>6, <2>7
<1>6. now' <= MaxTime /\ bars' \in BarChoices /\ was' \in Seq(Ended) /\ Len(was') = now'
  BY <1>1 DEF WasOK
<1>7. \A c \in 1 .. now' : /\ was'[c].cash = SumOf(ledger', Before(ledger', c))
                           /\ \A sym \in Symbols : was'[c].qty[sym] = Net(BookedBefore(c)', sym)
  BY <1>1, <1>5
<1> QED BY <1>1, <1>3, <1>4, <1>6, <1>7 DEF WasOK

\* What is booked covers what was sold of it.
LEMMA NetIsHeld ==
  ASSUME HoldingsOK, NEW sym \in Symbols
  PROVE  Net(Booked, sym) \in Nat
<1>1. Booked \in SUBSET Orders /\ Placed \in SUBSET Orders /\ Booked \subseteq Placed
  BY DEF Booked, Placed
<1>2. Total(Sells(Placed, sym)) <= Total(Buys(Booked, sym))
  BY DEF HoldingsOK, SalesCovered
<1>3. Total(Sells(Booked, sym)) <= Total(Sells(Placed, sym))
  BY <1>1, MoreIsMore
<1>4. Buys(Booked, sym) \in SUBSET Orders /\ Sells(Booked, sym) \in SUBSET Orders /\ Sells(Placed, sym) \in SUBSET Orders
  BY <1>1 DEF Buys, Sells
<1>5. PICK b, s, p \in Nat : b = Total(Buys(Booked, sym)) /\ s = Total(Sells(Booked, sym)) /\ p = Total(Sells(Placed, sym))
  BY <1>4, Totals
<1>6. b - s \in Nat
  BY <1>2, <1>3, <1>5
<1> QED BY <1>5, <1>6 DEF Net

\* As the clock moves on, what the instant ended with is recorded.
LEMMA WasTicks ==
  ASSUME HoldingsOK, BooksOK, WasOK, Tick
  PROVE  WasOK'
<1>1. /\ now < MaxTime /\ now' = now + 1 /\ orders' = orders /\ ledger' = ledger /\ bars' = bars
      /\ was' = Append(was, [cash |-> Cash(ledger), qty |-> [sym \in Symbols |-> positions[sym].qty]])
  BY DEF Tick
<1>2. now \in Nat /\ MaxTime \in Nat /\ was \in Seq(Ended) /\ Len(was) = now
  BY HistoryAssumption DEF WasOK
<1>3. \A sym \in Symbols : positions[sym].qty = Net(Booked, sym) /\ positions[sym].qty \in Nat
  BY NetIsHeld DEF HoldingsOK, PositionsOK
<1>4. PICK qty \in [Symbols -> Nat] : qty = [sym \in Symbols |-> positions[sym].qty]
  BY <1>3, Zenon
<1>5. Before(ledger, now + 1) = DOMAIN ledger
  <2>1. \A i \in DOMAIN ledger : ledger[i].at \in Nat /\ ledger[i].at <= now
    <3>1. \A i \in DOMAIN ledger : ledger[i] \in Rows
      BY DEF BooksOK
    <3> QED BY <3>1 DEF WasOK, Rows
  <2>2. \A i \in DOMAIN ledger : ledger[i].at < now + 1
    BY <1>2, <2>1
  <2> QED BY <2>2, Zenon DEF Before
<1>6. BookedBefore(now + 1) = Booked
  <2>1. \A o \in Booked : orders[o].booked \in Nat /\ orders[o].booked <= now
    BY DEF WasOK, HoldingsOK, OrdersOK, OrderRows, Booked
  <2>2. \A o \in Booked : orders[o].booked < now + 1
    BY <1>2, <2>1
  <2> QED BY <2>2 DEF BookedBefore
<1>7. PICK cash \in Int : cash = Cash(ledger)
  <2>1. PICK none \in Rows : none = [amount |-> 0, at |-> 0, external |-> FALSE]
    <3>1. [amount |-> 0, at |-> 0, external |-> FALSE] \in Rows
      BY DEF Rows
    <3> QED BY <3>1
  <2>2. SumOf(ledger, DOMAIN ledger) \in Int
    BY <2>1, RowMore, Zenon DEF BooksOK
  <2> QED BY <2>2 DEF Cash
<1>8. PICK last \in Ended : last = [cash |-> cash, qty |-> qty]
  BY <1>4, <1>7, Zenon DEF Ended
<1>9. was' = Append(was, last)
  BY <1>1, <1>4, <1>7, <1>8
<1>10. /\ was' \in Seq(Ended) /\ Len(was') = now + 1
       /\ was'[now + 1] = last /\ \A c \in 1 .. now : was'[c] = was[c]
  BY <1>2, <1>9, AppendIs
<1>11. ASSUME NEW c \in 1 .. now + 1
       PROVE  /\ was'[c].cash = SumOf(ledger, Before(ledger, c))
              /\ \A sym \in Symbols : was'[c].qty[sym] = Net(BookedBefore(c), sym)
  <2>1. CASE c = now + 1
    <3>1. last.cash = SumOf(ledger, DOMAIN ledger) /\ \A sym \in Symbols : last.qty[sym] = Net(Booked, sym)
      BY <1>3, <1>4, <1>7, <1>8 DEF Cash
    <3> QED BY <1>5, <1>6, <1>10, <2>1, <3>1
  <2>2. CASE c # now + 1
    <3>1. c \in 1 .. now
      BY <1>2, <2>2
    <3> QED BY <1>10, <3>1 DEF WasOK
  <2> QED BY <2>1, <2>2
<1>12. \A c : BookedBefore(c)' = BookedBefore(c)
  BY <1>1 DEF BookedBefore, Booked
<1>13. now + 1 <= MaxTime /\ now + 1 \in Nat
  BY <1>1, <1>2
<1>14. \A i \in DOMAIN ledger : ledger[i].at <= now + 1
  <2>1. \A i \in DOMAIN ledger : ledger[i].at \in Nat /\ ledger[i].at <= now
    <3>1. \A i \in DOMAIN ledger : ledger[i] \in Rows
      BY DEF BooksOK
    <3> QED BY <3>1 DEF WasOK, Rows
  <2> QED BY <1>2, <2>1
<1>15. \A o \in Booked : orders[o].booked <= now + 1
  <2>1. \A o \in Booked : orders[o].booked \in Nat /\ orders[o].booked <= now
    BY DEF WasOK, HoldingsOK, OrdersOK, OrderRows, Booked
  <2> QED BY <1>2, <2>1
<1>16. Booked' = Booked
  BY <1>1 DEF Booked
<1>17. bars' \in BarChoices
  BY <1>1 DEF WasOK
<1>18. \A c \in 1 .. now' : /\ was'[c].cash = SumOf(ledger', Before(ledger', c))
                            /\ \A sym \in Symbols : was'[c].qty[sym] = Net(BookedBefore(c)', sym)
  BY <1>1, <1>11, <1>12, Zenon
<1> QED BY <1>1, <1>10, <1>13, <1>14, <1>15, <1>16, <1>17, <1>18 DEF WasOK

\* Nothing is on record at first.
LEMMA WasStarts ==
  ASSUME Init
  PROVE  WasOK
<1>1. /\ now = 0 /\ was = << >> /\ bars \in BarChoices /\ orders = [o \in Orders |-> Unplaced]
      /\ ledger = <<[amount |-> Opening, at |-> 0, external |-> TRUE]>>
  BY DEF Init
<1>2. Booked = {}
  BY <1>1 DEF Booked, Unplaced
<1>3. was \in Seq(Ended) /\ Len(was) = 0
  BY <1>1
<1>4. \A i \in DOMAIN ledger : ledger[i].at <= 0
  <2>1. PICK opening : opening = [amount |-> Opening, at |-> 0, external |-> TRUE]
    BY Zenon
  <2>2. ledger = <<opening>> /\ opening.at = 0
    BY <1>1, <2>1
  <2>3. DOMAIN ledger = {1} /\ ledger[1] = opening
    BY <2>2
  <2> QED BY <2>2, <2>3
<1> QED BY <1>1, <1>2, <1>3, <1>4, HistoryAssumption DEF WasOK

\* What the series' facts say of the instants before the request: of each fill
\* that it was booked, of what is held and of cash that they are what was
\* recorded.
FillsOK(fills, t) ==
  /\ \A k \in DOMAIN fills : \E o \in Booked : fills[k].sym = o.sym /\ fills[k].at = orders[o].at
  /\ BookedAtOnce => \A c \in 1 .. t : \A sym \in Symbols : HeldBefore(fills, c, sym) = was[c].qty[sym]
LedgerOK(rows, t) ==
  rows \in Seq(Rows) /\ \A c \in 1 .. t : was[c].cash = SumOf(rows, Before(rows, c))

Drawing(r) ==
  r.kind = "history" /\ r.pc \in {"ledger", "positions", "openSells", "realized", "shown", "unavailable"}
Drawable(r) == Drawing(r) /\ r.pc # "ledger"
ReadIs(r) ==
  /\ r.pc # "idle" => {"pc", "kind", "now"} \subseteq DOMAIN r /\ r.now \in Nat /\ r.now <= now
  /\ r.pc \in {"fills", "ledger"} => r.kind = "history"
  /\ Drawing(r) => "fills" \in DOMAIN r /\ FillsOK(r.fills, r.now)
  /\ Drawable(r) => "ledger" \in DOMAIN r /\ LedgerOK(r.ledger, r.now)
ReadOK == ReadIs(read)

\* What was booked and recorded stays.
Later ==
  /\ now' \in Nat /\ now <= now' /\ bars' = bars
  /\ \A c \in 1 .. now : was'[c] = was[c]
  /\ \A o \in Booked : o \in Booked' /\ orders'[o] = orders[o]

\* Every step leaves the record as it was.
LEMMA LaterIs ==
  ASSUME WasOK, Tick \/ Added
  PROVE  Later
<1>1. now \in Nat /\ was \in Seq(Ended) /\ Len(was) = now
  BY DEF WasOK
<1>2. CASE Tick
  <2>1. PICK last : last = [cash |-> Cash(ledger), qty |-> [sym \in Symbols |-> positions[sym].qty]]
    BY Zenon
  <2>2. was' = Append(was, last) /\ now' = now + 1 /\ orders' = orders /\ bars' = bars
    BY <1>2, <2>1 DEF Tick
  <2>3. \A c \in 1 .. now : was'[c] = was[c]
    BY <1>1, <2>2
  <2>4. now' \in Nat /\ now <= now'
    BY <1>1, <2>2
  <2>5. \A o \in Booked : o \in Booked' /\ orders'[o] = orders[o]
    BY <2>2 DEF Booked
  <2> QED BY <2>2, <2>3, <2>4, <2>5, Zenon DEF Later
<1>3. CASE Added
  BY <1>1, <1>3 DEF Added, Later
<1> QED BY <1>2, <1>3

\* And so what a request has read stays true of it.
LEMMA FactsStay ==
  ASSUME Later, NEW t \in Nat, t <= now, now \in Nat
  PROVE  /\ \A fills : FillsOK(fills, t) => FillsOK(fills, t)'
         /\ \A rows : LedgerOK(rows, t) => LedgerOK(rows, t)'
<1>1. \A c \in 1 .. t : was'[c] = was[c]
  <2>1. \A c \in 1 .. t : c \in 1 .. now
    OBVIOUS
  <2> QED BY <2>1 DEF Later
<1>2. BookedAtOnce' => BookedAtOnce
  BY DEF Later, BookedAtOnce
<1>3. \A o \in Booked : o \in Booked' /\ orders'[o] = orders[o]
  BY DEF Later
<1>4. ASSUME NEW fills, FillsOK(fills, t) PROVE FillsOK(fills, t)'
  <2>1. ASSUME NEW k \in DOMAIN fills
        PROVE  \E o \in Booked' : fills[k].sym = o.sym /\ fills[k].at = orders'[o].at
    <3>1. PICK o \in Booked : fills[k].sym = o.sym /\ fills[k].at = orders[o].at
      BY <1>4 DEF FillsOK
    <3> QED BY <1>3, <3>1
  <2>2. ASSUME BookedAtOnce', NEW c \in 1 .. t, NEW sym \in Symbols
        PROVE  HeldBefore(fills, c, sym) = was'[c].qty[sym]
    BY <1>1, <1>2, <1>4, <2>2 DEF FillsOK
  <2> QED BY <2>1, <2>2 DEF FillsOK
<1>5. ASSUME NEW rows, LedgerOK(rows, t) PROVE LedgerOK(rows, t)'
  BY <1>1, <1>5 DEF LedgerOK
<1> QED BY <1>4, <1>5

\* A request that waits keeps what it has read.
LEMMA ReadStays ==
  ASSUME ReadOK, Later, now \in Nat, read' = read
  PROVE  ReadOK'
<1>1. PICK r : r = read
  OBVIOUS
<1>2. ReadIs(r)
  BY <1>1 DEF ReadOK
<1>3. r.pc # "idle" => {"pc", "kind", "now"} \subseteq DOMAIN r /\ r.now \in Nat /\ r.now <= now'
  <2>1. now' \in Nat /\ now <= now'
    BY DEF Later
  <2>2. r.pc # "idle" => {"pc", "kind", "now"} \subseteq DOMAIN r /\ r.now \in Nat /\ r.now <= now
    BY <1>2 DEF ReadIs
  <2> QED BY <2>1, <2>2
<1>4. ASSUME Drawing(r) PROVE r.now \in Nat /\ r.now <= now
  BY <1>2, <1>4 DEF ReadIs, Drawing
<1>5. ASSUME Drawing(r) PROVE "fills" \in DOMAIN r /\ FillsOK(r.fills, r.now)'
  <2>1. PICK fills, t : fills = r.fills /\ t = r.now
    OBVIOUS
  <2>2. "fills" \in DOMAIN r /\ FillsOK(fills, t) /\ t \in Nat /\ t <= now
    BY <1>2, <1>4, <1>5, <2>1 DEF ReadIs
  <2>3. FillsOK(fills, t)'
    BY <2>2, FactsStay
  <2> QED BY <2>1, <2>2, <2>3
<1>6. ASSUME Drawable(r) PROVE "ledger" \in DOMAIN r /\ LedgerOK(r.ledger, r.now)'
  <2>1. PICK rows, t : rows = r.ledger /\ t = r.now
    OBVIOUS
  <2>2. "ledger" \in DOMAIN r /\ LedgerOK(rows, t) /\ t \in Nat /\ t <= now
    BY <1>2, <1>4, <1>6, <2>1 DEF ReadIs, Drawable
  <2>3. LedgerOK(rows, t)'
    BY <2>2, FactsStay
  <2> QED BY <2>1, <2>2, <2>3
<1>7. ReadIs(r)'
  BY <1>2, <1>3, <1>5, <1>6 DEF ReadIs
<1>8. read' = r
  BY <1>1
<1> QED BY <1>7, <1>8 DEF ReadOK, ReadIs, FillsOK, LedgerOK, Drawing, Drawable

\* The fills on record are those booked, and hold at an instant what was booked
\* before its end if each was booked as it occurred.
LEMMA FillsKnown ==
  ASSUME OrdersOK, WasOK, NEW t \in Nat, t <= now
  PROVE  FillsOK(FillsChronological, t)
<1>1. IsFiniteSet(Booked) /\ Linear(Booked, Chrono)
  BY ChronoIsLinear
<1>2. PICK fills : fills = FillsChronological
  OBVIOUS
<1>3. DOMAIN fills = 1 .. Cardinality(Booked) /\ \A k \in DOMAIN fills : fills[k] = FillOf(AtPlace(Booked, Chrono, k))
  <2>1. FillsChronological = [i \in 1 .. Cardinality(Booked) |-> FillOf(AtPlace(Booked, Chrono, i))]
    BY FillsAre, PTL
  <2> QED BY <1>2, <2>1
<1>4. ASSUME NEW k \in DOMAIN fills
      PROVE  \E o \in Booked : fills[k].sym = o.sym /\ fills[k].at = orders[o].at
  <2>1. PICK o : o = AtPlace(Booked, Chrono, k)
    OBVIOUS
  <2>2. o \in Booked
    BY <1>1, <1>3, <2>1, PlacesTaken
  <2>3. fills[k] = FillOf(o)
    BY <1>3, <2>1
  <2> QED BY <2>2, <2>3 DEF FillOf
<1>5. ASSUME BookedAtOnce, NEW c \in 1 .. t, NEW sym \in Symbols
      PROVE  HeldBefore(fills, c, sym) = was[c].qty[sym]
  <2>1. c \in 1 .. now
    BY DEF WasOK
  <2>2. was[c].qty[sym] = Net(BookedBefore(c), sym)
    BY <2>1 DEF WasOK
  <2>3. BookedBefore(c) = {o \in Booked : orders[o].at < c}
    BY <1>5 DEF BookedBefore, BookedAtOnce
  <2>4. HeldBefore(fills, c, sym) = Net({o \in Booked : orders[o].at < c}, sym)
    BY <1>2, HeldIs
  <2> QED BY <2>2, <2>3, <2>4
<1> QED BY <1>2, <1>4, <1>5 DEF FillsOK

\* The rows on record are those booked.
LEMMA LedgerKnown ==
  ASSUME WasOK, BooksOK, NEW t \in Nat, t <= now
  PROVE  LedgerOK(ledger, t)
<1>1. \A c \in 1 .. t : c \in 1 .. now
  BY DEF WasOK
<1> QED BY <1>1 DEF WasOK, BooksOK, LedgerOK

\* Where only the request moves, it is enough to look at it.
LEMMA ReadIsEnough ==
  ASSUME orders' = orders, now' = now, was' = was, ReadIs(read')
  PROVE  ReadOK'
<1>1. Booked' = Booked /\ (BookedAtOnce' <=> BookedAtOnce)
  BY DEF Booked, BookedAtOnce
<1>2. PICK r : r = read'
  OBVIOUS
<1>3. ReadIs(r)
  BY <1>2
<1>4. /\ r.pc # "idle" => {"pc", "kind", "now"} \subseteq DOMAIN r /\ r.now \in Nat /\ r.now <= now'
      /\ r.pc \in {"fills", "ledger"} => r.kind = "history"
  BY <1>3, SMTT(30) DEF ReadIs
<1>5. Drawing(r) => "fills" \in DOMAIN r /\ FillsOK(r.fills, r.now)'
  BY <1>1, <1>3 DEF ReadIs, FillsOK
<1>6. Drawable(r) => "ledger" \in DOMAIN r /\ LedgerOK(r.ledger, r.now)'
  BY <1>3 DEF ReadIs, LedgerOK
<1>7. ReadIs(r)'
  BY <1>4, <1>5, <1>6 DEF ReadIs
<1> QED BY <1>2, <1>7 DEF ReadOK, ReadIs, FillsOK, LedgerOK, Drawing, Drawable

\* What a request reads next is what is booked.
LEMMA ReadMoves ==
  ASSUME OrdersOK, BooksOK, WasOK, ReadOK, (\E kind \in Kinds : Start(kind)) \/ Reading \/ Answer
  PROVE  ReadOK'
<1>0. now \in Nat /\ ReadIs(read)
  BY DEF WasOK, ReadOK
<1>1. orders' = orders /\ now' = now /\ was' = was
  BY Zenon DEF Start, Reading, Answer, ReadFills, ReadLedger, ReadPositions, ReadOpenSells, ReadRealized, market
<1>2. ASSUME NEW kind \in Kinds, Start(kind) PROVE ReadIs(read')
  <2>1. PICK r : r = [pc |-> IF kind = "history" THEN "fills" ELSE "positions",
                      kind |-> kind, now |-> now, cash |-> Cash(ledger)]
    BY Zenon
  <2>2. /\ {"pc", "kind", "now"} \subseteq DOMAIN r /\ r.now = now /\ r.kind = kind
        /\ r.pc = IF kind = "history" THEN "fills" ELSE "positions"
    BY <2>1
  <2>3. read' = r
    BY <1>2, <2>1 DEF Start
  <2>4. r.pc = "fills" => r.kind = "history"
    BY <2>2
  <2>5. ~Drawing(r) /\ r.pc # "ledger"
    BY <2>2 DEF Drawing
  <2>6. r.now \in Nat /\ r.now <= now
    BY <1>0, <2>2
  <2>7. ReadIs(r)
    BY <2>2, <2>4, <2>5, <2>6 DEF ReadIs, Drawable
  <2> QED BY <2>3, <2>7
<1>3. ASSUME Answer PROVE ReadIs(read')
  <2>1. PICK r : r = NoRead
    OBVIOUS
  <2>2. r.pc = "idle"
    BY <2>1 DEF NoRead
  <2>3. ReadIs(r)
    BY <2>2 DEF ReadIs, Drawable, Drawing
  <2> QED BY <1>3, <2>1, <2>3 DEF Answer
<1>4. ASSUME NEW facts, Learn(facts), "pc" \in DOMAIN facts, facts.pc # "idle",
             read.pc # "idle", "kind" \notin DOMAIN facts, "now" \notin DOMAIN facts,
             facts.pc \in {"fills", "ledger"} => read.kind = "history",
             NEW r, r = read',
             Drawing(r) => \/ "fills" \in DOMAIN facts /\ FillsOK(facts.fills, read.now)
                           \/ "fills" \notin DOMAIN facts /\ Drawing(read),
             Drawable(r) => \/ "ledger" \in DOMAIN facts /\ LedgerOK(facts.ledger, read.now)
                            \/ "ledger" \notin DOMAIN facts /\ Drawable(read)
      PROVE  ReadIs(r)
  <2>1. {"pc", "kind", "now"} \subseteq DOMAIN read /\ read.now \in Nat /\ read.now <= now
    BY <1>0, <1>4 DEF ReadIs
  <2>2. /\ DOMAIN r = DOMAIN read \cup DOMAIN facts
        /\ \A k \in DOMAIN facts : r[k] = facts[k]
        /\ \A k \in DOMAIN read : k \notin DOMAIN facts => r[k] = read[k]
    BY <1>4, LearnIs, Zenon
  <2>3. r.pc = facts.pc /\ r.kind = read.kind /\ r.now = read.now /\ {"pc", "kind", "now"} \subseteq DOMAIN r
    BY <1>4, <2>1, <2>2
  <2>4. ASSUME Drawing(r) PROVE "fills" \in DOMAIN r /\ FillsOK(r.fills, r.now)
    <3>1. CASE "fills" \in DOMAIN facts /\ FillsOK(facts.fills, read.now)
      <4>1. r.fills = facts.fills /\ "fills" \in DOMAIN r
        BY <2>2, <3>1
      <4> QED BY <2>3, <3>1, <4>1
    <3>2. CASE "fills" \notin DOMAIN facts /\ Drawing(read)
      <4>1. "fills" \in DOMAIN read /\ FillsOK(read.fills, read.now)
        BY <1>0, <3>2 DEF ReadIs
      <4>2. r.fills = read.fills /\ "fills" \in DOMAIN r
        BY <2>2, <3>2, <4>1
      <4> QED BY <2>3, <4>1, <4>2
    <3> QED BY <1>4, <2>4, <3>1, <3>2
  <2>5. ASSUME Drawable(r) PROVE "ledger" \in DOMAIN r /\ LedgerOK(r.ledger, r.now)
    <3>1. CASE "ledger" \in DOMAIN facts /\ LedgerOK(facts.ledger, read.now)
      <4>1. r.ledger = facts.ledger /\ "ledger" \in DOMAIN r
        BY <2>2, <3>1
      <4> QED BY <2>3, <3>1, <4>1
    <3>2. CASE "ledger" \notin DOMAIN facts /\ Drawable(read)
      <4>1. "ledger" \in DOMAIN read /\ LedgerOK(read.ledger, read.now)
        BY <1>0, <3>2 DEF ReadIs
      <4>2. r.ledger = read.ledger /\ "ledger" \in DOMAIN r
        BY <2>2, <3>2, <4>1
      <4> QED BY <2>3, <4>1, <4>2
    <3> QED BY <1>4, <2>5, <3>1, <3>2
  <2>6. r.pc \in {"fills", "ledger"} => r.kind = "history"
    BY <1>4, <2>3
  <2> QED BY <2>1, <2>3, <2>4, <2>5, <2>6 DEF ReadIs
<1>5. read.pc # "idle" => read.now \in Nat /\ read.now <= now /\ {"pc", "kind", "now"} \subseteq DOMAIN read
  BY <1>0 DEF ReadIs
<1>6. PICK r : r = read'
  OBVIOUS
<1>7. ASSUME ReadFills PROVE ReadIs(read')
  <2>1. PICK facts : facts = [pc |-> "ledger", fills |-> FillsChronological]
    BY Zenon
  <2>2. DOMAIN facts = {"pc", "fills"} /\ facts.pc = "ledger" /\ facts.fills = FillsChronological
    BY <2>1
  <2>3. Learn(facts) /\ read.pc = "fills" /\ read.kind = "history"
    BY <1>0, <1>7, <2>1 DEF ReadFills, ReadIs
  <2>4. r.pc = "ledger"
    BY <1>6, <2>2, <2>3, LearnIs, Zenon
  <2>5. FillsOK(facts.fills, read.now) /\ ~Drawable(r)
    <3>1. FillsOK(FillsChronological, read.now)
      BY <1>5, <2>3, FillsKnown
    <3> QED BY <2>2, <2>4, <3>1 DEF Drawable
  <2> QED BY <1>4, <1>6, <2>2, <2>3, <2>5
<1>8. ASSUME ReadLedger PROVE ReadIs(read')
  <2>1. PICK facts : facts = [pc |-> "positions", ledger |-> ledger]
    BY Zenon
  <2>2. DOMAIN facts = {"pc", "ledger"} /\ facts.pc = "positions" /\ facts.ledger = ledger
    BY <2>1
  <2>3. Learn(facts) /\ read.pc = "ledger" /\ Drawing(read)
    BY <1>0, <1>8, <2>1 DEF ReadLedger, ReadIs, Drawing
  <2>4. LedgerOK(facts.ledger, read.now)
    <3>1. LedgerOK(ledger, read.now)
      BY <1>5, <2>3, LedgerKnown
    <3> QED BY <2>2, <3>1
  <2> QED BY <1>4, <1>6, <2>2, <2>3, <2>4
<1>9. ASSUME NEW facts, Learn(facts), "pc" \in DOMAIN facts, facts.pc \in {"openSells", "realized", "shown", "unavailable", "failed"},
             "kind" \notin DOMAIN facts, "now" \notin DOMAIN facts, "fills" \notin DOMAIN facts, "ledger" \notin DOMAIN facts,
             read.pc \in {"positions", "openSells", "realized"}
      PROVE  ReadIs(r)
  <2>1. r.pc = facts.pc /\ r.kind = read.kind
    BY <1>5, <1>6, <1>9, LearnIs, Zenon
  <2>2. Drawing(r) => Drawing(read) /\ Drawable(read)
    BY <1>9, <2>1 DEF Drawing, Drawable
  <2>3. Drawable(r) => Drawable(read)
    BY <2>2 DEF Drawable
  <2> QED BY <1>4, <1>6, <1>9, <2>2, <2>3
<1>10. ASSUME ReadPositions PROVE ReadIs(read')
  <2>1. PICK equity : equity = read.cash + FoldSet(LAMBDA sym, sum : sum + Notional(Quote[sym][now], positions[sym].qty), 0, Symbols)
    BY Zenon
  <2>2. PICK facts : facts = [pc |-> "openSells", positions |-> positions, equity |-> equity]
    BY Zenon
  <2>3. DOMAIN facts = {"pc", "positions", "equity"} /\ facts.pc = "openSells"
    BY <2>2
  <2>4. Learn(facts) /\ read.pc = "positions"
    BY <1>10, <2>1, <2>2, Zenon DEF ReadPositions
  <2> QED BY <1>9, <1>6, <2>3, <2>4
<1>11. ASSUME ReadOpenSells PROVE ReadIs(read')
  <2>1. PICK facts : facts = [pc |-> IF \E sym \in Symbols : RowFails(sym) THEN "failed" ELSE "realized"]
    BY Zenon
  <2>2. DOMAIN facts = {"pc"} /\ facts.pc \in {"failed", "realized"}
    BY <2>1
  <2>3. Learn(facts) /\ read.pc = "openSells"
    BY <1>11, <2>1 DEF ReadOpenSells
  <2> QED BY <1>9, <1>6, <2>2, <2>3
<1>12. ASSUME ReadRealized PROVE ReadIs(read')
  <2>1. PICK pc, realized, points : pc \in {"failed", "unavailable", "shown"} /\ read.pc = "realized"
                                    /\ Learn([pc |-> pc, realized |-> realized, points |-> points])
    BY <1>12, Zenon DEF ReadRealized
  <2>2. PICK facts : facts = [pc |-> pc, realized |-> realized, points |-> points]
    BY Zenon
  <2>3. DOMAIN facts = {"pc", "realized", "points"} /\ facts.pc = pc /\ Learn(facts)
    BY <2>1, <2>2
  <2> QED BY <1>9, <1>6, <2>1, <2>3
<1>13. ReadIs(read')
  BY <1>2, <1>3, <1>6, <1>7, <1>8, <1>10, <1>11, <1>12 DEF Reading
<1> QED BY <1>1, <1>13, ReadIsEnough

--------------------------------------------------------------------------------
(* A point is what the account was worth.                                      *)

\* What a series is drawn from, by its parts.
LEMMA HistoryFields ==
  /\ History.fills = read.fills /\ History.ledger = read.ledger /\ History.created = 0 /\ History.now = read.now
  /\ History.bar = Bar /\ History.lookback = Lookback /\ DOMAIN History.candles = Symbols
  /\ \A sym \in Symbols :
       /\ DOMAIN History.candles[sym] = {b \in bars[sym] : b <= now}
       /\ \A b \in bars[sym] : b <= now =>
            History.candles[sym][b] = Quote[sym][IF b + Bar <= now THEN b + Bar ELSE now]
BY DEF History

\* Which bars are over depends on the request and the vendor, not on the clock.
Opens(at) == IF at - Lookback > 0 THEN at - Lookback ELSE 0
Involved(fills, at) ==
  {sym \in Symbols : \/ \E i \in DOMAIN fills : fills[i].sym = sym /\ fills[i].at >= Opens(at)
                     \/ HeldBefore(fills, Opens(at), sym) > 0}
Ends(fills, at, has) ==
  {t \in UNION {has[sym] : sym \in Involved(fills, at)} : t >= Opens(at) - Bar /\ t + Bar > 0 /\ t + Bar < at}

\* So the grid of bars is the same whenever it is asked for.
LEMMA BarGridIs ==
  [](now \in Nat /\ read.now \in Nat /\ read.now <= now /\ bars \in BarChoices =>
       BarGrid(History) = Ends(read.fills, read.now, bars))
<1>1. ASSUME now \in Nat, read.now \in Nat, read.now <= now, bars \in BarChoices
      PROVE  BarGrid(History) = Ends(read.fills, read.now, bars)
  <2>1. PICK h : h = History
    OBVIOUS
  <2>2. /\ h.fills = read.fills /\ h.created = 0 /\ h.now = read.now
        /\ h.bar = Bar /\ h.lookback = Lookback /\ DOMAIN h.candles = Symbols
        /\ \A sym \in Symbols : DOMAIN h.candles[sym] = {b \in bars[sym] : b <= now}
    BY <2>1, HistoryFields
  <2>3. WindowStart(h) = Opens(read.now)
    BY <2>2 DEF WindowStart, Opens
  <2>4. InvolvedSymbols(h) = Involved(read.fills, read.now)
    BY <2>2, <2>3 DEF InvolvedSymbols, Involved
  <2>5. Involved(read.fills, read.now) \subseteq Symbols
    BY DEF Involved
  <2>6. BarGrid(h) = {t \in UNION {DOMAIN h.candles[sym] : sym \in Involved(read.fills, read.now)} :
                        t >= Opens(read.now) - Bar /\ t + Bar > 0 /\ t + Bar < read.now}
    BY <2>2, <2>3, <2>4 DEF BarGrid
  <2>7. ASSUME NEW sym \in Symbols, NEW t \in bars[sym], t + Bar < read.now PROVE t \in DOMAIN h.candles[sym]
    <3>1. t \in Nat /\ Bar \in Nat
      BY HistoryAssumption, <1>1
    <3>2. t <= now
      BY <1>1, <2>7, <3>1
    <3> QED BY <2>2, <3>2
  <2>8. \A sym \in Symbols : DOMAIN h.candles[sym] \subseteq bars[sym]
    BY <2>2
  <2> QED BY <2>1, <2>5, <2>6, <2>7, <2>8 DEF Ends
<1> QED BY <1>1, PTL

\* And from one state to the next.
LEMMA GridStays ==
  ASSUME now \in Nat, read.now \in Nat, read.now <= now, bars \in BarChoices,
         now' \in Nat, now <= now', bars' = bars, read'.now = read.now, read'.fills = read.fills
  PROVE  BarGrid(History)' = BarGrid(History)
<1>1. BarGrid(History) = Ends(read.fills, read.now, bars)
  BY BarGridIs, PTL
<1>2. read'.now \in Nat /\ read'.now <= now'
  OBVIOUS
<1>3. (now \in Nat /\ read.now \in Nat /\ read.now <= now /\ bars \in BarChoices =>
       BarGrid(History) = Ends(read.fills, read.now, bars))'
  BY BarGridIs, PTL
<1>4. BarGrid(History)' = Ends(read'.fills, read'.now, bars')
  BY <1>2, <1>3
<1> QED BY <1>1, <1>4

\* What a request that draws a series has read is a history.
LEMMA HistoryIs ==
  ASSUME OrdersOK, WasOK, ReadOK, Drawable(read)
  PROVE  /\ HistoryOK(History)
         /\ read.now \in Nat /\ read.now <= now /\ now \in Nat /\ now <= MaxTime /\ bars \in BarChoices
         /\ FillsOK(read.fills, read.now) /\ LedgerOK(read.ledger, read.now)
<1>1. /\ read.now \in Nat /\ read.now <= now /\ FillsOK(read.fills, read.now) /\ LedgerOK(read.ledger, read.now)
  BY DEF ReadOK, ReadIs, Drawable, Drawing
<1>2. now \in Nat /\ now <= MaxTime /\ bars \in BarChoices
  BY DEF WasOK
<1>3. PICK h : h = History
  OBVIOUS
<1>4. /\ h.fills = read.fills /\ h.ledger = read.ledger /\ h.created = 0 /\ h.now = read.now
      /\ h.bar = Bar /\ h.lookback = Lookback /\ DOMAIN h.candles = Symbols
      /\ \A sym \in Symbols : DOMAIN h.candles[sym] = {b \in bars[sym] : b <= now}
  BY <1>3, HistoryFields
<1>5. ASSUME NEW sym \in DOMAIN h.candles
      PROVE  DOMAIN h.candles[sym] \in SUBSET Nat /\ IsFiniteSet(DOMAIN h.candles[sym])
  <2>1. bars[sym] \subseteq Nat /\ IsFiniteSet(bars[sym])
    BY <1>2, <1>4, HistoryAssumption
  <2>2. DOMAIN h.candles[sym] \in SUBSET bars[sym]
    BY <1>4
  <2> QED BY <2>1, <2>2, FS_Subset
<1>6. IsFiniteSet(DOMAIN read.ledger) /\ \A i \in DOMAIN read.ledger : read.ledger[i].at \in Nat
  <2>1. PICK rows \in Seq(Rows) : rows = read.ledger
    BY <1>1 DEF LedgerOK
  <2>2. PICK n \in Nat : DOMAIN rows = 1 .. n
    BY <2>1
  <2>3. IsFiniteSet(1 .. n)
    BY FS_Interval
  <2>4. \A i \in DOMAIN rows : rows[i] \in Rows
    BY <2>1
  <2> QED BY <2>1, <2>2, <2>3, <2>4 DEF Rows
<1>7. \A k \in DOMAIN read.fills : read.fills[k].at \in Nat
  <2>1. \A o \in Booked : orders[o].at \in Nat
    BY DEF OrdersOK, OrderRows, Booked
  <2> QED BY <1>1, <2>1 DEF FillsOK
<1>8. HistoryOK(h)
  BY <1>1, <1>4, <1>5, <1>6, <1>7, HistoryAssumption, PortfolioAssumption DEF HistoryOK
<1> QED BY <1>1, <1>2, <1>3, <1>8

\* A series of bars fails where a price is missing.
LEMMA FailsUnpriced ==
  ASSUME OrdersOK, WasOK, ReadOK, Drawable(read), Unavailable(History), BarGrid(History) # {}
  PROVE  Unpriced
<1>0. PICK h : h = History
  OBVIOUS
<1>1. /\ HistoryOK(h) /\ read.now \in Nat /\ read.now <= now /\ now \in Nat /\ bars \in BarChoices
      /\ FillsOK(read.fills, read.now)
  BY <1>0, HistoryIs
<1>2. /\ h.fills = read.fills /\ h.now = read.now /\ h.bar = Bar /\ DOMAIN h.candles = Symbols
      /\ \A sym \in Symbols : DOMAIN h.candles[sym] = {b \in bars[sym] : b <= now}
  BY <1>0, HistoryFields
<1>3. PICK grid : grid = Grid(h)
  OBVIOUS
<1>4. PICK n \in Nat : GridOK(h, grid.at, n, grid.bar)
  BY <1>1, <1>3, GridIs
<1>5. \A sym \in Symbols : \A b \in bars[sym] : b \in Nat
  BY <1>1, HistoryAssumption
<1>6. ASSUME NEW k \in DOMAIN h.fills
      PROVE  \E o \in Booked : o.sym = h.fills[k].sym /\ orders[o].at = h.fills[k].at
  BY <1>1, <1>2 DEF FillsOK
<1>7. ASSUME NEW sym \in InvolvedSymbols(h), DOMAIN h.candles[sym] = {} PROVE Unpriced
  <2>1. PICK k \in DOMAIN h.fills : h.fills[k].sym = sym
    BY InvolvedWasFilled
  <2>2. PICK o \in Booked : o.sym = sym
    BY <1>6, <2>1
  <2>3. sym \in Symbols
    BY <1>2 DEF InvolvedSymbols
  <2>4. \A b \in bars[sym] : b \in Nat /\ ~(b <= now)
    BY <1>2, <1>5, <1>7, <2>3
  <2>5. \A b \in bars[sym] : b > read.now
    BY <1>1, <2>4
  <2> QED BY <2>2, <2>5 DEF Unpriced
<1>8. ASSUME NEW i \in 1 .. n, NEW sym \in HeldAt(h, grid, i), Carried(h, grid, i, sym) = {} PROVE Unpriced
  <2>1. sym \in InvolvedSymbols(h) /\ sym \in Symbols
    BY <1>1, <1>2, <1>4, HeldIsInvolved, Zenon DEF HeldAt
  <2>2. PICK k \in DOMAIN h.fills : h.fills[k].sym = sym /\ h.fills[k].at < Cutoff(grid, i)
    BY <1>1, <1>4, HeldIsInvolved
  <2>3. PICK o \in Booked : o.sym = sym /\ orders[o].at < Cutoff(grid, i)
    BY <1>6, <2>2
  <2>4. PICK t : t = grid.at[i]
    OBVIOUS
  <2>5. t \in Nat /\ t + Bar < read.now /\ grid.bar = Bar /\ t \in BarGrid(h) /\ Bar \in Nat \ {0}
    BY <1>0, <1>2, <1>4, <2>4, HistoryAssumption DEF GridOK
  <2>6. Cutoff(grid, i) = t + Bar
    <3>1. Bar > 0
      BY <2>5
    <3> QED BY <2>4, <2>5, <3>1 DEF Cutoff
  <2>7. {b \in DOMAIN h.candles[sym] : b + Bar <= t + Bar} = {}
    <3>1. Carried(h, grid, i, sym) = Over(h, sym, grid.at[i] + grid.bar)
      <4>1. BarGrid(h) # {}
        BY <1>0
      <4>2. Settled(h, grid, i, sym)
        BY <4>1 DEF Settled
      <4>3. HistoryOK(h) /\ sym \in InvolvedSymbols(h)
        BY <1>1, <2>1
      <4> QED BY <1>4, <4>2, <4>3, CarriedIs
    <3> QED BY <1>2, <1>8, <2>4, <2>5, <3>1 DEF Over
  <2>8. ASSUME NEW b \in bars[sym] PROVE b > t
    <3>1. b \in Nat
      BY <1>5, <2>1
    <3>2. b <= t => b <= now /\ b + Bar <= t + Bar
      BY <1>1, <2>5, <3>1
    <3>3. b <= now => b \in DOMAIN h.candles[sym]
      BY <1>2, <2>1
    <3>4. ~(b <= t)
      BY <2>7, <3>2, <3>3
    <3> QED BY <2>5, <3>1, <3>4
  <2> QED BY <1>0, <2>3, <2>5, <2>6, <2>8 DEF Unpriced
<1>9. \A i \in 1 .. n : \A sym \in HeldAt(h, grid, i) : sym \in InvolvedSymbols(h)
  BY <1>1, <1>4, HeldIsInvolved, Zenon
<1>10. DOMAIN grid.at = 1 .. n
  BY <1>4 DEF GridOK
<1> QED BY <1>0, <1>3, <1>7, <1>8, <1>9, <1>10 DEF Unavailable

\* A history being drawn, its grid and the number of its points.
Draws(h, grid, n) ==
  /\ h = History /\ grid = Grid(h) /\ GridOK(h, grid.at, n, grid.bar)
  /\ OrdersOK /\ WasOK /\ ReadOK /\ Drawable(read) /\ BookedAtOnce /\ ~Unavailable(h)

\* Where a point is: at an instant that is over, on record.
LEMMA PointTime ==
  ASSUME NEW h, NEW grid, NEW n, Draws(h, grid, n), NEW i \in 1 .. n
  PROVE  /\ PointAt(h, grid, i).t = grid.at[i] + grid.bar
         /\ grid.at[i] + grid.bar \in Nat /\ grid.at[i] + grid.bar < read.now
         /\ BarGrid(h) # {} => grid.at[i] + grid.bar >= 1
         /\ Cutoff(grid, i) \in 1 .. read.now /\ Cutoff(grid, i) \in 1 .. now
         /\ Cutoff(grid, i) = IF BarGrid(h) # {} THEN grid.at[i] + grid.bar ELSE grid.at[i] + grid.bar + 1
<1>1. h = History /\ GridOK(h, grid.at, n, grid.bar)
  BY DEF Draws
<1>2. HistoryOK(h) /\ read.now \in Nat /\ read.now <= now /\ now \in Nat
  BY HistoryIs DEF Draws
<1>3. h.now = read.now /\ h.bar = Bar /\ Bar \in Nat \ {0}
  BY <1>1, HistoryFields, HistoryAssumption
<1>4. PICK t, b \in Nat : t = grid.at[i] /\ b = grid.bar
  BY <1>1 DEF GridOK
<1>5. t + b < read.now
  BY <1>1, <1>3, <1>4 DEF GridOK
<1>6. PointAt(h, grid, i).t = t + b
  BY <1>4 DEF PointAt
<1>7. CASE BarGrid(h) # {}
  <2>1. b = Bar /\ b > 0
    BY <1>1, <1>3, <1>4, <1>7 DEF GridOK
  <2>2. Cutoff(grid, i) = t + b
    BY <1>4, <2>1 DEF Cutoff
  <2>3. t + b >= 1 /\ t + b \in 1 .. read.now /\ t + b \in 1 .. now
    BY <1>2, <1>5, <2>1
  <2> QED BY <1>4, <1>5, <1>6, <1>7, <2>2, <2>3
<1>8. CASE BarGrid(h) = {}
  <2>1. b = 0
    BY <1>1, <1>4, <1>8 DEF GridOK
  <2>2. Cutoff(grid, i) = t + 1
    BY <1>4, <2>1 DEF Cutoff
  <2>3. t + 1 \in 1 .. read.now /\ t + 1 \in 1 .. now /\ t + b + 1 = t + 1
    BY <1>2, <1>5, <2>1
  <2> QED BY <1>4, <1>5, <1>6, <1>8, <2>2, <2>3
<1> QED BY <1>7, <1>8

\* What a symbol held at a point is worth is the last close by then.
LEMMA WorthIs ==
  ASSUME NEW h, NEW grid, NEW n, Draws(h, grid, n), NEW i \in 1 .. n, NEW sym \in HeldAt(h, grid, i),
         Settled(h, grid, i, sym)
  PROVE  /\ sym \in Symbols /\ was[Cutoff(grid, i)].qty[sym] # 0
         /\ Worth(h, grid, i, sym) = WorthThen(sym, Cutoff(grid, i), grid.at[i] + grid.bar)
         /\ Worth(h, grid, i, sym) \in Int
<1>1. h = History /\ grid = Grid(h) /\ GridOK(h, grid.at, n, grid.bar) /\ WasOK /\ ~Unavailable(h) /\ BookedAtOnce
  BY DEF Draws
<1>2. /\ HistoryOK(h) /\ read.now \in Nat /\ read.now <= now /\ now \in Nat /\ now <= MaxTime /\ bars \in BarChoices
      /\ FillsOK(read.fills, read.now)
  BY HistoryIs DEF Draws
<1>3. /\ h.fills = read.fills /\ h.bar = Bar /\ DOMAIN h.candles = Symbols /\ Bar \in Nat \ {0}
      /\ \A s \in Symbols : /\ DOMAIN h.candles[s] = {b \in bars[s] : b <= now}
                            /\ \A b \in bars[s] : b <= now =>
                                 h.candles[s][b] = Quote[s][IF b + Bar <= now THEN b + Bar ELSE now]
  BY <1>1, HistoryFields, HistoryAssumption
<1>4. PICK c, t : c = Cutoff(grid, i) /\ t = grid.at[i] + grid.bar
  OBVIOUS
<1>5. c \in 1 .. read.now /\ c \in 1 .. now /\ t \in Nat /\ t < read.now
  BY <1>4, PointTime
<1>6. sym \in Symbols /\ HeldBefore(h.fills, c, sym) > 0
  BY <1>3, <1>4 DEF HeldAt
<1>7. PICK q \in Nat : q = was[c].qty[sym]
  <2>1. was[c] \in Ended
    BY <1>1, <1>5 DEF WasOK
  <2> QED BY <1>6, <2>1 DEF Ended
<1>8. HeldBefore(h.fills, c, sym) = q /\ q # 0
  <2>1. HeldBefore(h.fills, c, sym) = q
    BY <1>1, <1>2, <1>3, <1>5, <1>6, <1>7 DEF FillsOK
  <2> QED BY <1>6, <2>1
<1>9. sym \in InvolvedSymbols(h) /\ i \in DOMAIN grid.at
  <2>1. sym \in InvolvedSymbols(h)
    BY <1>1, <1>2, HeldIsInvolved
  <2>2. DOMAIN grid.at = 1 .. n
    BY <1>1 DEF GridOK
  <2> QED BY <2>1, <2>2
<1>10. PICK V : V = {b \in bars[sym] : b + Bar <= t}
  BY Zenon
<1>11. \A b \in bars[sym] : b \in Nat
  BY <1>2, <1>6, HistoryAssumption
<1>12. Carried(h, grid, i, sym) = V
  <2>1. Carried(h, grid, i, sym) = Over(h, sym, t)
    BY <1>1, <1>2, <1>4, <1>9, CarriedIs
  <2>2. \A b \in bars[sym] : b + Bar <= t => b <= now
    BY <1>2, <1>3, <1>5, <1>11
  <2>3. Over(h, sym, t) = V
    BY <1>3, <1>6, <1>10, <2>2 DEF Over
  <2> QED BY <2>1, <2>3
<1>13. V # {}
  BY <1>1, <1>9, <1>12 DEF Unavailable
<1>14. PICK b \in V : b = Max(V)
  <2>1. V \in SUBSET Nat
    BY <1>10, <1>11
  <2>2. \A x \in V : x <= t
    BY <1>3, <1>5, <1>10, <1>11
  <2> QED BY <1>5, <1>13, <2>1, <2>2, GreatestIs, Zenon
<1>15. b \in Nat /\ b \in bars[sym] /\ b + Bar <= t /\ b <= now /\ b + Bar <= now /\ b + Bar \in 0 .. MaxTime
  BY <1>2, <1>3, <1>5, <1>10, <1>11, HistoryAssumption
<1>16. PICK px \in Nat : px = Quote[sym][b + Bar]
  BY <1>6, <1>15, HistoryAssumption
<1>17. Close(h, grid, i, sym) = px
  BY <1>3, <1>6, <1>12, <1>14, <1>15, <1>16 DEF Close
<1>18. LastClose(sym, t) = px
  BY <1>10, <1>14, <1>16 DEF LastClose
<1>19. Worth(h, grid, i, sym) = Notional(px, q)
  BY <1>4, <1>8, <1>17 DEF Worth
<1>20. WorthThen(sym, c, t) = Notional(px, q)
  BY <1>7, <1>8, <1>18 DEF WorthThen
<1>21. Notional(px, q) \in Int
  <2>1. px * q \in Int /\ UnitsPerCent \in Nat \ {0}
    BY DEF UnitsPerCent
  <2> QED BY <2>1, RoundsToNearest DEF Notional
<1> QED BY <1>4, <1>6, <1>7, <1>8, <1>19, <1>20, <1>21

\* A settled point is what the account was worth.
LEMMA PointTrue ==
  ASSUME NEW h, NEW grid, NEW n, Draws(h, grid, n), NEW i \in 1 .. n, \A sym \in Symbols : Settled(h, grid, i, sym)
  PROVE  PointIsTrue(PointAt(h, grid, i), Cutoff(grid, i))
<1>1. h = History /\ WasOK /\ BookedAtOnce
  BY DEF Draws
<1>2. FillsOK(read.fills, read.now) /\ LedgerOK(read.ledger, read.now)
  BY HistoryIs DEF Draws
<1>3. h.fills = read.fills /\ h.ledger = read.ledger /\ DOMAIN h.candles = Symbols
  BY <1>1, HistoryFields
<1>4. PICK c, t : c = Cutoff(grid, i) /\ t = grid.at[i] + grid.bar
  OBVIOUS
<1>5. c \in 1 .. read.now /\ c \in 1 .. now /\ PointAt(h, grid, i).t = t
  BY <1>4, PointTime
<1>6. SumOf(h.ledger, Before(h.ledger, c)) = was[c].cash
  BY <1>2, <1>3, <1>5 DEF LedgerOK
<1>7. PICK held : held = HeldAt(h, grid, i)
  OBVIOUS
<1>8. PICK f : f = [sym \in held |-> Worth(h, grid, i, sym)]
  BY Zenon
<1>9. PICK g : g = [sym \in Symbols |-> WorthThen(sym, c, t)]
  BY Zenon
<1>10. held \in SUBSET Symbols
  BY <1>3, <1>7 DEF HeldAt
<1>11. ASSUME NEW sym \in held PROVE g[sym] = f[sym] /\ f[sym] \in Int
  <2>1. Settled(h, grid, i, sym) /\ sym \in HeldAt(h, grid, i)
    BY <1>7, <1>10
  <2>2. Worth(h, grid, i, sym) = WorthThen(sym, c, t) /\ Worth(h, grid, i, sym) \in Int
    BY <1>4, <2>1, WorthIs
  <2> QED BY <1>8, <1>9, <1>10, <2>2
<1>12. ASSUME NEW sym \in Symbols \ held PROVE g[sym] = 0
  <2>1. ~(HeldBefore(h.fills, c, sym) > 0)
    BY <1>3, <1>4, <1>7 DEF HeldAt
  <2>2. was[c] \in Ended
    BY <1>1, <1>5 DEF WasOK
  <2>3. PICK q \in Nat : q = was[c].qty[sym]
    BY <2>2 DEF Ended
  <2>4. HeldBefore(h.fills, c, sym) = q
    BY <1>1, <1>2, <1>3, <1>5, <2>3 DEF FillsOK
  <2>5. q = 0
    BY <2>1, <2>4
  <2> QED BY <1>9, <2>3, <2>5, Zenon DEF WorthThen
<1>13. IsFiniteSet(Symbols) /\ IsFiniteSet(held)
  BY <1>10, PortfolioAssumption, FS_Subset
<1>14. SumFunctionOnSet(g, Symbols) = SumFunctionOnSet(g, held)
  <2>1. \A sym \in Symbols : g[sym] \in Int
    BY <1>11, <1>12
  <2> QED BY <1>10, <1>12, <1>13, <2>1, SumSupport
<1>15. SumFunctionOnSet(g, held) = SumFunctionOnSet(f, held)
  BY <1>11, <1>13, SumSame
<1>16. PointAt(h, grid, i).value = SumOf(h.ledger, Before(h.ledger, c)) + SumFunctionOnSet(f, held)
  BY <1>4, <1>7, <1>8 DEF PointAt
<1>17. PICK p : p = PointAt(h, grid, i)
  OBVIOUS
<1>18. p.value = was[c].cash + SumFunctionOnSet(g, Symbols) /\ p.t = t
  BY <1>5, <1>6, <1>14, <1>15, <1>16, <1>17
<1>19. PointIsTrue(p, c)
  BY <1>9, <1>18 DEF PointIsTrue
<1> QED BY <1>4, <1>17, <1>19

\* A point before today's, and the series: what PointsAreTrue says, and that a
\* point is at an instant on record.
TrueAt(past, i) ==
  /\ past[i].t \in Nat /\ (OnBars => past[i].t >= 1)
  /\ past[i].t < read.now
  /\ i > 1 => past[i-1].t < past[i].t
  /\ \/ ~OnBars /\ \E j \in 1 .. i : \E sym \in Symbols : past[j].t \in bars[sym]
     \/ PointIsTrue(past[i], IF OnBars THEN past[i].t ELSE past[i].t + 1)
AllTrue(past) == \A i \in DOMAIN past : TrueAt(past, i)
PointsOK ==
  /\ (read.pc = "unavailable" /\ OnBars) => Unpriced
  /\ (read.pc = "shown" /\ read.kind = "history" /\ BookedAtOnce) => AllTrue(Front(read.points))

\* A series drawn from what was read is true at each of its points.
LEMMA SeriesTrue ==
  ASSUME OrdersOK, WasOK, ReadOK, Drawable(read), BookedAtOnce, ~Unavailable(History)
  PROVE  AllTrue(Front(EquitySeries(History)))
<1>1. PICK h : h = History
  OBVIOUS
<1>2. PICK grid : grid = Grid(h)
  OBVIOUS
<1>3. HistoryOK(h)
  BY <1>1, HistoryIs
<1>4. PICK n \in Nat : GridOK(h, grid.at, n, grid.bar)
  BY <1>2, <1>3, GridIs
<1>5. Draws(h, grid, n)
  BY <1>1, <1>2, <1>4 DEF Draws
<1>6. PICK past : past = Front(EquitySeries(h))
  OBVIOUS
<1>7. PICK m \in 0 .. n : DOMAIN past = 1 .. m /\ \A i \in 1 .. m : past[i] = PointAt(h, grid, i)
  BY <1>2, <1>4, <1>6, SeriesIs, Zenon
<1>8. \A i \in 1 .. m : i \in 1 .. n
  BY <1>4, <1>7
<1>9. OnBars <=> BarGrid(h) # {}
  BY <1>1 DEF OnBars
<1>10. ASSUME NEW i \in 1 .. m
       PROVE  /\ past[i].t = grid.at[i] + grid.bar /\ past[i].t \in Nat /\ past[i].t < read.now
              /\ OnBars => past[i].t >= 1
              /\ Cutoff(grid, i) = IF OnBars THEN past[i].t ELSE past[i].t + 1
  BY <1>5, <1>7, <1>8, <1>9, PointTime
<1>11. ASSUME NEW i \in 1 .. m PROVE TrueAt(past, i)
  <2>1. i > 1 => past[i-1].t < past[i].t
    <3>1. ASSUME i > 1 PROVE past[i-1].t < past[i].t
      <4>1. PICK j \in 1 .. m : j = i - 1 /\ j < i
        BY <1>7, <3>1
      <4>2. PICK t, u, b \in Nat : t = grid.at[j] /\ u = grid.at[i] /\ b = grid.bar
        BY <1>4, <1>8, Zenon DEF GridOK
      <4>3. t < u
        BY <1>4, <1>8, <4>1, <4>2 DEF GridOK
      <4>4. past[j].t = t + b /\ past[i].t = u + b
        BY <1>10, <4>2
      <4>5. past[j].t < past[i].t
        BY <4>3, <4>4
      <4> QED BY <4>1, <4>5
    <3> QED BY <3>1
  <2>2. ASSUME ~(~OnBars /\ \E j \in 1 .. i : \E sym \in Symbols : past[j].t \in bars[sym])
        PROVE  PointIsTrue(past[i], IF OnBars THEN past[i].t ELSE past[i].t + 1)
    <3>1. ASSUME NEW sym \in Symbols PROVE Settled(h, grid, i, sym)
      <4>1. CASE OnBars
        BY <1>9, <4>1 DEF Settled
      <4>2. CASE ~OnBars
        <5>1. grid.bar = 0
          BY <1>4, <1>9, <4>2 DEF GridOK
        <5>2. ASSUME NEW j \in 1 .. i PROVE grid.at[j] \notin DOMAIN h.candles[sym]
          <6>1. j \in 1 .. m
            BY <1>7
          <6>2. PICK t \in Nat : t = grid.at[j]
            BY <1>4, <1>8, <6>1 DEF GridOK
          <6>3. past[j].t = t
            BY <1>10, <5>1, <6>1, <6>2
          <6>4. past[j].t \notin bars[sym]
            BY <2>2, <4>2
          <6>5. DOMAIN h.candles[sym] \subseteq bars[sym]
            BY <1>1, HistoryFields
          <6> QED BY <6>2, <6>3, <6>4, <6>5
        <5> QED BY <5>2 DEF Settled
      <4> QED BY <4>1, <4>2
    <3>2. PointIsTrue(PointAt(h, grid, i), Cutoff(grid, i))
      BY <1>5, <1>8, <3>1, PointTrue
    <3>3. past[i] = PointAt(h, grid, i)
      BY <1>7
    <3>4. Cutoff(grid, i) = IF OnBars THEN past[i].t ELSE past[i].t + 1
      BY <1>10
    <3> QED BY <3>2, <3>3, <3>4
  <2> QED BY <1>10, <2>1, <2>2 DEF TrueAt
<1> QED BY <1>1, <1>6, <1>7, <1>11 DEF AllTrue

\* What is on record of an instant stays, and so what was true of it.
LEMMA TrueStays ==
  ASSUME Later, now \in Nat, read.now \in Nat, read.now <= now, read'.now = read.now,
         BarGrid(History)' = BarGrid(History), NEW past, AllTrue(past)
  PROVE  AllTrue(past)'
<1>1. (OnBars' <=> OnBars) /\ bars' = bars
  BY DEF OnBars, Later
<1>2. ASSUME NEW i \in DOMAIN past PROVE TrueAt(past, i)'
  <2>1. TrueAt(past, i)
    BY DEF AllTrue
  <2>2. PICK t \in Nat : t = past[i].t /\ t < read.now /\ (OnBars => t >= 1)
    BY <2>1 DEF TrueAt
  <2>3. PICK c : c = IF OnBars THEN t ELSE t + 1
    OBVIOUS
  <2>4. c \in 1 .. now
    BY <2>2, <2>3
  <2>5. was'[c] = was[c]
    BY <2>4 DEF Later
  <2>6. \A sym, u : LastClose(sym, u)' = LastClose(sym, u)
    BY <1>1 DEF LastClose
  <2>7. \A sym, u : WorthThen(sym, c, u)' = WorthThen(sym, c, u)
    BY <2>5, <2>6 DEF WorthThen
  <2>8. PICK p : p = past[i]
    OBVIOUS
  <2>9. PointIsTrue(p, c) => PointIsTrue(p, c)'
    BY <2>5, <2>7 DEF PointIsTrue
  <2>10. TrueAt(past, i) <=> /\ past[i].t \in Nat /\ (OnBars => past[i].t >= 1)
                             /\ past[i].t < read.now
                             /\ i > 1 => past[i-1].t < past[i].t
                             /\ \/ ~OnBars /\ \E j \in 1 .. i : \E sym \in Symbols : past[j].t \in bars[sym]
                                \/ PointIsTrue(p, c)
    BY <2>2, <2>3, <2>8 DEF TrueAt
  <2>11. TrueAt(past, i)' <=> /\ past[i].t \in Nat /\ (OnBars' => past[i].t >= 1)
                              /\ past[i].t < read'.now
                              /\ i > 1 => past[i-1].t < past[i].t
                              /\ \/ ~OnBars' /\ \E j \in 1 .. i : \E sym \in Symbols : past[j].t \in bars'[sym]
                                 \/ PointIsTrue(p, c)'
    BY <1>1, <2>2, <2>3, <2>8 DEF TrueAt
  <2> QED BY <1>1, <2>1, <2>9, <2>10, <2>11
<1> QED BY <1>2 DEF AllTrue

\* A price that was missing stays missing.
LEMMA UnpricedStays ==
  ASSUME Later, read'.now = read.now, BarGrid(History)' = BarGrid(History), Unpriced
  PROVE  Unpriced'
<1>1. PICK o \in Booked : \/ \A b \in bars[o.sym] : b > read.now
                          \/ \E t \in BarGrid(History) : orders[o].at < t + Bar /\ \A b \in bars[o.sym] : b > t
  BY DEF Unpriced
<1>2. o \in Booked' /\ orders'[o] = orders[o] /\ bars' = bars
  BY DEF Later
<1>3. PICK grid : grid = BarGrid(History)
  OBVIOUS
<1>4. BarGrid(History)' = grid
  BY <1>3
<1> QED BY <1>1, <1>2, <1>3, <1>4 DEF Unpriced

\* A request that is begun, reads on or is answered.
Served == (\E kind \in Kinds : Start(kind)) \/ Reading \/ Answer

\* What else moves leaves the request alone.
LEMMA RequestWaits ==
  ASSUME Next
  PROVE  read' = read \/ Served
<1>1. ASSUME Tick PROVE read' = read
  BY <1>1 DEF Tick
<1>2. ASSUME NEW o \in Orders, Place(o) PROVE read' = read
  BY <1>2 DEF Place
<1>3. ASSUME NEW o \in Orders, Execute(o) PROVE read' = read
  BY <1>3 DEF Execute
<1>4. ASSUME NEW o \in Orders, BookFill(o) PROVE read' = read
  BY <1>4 DEF BookFill
<1>5. ASSUME NEW amount \in Flows, Transfer(amount) PROVE read' = read
  BY <1>5 DEF Transfer
<1> QED BY <1>1, <1>2, <1>3, <1>4, <1>5 DEF Next, Served

\* A step of another screen adds nothing.
LEMMA StutterAdds ==
  ASSUME UNCHANGED vars
  PROVE  Added /\ read' = read
<1>1. /\ now' = now /\ bars' = bars /\ was' = was /\ ledger' = ledger /\ orders' = orders /\ read' = read
  BY DEF vars
<1> QED BY <1>1 DEF Added, Booked

\* What is on record of each instant is an invariant of the specification.
LEMMA WasHold == FiguresSpec => []WasOK
<1>1. FiguresInit => WasOK
  BY WasStarts DEF FiguresInit
<1>2. ASSUME HoldingsOK, BooksOK, WasOK, [FiguresNext]_figureVars PROVE WasOK'
  <2>1. CASE Next
    BY <1>2, <2>1, StepAdds, WasTicks, WasStays
  <2>2. CASE UNCHANGED vars
    BY <1>2, <2>2, StutterAdds, WasStays
  <2> QED BY <1>2, <2>1, <2>2 DEF FiguresNext, figureVars
<1> QED BY <1>1, <1>2, HoldingsHold, BooksHold, PTL DEF FiguresSpec

\* A step as the points see it: what was stays, and the request moves or not.
LEMMA StepIsLater ==
  ASSUME HoldingsOK, BooksOK, WasOK, [FiguresNext]_figureVars
  PROVE  /\ Later
         /\ read' = read \/ Served
<1>1. CASE Next
  <2>1. Tick \/ Added
    BY <1>1, StepAdds
  <2>2. Later
    BY <2>1, LaterIs
  <2>3. read' = read \/ Served
    BY <1>1, RequestWaits
  <2> QED BY <2>2, <2>3
<1>2. CASE UNCHANGED vars
  <2>1. Added /\ read' = read
    BY <1>2, StutterAdds
  <2>2. Later
    BY <2>1, LaterIs
  <2> QED BY <2>1, <2>2
<1> QED BY <1>1, <1>2 DEF FiguresNext, figureVars

\* And so is what the request has read.
LEMMA ReadHold == FiguresSpec => []ReadOK
<1>1. FiguresInit => ReadOK
  <2>1. ASSUME Init PROVE ReadOK
    <3>1. PICK r : r = NoRead
      OBVIOUS
    <3>2. r.pc = "idle"
      BY <3>1 DEF NoRead
    <3>3. ReadIs(r)
      BY <3>2 DEF ReadIs, Drawable, Drawing
    <3> QED BY <2>1, <3>1, <3>3 DEF Init, ReadOK
  <2> QED BY <2>1 DEF FiguresInit
<1>2. ASSUME HoldingsOK, BooksOK, WasOK, ReadOK, [FiguresNext]_figureVars PROVE ReadOK'
  <2>1. OrdersOK /\ now \in Nat
    BY <1>2 DEF HoldingsOK, WasOK
  <2>2. Later /\ (read' = read \/ Served)
    BY <1>2, StepIsLater
  <2> QED BY <1>2, <2>1, <2>2, ReadStays, ReadMoves DEF Served
<1> QED BY <1>1, <1>2, HoldingsHold, BooksHold, WasHold, PTL DEF FiguresSpec

\* What is so of a request answered stays so while it is.
LEMMA PointsStay ==
  ASSUME WasOK, ReadOK, PointsOK, Later, read' = read
  PROVE  PointsOK'
<1>1. now \in Nat /\ bars \in BarChoices
  BY DEF WasOK
<1>2. now' \in Nat /\ now <= now' /\ bars' = bars
  BY DEF Later
<1>3. ASSUME read.pc # "idle"
      PROVE  read.now \in Nat /\ read.now <= now /\ BarGrid(History)' = BarGrid(History)
  <2>1. read.now \in Nat /\ read.now <= now
    BY <1>3 DEF ReadOK, ReadIs
  <2> QED BY <1>1, <1>2, <2>1, GridStays
<1>4. ASSUME read'.pc = "unavailable", OnBars' PROVE Unpriced'
  <2>1. read.pc = "unavailable" /\ BarGrid(History)' = BarGrid(History)
    BY <1>3, <1>4
  <2>2. OnBars
    BY <1>4, <2>1 DEF OnBars
  <2>3. Unpriced
    BY <2>1, <2>2 DEF PointsOK
  <2> QED BY <2>1, <2>3, UnpricedStays
<1>5. ASSUME read'.pc = "shown", read'.kind = "history", BookedAtOnce' PROVE AllTrue(Front(read.points))'
  <2>1. read.pc = "shown" /\ read.kind = "history" /\ read.pc # "idle"
    BY <1>5
  <2>2. BookedAtOnce
    BY <1>5 DEF BookedAtOnce, Later
  <2>3. PICK past : past = Front(read.points)
    OBVIOUS
  <2>4. AllTrue(past)
    BY <2>1, <2>2, <2>3 DEF PointsOK
  <2>5. AllTrue(past)'
    BY <1>1, <1>3, <2>1, <2>4, TrueStays
  <2>6. (past = Front(read.points))'
    BY <2>3
  <2> QED BY <2>5, <2>6
<1> QED BY <1>4, <1>5 DEF PointsOK

\* The series drawn is true, and where none could be, a price was missing.
LEMMA PointsDrawn ==
  ASSUME OrdersOK, WasOK, ReadOK, Later, ReadRealized
  PROVE  PointsOK'
<1>1. now \in Nat /\ bars \in BarChoices
  BY DEF WasOK
<1>2. now' \in Nat /\ now <= now' /\ bars' = bars
  BY DEF Later
<1>3. PICK over : over = Replay(FillsChronological).over
  OBVIOUS
<1>4. PICK drawn : drawn = (read.kind = "history" /\ ~over)
  OBVIOUS
<1>5. PICK unpriced : unpriced = (drawn /\ Unavailable(History))
  OBVIOUS
<1>6. PICK realized, points :
        /\ realized = Replay(FillsChronological).realized
        /\ points = IF drawn /\ ~unpriced THEN EquitySeries(History) ELSE << >>
  OBVIOUS
<1>7. PICK facts : facts = [pc |-> IF over THEN "failed" ELSE IF unpriced THEN "unavailable" ELSE "shown",
                            realized |-> realized, points |-> points]
  BY Zenon
<1>8. read.pc = "realized" /\ Learn(facts)
  BY <1>3, <1>4, <1>5, <1>6, <1>7, Zenon DEF ReadRealized
<1>9. /\ DOMAIN facts = {"pc", "realized", "points"} /\ facts.points = points
      /\ facts.pc = IF over THEN "failed" ELSE IF unpriced THEN "unavailable" ELSE "shown"
  BY <1>7
<1>10. PICK r : r = read'
  OBVIOUS
<1>11. /\ r.pc = facts.pc /\ r.points = points
       /\ \A k \in DOMAIN read : k \notin DOMAIN facts => r[k] = read[k]
  BY <1>8, <1>9, <1>10, LearnIs, Zenon
<1>12. /\ {"pc", "kind", "now"} \subseteq DOMAIN read /\ read.now \in Nat /\ read.now <= now
       /\ r.now = read.now /\ r.kind = read.kind
  <2>1. {"pc", "kind", "now"} \subseteq DOMAIN read /\ read.now \in Nat /\ read.now <= now
    BY <1>8 DEF ReadOK, ReadIs
  <2> QED BY <1>9, <1>11, <2>1
<1>13. ASSUME read.kind = "history"
       PROVE  Drawable(read) /\ r.fills = read.fills /\ BarGrid(History)' = BarGrid(History)
  <2>1. Drawing(read) /\ Drawable(read)
    BY <1>8, <1>13 DEF Drawing, Drawable
  <2>2. "fills" \in DOMAIN read
    BY <2>1 DEF ReadOK, ReadIs
  <2>3. r.fills = read.fills
    BY <1>9, <1>11, <2>2
  <2> QED BY <1>1, <1>2, <1>10, <1>12, <2>1, <2>3, GridStays
<1>14. ASSUME r.pc = "unavailable", OnBars' PROVE Unpriced'
  <2>1. unpriced /\ ~over
    BY <1>9, <1>11, <1>14
  <2>2. read.kind = "history" /\ Unavailable(History)
    BY <1>4, <1>5, <2>1, Zenon
  <2>3. BarGrid(History) # {}
    BY <1>13, <1>14, <2>2 DEF OnBars
  <2>4. Unpriced
    BY <1>13, <2>2, <2>3, FailsUnpriced
  <2> QED BY <1>10, <1>12, <1>13, <2>2, <2>4, UnpricedStays
<1>15. ASSUME r.pc = "shown", r.kind = "history", BookedAtOnce' PROVE AllTrue(Front(points))'
  <2>1. ~over /\ ~unpriced
    BY <1>9, <1>11, <1>15
  <2>2. read.kind = "history" /\ drawn /\ ~Unavailable(History)
    BY <1>4, <1>5, <1>12, <1>15, <2>1, Zenon
  <2>3. BookedAtOnce
    BY <1>15 DEF BookedAtOnce, Later
  <2>4. points = EquitySeries(History)
    BY <1>6, <2>1, <2>2
  <2>5. PICK past : past = Front(points)
    OBVIOUS
  <2>6. AllTrue(past)
    BY <1>13, <2>2, <2>3, <2>4, <2>5, SeriesTrue
  <2>7. AllTrue(past)'
    BY <1>1, <1>10, <1>12, <1>13, <2>2, <2>6, TrueStays
  <2> QED BY <2>5, <2>7
<1>16. (read.points = points)' /\ read'.pc = r.pc /\ read'.kind = r.kind
  BY <1>10, <1>11
<1>17. Front(read.points)' = Front(points)
  BY <1>16
<1> QED BY <1>14, <1>15, <1>16, <1>17 DEF PointsOK

\* What is shown of the series is an invariant of the specification.
LEMMA PointsHold == FiguresSpec => []PointsOK
<1>1. FiguresInit => PointsOK
  BY DEF FiguresInit, Init, PointsOK, NoRead
<1>2. ASSUME HoldingsOK, BooksOK, WasOK, ReadOK, PointsOK, [FiguresNext]_figureVars PROVE PointsOK'
  <2>1. OrdersOK
    BY <1>2 DEF HoldingsOK
  <2>2. Later /\ (read' = read \/ Served)
    BY <1>2, StepIsLater
  <2>3. ASSUME read'.pc \notin {"unavailable", "shown"} PROVE PointsOK'
    BY <2>3 DEF PointsOK
  <2>4. CASE \E kind \in Kinds : Start(kind)
    <3>1. PICK kind \in Kinds : Start(kind)
      BY <2>4
    <3>2. read'.pc \in {"fills", "positions"}
      BY <3>1 DEF Start
    <3> QED BY <2>3, <3>2
  <2>5. CASE Answer
    BY <2>3, <2>5 DEF Answer, NoRead
  <2>6. ASSUME NEW facts, Learn(facts), "pc" \in DOMAIN facts, facts.pc \notin {"unavailable", "shown"} PROVE PointsOK'
    BY <2>3, <2>6, LearnIs, Zenon
  <2>7. CASE ReadFills
    <3>1. PICK fills : fills = FillsChronological
      OBVIOUS
    <3>2. PICK facts : facts = [pc |-> "ledger", fills |-> fills]
      BY Zenon
    <3>3. "pc" \in DOMAIN facts /\ facts.pc = "ledger"
      BY <3>2
    <3>4. Learn(facts)
      BY <2>7, <3>1, <3>2 DEF ReadFills
    <3> QED BY <2>6, <3>3, <3>4
  <2>8. CASE ReadLedger
    <3>1. PICK facts : facts = [pc |-> "positions", ledger |-> ledger]
      BY Zenon
    <3>2. "pc" \in DOMAIN facts /\ facts.pc = "positions"
      BY <3>1
    <3>3. Learn(facts)
      BY <2>8, <3>1 DEF ReadLedger
    <3> QED BY <2>6, <3>2, <3>3
  <2>9. CASE ReadPositions
    <3>1. PICK equity : equity = read.cash
                        + FoldSet(LAMBDA sym, sum :
                                    sum + Notional(Quote[sym][now], positions[sym].qty),
                                  0, Symbols)
      BY ZenonT(30)
    <3>2. PICK facts : facts = [pc |-> "openSells", positions |-> positions, equity |-> equity]
      BY Zenon
    <3>3. "pc" \in DOMAIN facts /\ facts.pc = "openSells"
      BY <3>2
    <3>4. Learn(facts)
      BY <2>9, <3>1, <3>2, ZenonT(30) DEF ReadPositions
    <3> QED BY <2>6, <3>3, <3>4
  <2>10. CASE ReadOpenSells
    <3>1. PICK facts : facts = [pc |-> IF \E sym \in Symbols : RowFails(sym) THEN "failed" ELSE "realized"]
      BY Zenon
    <3>2. "pc" \in DOMAIN facts /\ facts.pc \in {"failed", "realized"}
      BY <3>1
    <3>3. Learn(facts)
      BY <2>10, <3>1 DEF ReadOpenSells
    <3> QED BY <2>6, <3>2, <3>3
  <2>11. CASE ReadRealized
    BY <1>2, <2>1, <2>2, <2>11, PointsDrawn
  <2>12. CASE read' = read
    BY <1>2, <2>2, <2>12, PointsStay
  <2> QED BY <2>2, <2>4, <2>5, <2>7, <2>8, <2>9, <2>10, <2>11, <2>12 DEF Reading, Served
<1> QED BY <1>1, <1>2, HoldingsHold, BooksHold, WasHold, ReadHold, PTL DEF FiguresSpec

\* A point of a series shown is what the account was worth then, at the last
\* close, the points ascend, and a series fails only where a price is missing.
THEOREM SeriesIsTrue == FiguresSpec => []PointsAreTrue
<1>1. ASSUME PointsOK PROVE PointsAreTrue
  <2>1. PICK past : past = Front(read.points)
    OBVIOUS
  <2>2. (read.pc = "shown" /\ read.kind = "history" /\ BookedAtOnce) =>
          \A i \in DOMAIN past :
             /\ past[i].t < read.now
             /\ i > 1 => past[i-1].t < past[i].t
             /\ \/ ~OnBars /\ \E j \in 1 .. i : \E sym \in Symbols : past[j].t \in bars[sym]
                \/ PointIsTrue(past[i], IF OnBars THEN past[i].t ELSE past[i].t + 1)
    BY <1>1, <2>1 DEF PointsOK, AllTrue, TrueAt
  <2>3. (read.pc = "unavailable" /\ OnBars) => Unpriced
    BY <1>1 DEF PointsOK
  <2> QED BY <2>1, <2>2, <2>3 DEF PointsAreTrue
<1> QED BY <1>1, PointsHold, PTL
==================================================================================
