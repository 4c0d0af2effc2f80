----------------------- MODULE ProviderAccuracy_proofs -----------------------
(***************************************************************************)
(* Proofs about Evaluation and ProviderAccuracy: every path of the market, *)
(* any rows, logs, evaluators, passes and edits.                           *)
(***************************************************************************)
EXTENDS ProviderAccuracy, FiniteSetTheorems, FunctionTheorems, WellFoundedInduction, TLAPS

-----------------------------------------------------------------------------
(* Greatest and least elements, and days.                                   *)

\* Every finite set of numbers but the empty one has a greatest element.
LEMMA GreatestExists ==
  ASSUME NEW S, IsFiniteSet(S), S # {}, S \subseteq Int
  PROVE  \E x \in S : \A y \in S : x >= y
<1> DEFINE Bad == {T \in SUBSET S : T # {} /\ ~\E x \in T : \A y \in T : x >= y}
<1> SUFFICES ASSUME Bad # {} PROVE FALSE
  OBVIOUS
<1>1. Bad \subseteq FiniteSubsetsOf(S)
  BY FS_Subset DEF FiniteSubsetsOf
<1>2. IsWellFoundedOn(StrictSubsetOrdering(S), FiniteSubsetsOf(S))
  BY FS_StrictSubsetOrderingWellFounded
<1>3. PICK T \in Bad : \A U \in Bad : <<U, T>> \notin StrictSubsetOrdering(S)
  <2> HIDE DEF Bad
  <2> QED
    BY <1>1, <1>2, WFMin
<1>4. PICK a \in T : TRUE
  OBVIOUS
<1>5. T \ {a} \notin Bad
  <2>1. <<T \ {a}, T>> \in (SUBSET S) \X (SUBSET S) /\ T \ {a} \subseteq T /\ T \ {a} # T
    BY <1>4
  <2>2. <<T \ {a}, T>> \in StrictSubsetOrdering(S)
    BY <2>1 DEF StrictSubsetOrdering
  <2> QED
    BY <1>3, <2>2
<1>6. CASE T = {a}
  BY <1>3, <1>6
<1>7. CASE T # {a}
  <2>1. PICK m \in T \ {a} : \A y \in T \ {a} : m >= y
    BY <1>3, <1>5, <1>7
  <2>2. \A y \in T : y \in Int
    BY <1>3
  <2>3. CASE m >= a
    <3>1. \A y \in T : m >= y
      BY <2>1, <2>3
    <3> QED
      BY <1>3, <2>1, <3>1
  <2>4. CASE ~(m >= a)
    <3>1. \A y \in T : a >= y
      BY <1>4, <2>1, <2>2, <2>4
    <3> QED
      BY <1>3, <1>4, <3>1
  <2> QED
    BY <2>3, <2>4
<1> QED
  BY <1>6, <1>7

\* Max and Min are what their names say.
LEMMA MaxKnown ==
  ASSUME NEW S, IsFiniteSet(S), S # {}, S \subseteq Int
  PROVE  Max(S) \in S /\ \A y \in S : Max(S) >= y
BY GreatestExists DEF Max

LEMMA MinKnown ==
  ASSUME NEW S, IsFiniteSet(S), S # {}, S \subseteq Int
  PROVE  Min(S) \in S /\ \A y \in S : Min(S) =< y
<1> DEFINE f == [x \in S |-> 0 - x]
           T == {0 - x : x \in S}
<1>1. IsFiniteSet(T)
  <2>1. f \in [S -> T] /\ \A t \in T : \E x \in S : f[x] = t
    OBVIOUS
  <2>2. f \in Surjection(S, T)
    <3> HIDE DEF f, T
    <3> QED
      BY <2>1, Fun_IsSurj
  <2> QED
    BY <2>2, FS_Surjection
<1>2. T # {} /\ T \subseteq Int
  <2>1. PICK x \in S : TRUE
    OBVIOUS
  <2>2. 0 - x \in T
    OBVIOUS
  <2>3. \A y \in S : 0 - y \in Int
    OBVIOUS
  <2> QED
    BY <2>2, <2>3
<1>3. PICK t \in T : \A y \in T : t >= y
  <2> HIDE DEF T
  <2> QED
    BY <1>1, <1>2, GreatestExists
<1>4. PICK x \in S : t = 0 - x
  OBVIOUS
<1>5. \A y \in S : x =< y
  <2> SUFFICES ASSUME NEW y \in S PROVE x =< y
    OBVIOUS
  <2>1. 0 - y \in T
    OBVIOUS
  <2>2. 0 - x >= 0 - y
    BY <1>3, <1>4, <2>1
  <2> QED
    BY <2>2
<1> QED
  BY <1>4, <1>5 DEF Min

\* A set of periods or days is finite.
LEMMA PeriodsFinite ==
  ASSUME NEW n \in Int, NEW S \in SUBSET (0..n)
  PROVE  IsFiniteSet(S)
<1>1. IsFiniteSet(0..n)
  BY FS_Interval
<1> QED
  BY <1>1, FS_Subset

\* What a function says of a finite set is a finite set.
LEMMA ValuesFinite ==
  ASSUME NEW S, IsFiniteSet(S), NEW f, DOMAIN f = S
  PROVE  IsFiniteSet({f[x] : x \in S})
<1> DEFINE T == {f[x] : x \in S}
           g == [x \in S |-> f[x]]
<1>1. g \in [S -> T] /\ \A t \in T : \E x \in S : g[x] = t
  OBVIOUS
<1>2. g \in Surjection(S, T)
  <2> HIDE DEF g, T
  <2> QED
    BY <1>1, Fun_IsSurj
<1> QED
  BY <1>2, FS_Surjection

\* The constants are numbers.
LEMMA ConstantsTyped ==
  PerDay \in Nat /\ PerDay > 0 /\ MaxNow \in Nat /\ Edge \in Nat /\ Edge > 0
BY PerDayAssumption, EdgeAssumption

\* A time is in its day.
LEMMA DayKnown ==
  ASSUME NEW t \in Nat
  PROVE  Day(t) \in Nat /\ PerDay * Day(t) =< t /\ t < PerDay * Day(t) + PerDay
BY ConstantsTyped DEF Day

LEMMA DaysApart ==
  ASSUME NEW a \in Nat, NEW b \in Nat, a < b
  PROVE  PerDay * a \in Nat /\ PerDay * b \in Nat /\ PerDay * a + PerDay =< PerDay * b
BY ConstantsTyped

\* A time of a day is no earlier than that of an earlier one.
LEMMA DayOrder ==
  ASSUME NEW a \in Nat, NEW b \in Nat, a =< b
  PROVE  Day(a) =< Day(b)
<1> DEFINE x == Day(a)
           y == Day(b)
<1>1. x \in Nat /\ y \in Nat /\ PerDay * x =< a /\ b < PerDay * y + PerDay
  BY DayKnown
<1> HIDE DEF x, y
<1> SUFFICES ASSUME y < x PROVE FALSE
  BY <1>1 DEF x, y
<1>2. PerDay * y + PerDay =< PerDay * x /\ PerDay * x \in Nat /\ PerDay * y \in Nat
  BY <1>1, DaysApart
<1> QED
  BY <1>1, <1>2, ConstantsTyped

\* The first period of a day is of that day.
LEMMA FirstPeriod ==
  ASSUME NEW d \in Nat
  PROVE  PerDay * d \in Nat /\ Day(PerDay * d) = d
<1> DEFINE t == PerDay * d
           x == Day(t)
<1>1. t \in Nat
  BY ConstantsTyped
<1>2. x \in Nat /\ PerDay * x =< t /\ t < PerDay * x + PerDay
  BY <1>1, DayKnown
<1>3. PerDay * x \in Nat /\ PerDay \in Nat
  BY <1>2, ConstantsTyped
<1> HIDE DEF x
<1>4. ~(x < d)
  <2> SUFFICES ASSUME x < d PROVE FALSE
    OBVIOUS
  <2>1. PerDay * x + PerDay =< t
    BY <1>2, DaysApart
  <2> HIDE DEF t
  <2> QED
    BY <1>1, <1>2, <1>3, <2>1
<1>5. ~(d < x)
  <2> SUFFICES ASSUME d < x PROVE FALSE
    OBVIOUS
  <2>1. t + PerDay =< PerDay * x
    BY <1>2, DaysApart
  <2> HIDE DEF t
  <2> QED
    BY <1>1, <1>2, <1>3, <2>1, ConstantsTyped
<1> QED
  BY <1>1, <1>2, <1>4, <1>5 DEF x

-----------------------------------------------------------------------------
(* Bars.                                                                    *)

BarFits(b) ==
    /\ b.open \in Nat \ {0} /\ b.high \in Nat \ {0} /\ b.low \in Nat \ {0} /\ b.close \in Nat \ {0}
    /\ b.low =< b.open /\ b.open =< b.high
    /\ b.low =< b.close /\ b.close =< b.high

\* A bar fits whenever it is seen.
LEMMA BarKnown ==
  ASSUME market \in Markets, NEW p \in 0..MaxNow, NEW t \in Int
  PROVE  BarFits(PeriodBar(p, t))
<1>1. {market[p].open, market[p].high, market[p].low, market[p].close} \subseteq Nat \ {0}
      /\ market[p].low =< market[p].open /\ market[p].open =< market[p].high
      /\ market[p].low =< market[p].close /\ market[p].close =< market[p].high
  BY MarketsAssumption
<1>2. CASE p < t
  BY <1>1, <1>2 DEF PeriodBar, BarFits
<1>3. CASE ~(p < t)
  BY <1>1, <1>3 DEF PeriodBar, BarFits
<1> QED
  BY <1>2, <1>3

\* Joined bars fit, and reach as far as one of them and no farther.
LEMMA JoinedKnown ==
  ASSUME market \in Markets, NEW S \in SUBSET (0..MaxNow), S # {}, NEW t \in Int
  PROVE  /\ BarFits(Joined(S, t))
         /\ \A p \in S : /\ Joined(S, t).high >= PeriodBar(p, t).high
                         /\ Joined(S, t).low =< PeriodBar(p, t).low
         /\ \E p \in S : Joined(S, t).high = PeriodBar(p, t).high
         /\ \E p \in S : Joined(S, t).low = PeriodBar(p, t).low
<1> DEFINE highs == [p \in S |-> PeriodBar(p, t).high]
           lows == [p \in S |-> PeriodBar(p, t).low]
           H == {PeriodBar(p, t).high : p \in S}
           L == {PeriodBar(p, t).low : p \in S}
<1>1. IsFiniteSet(S) /\ S \subseteq Int
  <2>1. MaxNow \in Int
    BY ConstantsTyped
  <2>2. IsFiniteSet(S)
    BY <2>1, PeriodsFinite
  <2> QED
    BY <2>1, <2>2
<1>2. \A p \in S : BarFits(PeriodBar(p, t))
  BY BarKnown
<1>3. IsFiniteSet(H) /\ IsFiniteSet(L)
  <2>1. IsFiniteSet({highs[p] : p \in S})
    <3> DOMAIN highs = S
      OBVIOUS
    <3> HIDE DEF highs
    <3> QED
      BY <1>1, ValuesFinite
  <2>2. IsFiniteSet({lows[p] : p \in S})
    <3> DOMAIN lows = S
      OBVIOUS
    <3> HIDE DEF lows
    <3> QED
      BY <1>1, ValuesFinite
  <2>3. H = {highs[p] : p \in S} /\ L = {lows[p] : p \in S}
    OBVIOUS
  <2> QED
    BY <2>1, <2>2, <2>3
<1>4. H # {} /\ L # {} /\ H \subseteq Int /\ L \subseteq Int
  <2>1. \A p \in S : PeriodBar(p, t).high \in Int /\ PeriodBar(p, t).low \in Int
    BY <1>2 DEF BarFits
  <2> QED
    BY <2>1
<1>5. Max(H) \in H /\ \A y \in H : Max(H) >= y
  <2> HIDE DEF H
  <2> QED
    BY <1>3, <1>4, MaxKnown
<1>6. Min(L) \in L /\ \A y \in L : Min(L) =< y
  <2> HIDE DEF L
  <2> QED
    BY <1>3, <1>4, MinKnown
<1>7. Max(S) \in S /\ Min(S) \in S
  BY <1>1, MaxKnown, MinKnown
<1> DEFINE j == Joined(S, t)
<1>8. /\ j.open = PeriodBar(Min(S), t).open /\ j.high = Max(H)
      /\ j.low = Min(L) /\ j.close = PeriodBar(Max(S), t).close
  BY DEF Joined
<1> HIDE DEF j
<1>9. \A p \in S : j.high >= PeriodBar(p, t).high /\ j.low =< PeriodBar(p, t).low
  BY <1>5, <1>6, <1>8
<1>10. (\E p \in S : j.high = PeriodBar(p, t).high) /\ \E p \in S : j.low = PeriodBar(p, t).low
  BY <1>5, <1>6, <1>8
<1>11. BarFits(j)
  <2>1. BarFits(PeriodBar(Min(S), t)) /\ BarFits(PeriodBar(Max(S), t))
    BY <1>2, <1>7
  <2>2. j.high \in Nat \ {0} /\ j.low \in Nat \ {0}
    BY <1>2, <1>10 DEF BarFits
  <2>3. /\ j.high >= PeriodBar(Min(S), t).high /\ j.low =< PeriodBar(Min(S), t).low
        /\ j.high >= PeriodBar(Max(S), t).high /\ j.low =< PeriodBar(Max(S), t).low
    BY <1>7, <1>9
  <2> HIDE DEF H, L
  <2> QED
    BY <1>8, <2>1, <2>2, <2>3 DEF BarFits
<1> QED
  BY <1>9, <1>10, <1>11 DEF j

\* The bar of a day is that of some periods of the day.
LEMMA DayBarKnown ==
  ASSUME market \in Markets, NEW d \in Nat, NEW t \in Nat, PerDay * d =< t, t =< MaxNow
  PROVE  LET used == {p \in Periods(d) : p =< t}
         IN  /\ used \in SUBSET (0..MaxNow) /\ used # {}
             /\ \A p \in used : Day(p) = d
             /\ DayBar(d, t) = Joined(used, t)
             /\ BarFits(DayBar(d, t))
<1> DEFINE used == {p \in Periods(d) : p =< t}
<1>1. used \in SUBSET (0..MaxNow) /\ (\A p \in used : Day(p) = d)
  BY DEF Periods
<1>2. PerDay * d \in Nat /\ Day(PerDay * d) = d
  BY FirstPeriod
<1>3. PerDay * d \in used
  BY <1>2, ConstantsTyped DEF Periods
<1>4. DayBar(d, t) = Joined(used, t)
  BY DEF DayBar
<1> HIDE DEF used
<1>5. BarFits(Joined(used, t))
  BY <1>1, <1>3, JoinedKnown
<1>6. used # {}
  BY <1>3
<1> QED
  BY <1>1, <1>4, <1>5, <1>6 DEF used

-----------------------------------------------------------------------------
(* The rules, on the bars of one row.                                       *)

\* Joined bars reach a level where one of them does.
LEMMA JoinedReaches ==
  ASSUME market \in Markets, NEW S \in SUBSET (0..MaxNow), S # {}, NEW t \in Int,
         NEW level \in Nat
  PROVE  /\ ReachesUp(level, Joined(S, t)) <=> \E p \in S : ReachesUp(level, PeriodBar(p, t))
         /\ ReachesDown(level, Joined(S, t)) <=> \E p \in S : ReachesDown(level, PeriodBar(p, t))
<1> DEFINE j == Joined(S, t)
<1>1. /\ BarFits(j)
      /\ \A p \in S : j.high >= PeriodBar(p, t).high /\ j.low =< PeriodBar(p, t).low
      /\ \E p \in S : j.high = PeriodBar(p, t).high
      /\ \E p \in S : j.low = PeriodBar(p, t).low
  BY JoinedKnown
<1> HIDE DEF j
<1>2. \A p \in S : PeriodBar(p, t).high \in Int /\ PeriodBar(p, t).low \in Int
  BY BarKnown DEF BarFits
<1>3. j.high \in Int /\ j.low \in Int
  BY <1>1 DEF BarFits
<1>4. j.high >= level <=> \E p \in S : PeriodBar(p, t).high >= level
  <2>1. PICK p \in S : j.high = PeriodBar(p, t).high
    BY <1>1
  <2>2. ASSUME NEW q \in S, PeriodBar(q, t).high >= level PROVE j.high >= level
    BY <1>1, <1>2, <1>3, <2>2
  <2> QED
    BY <2>1, <2>2
<1>5. j.low =< level <=> \E p \in S : PeriodBar(p, t).low =< level
  <2>1. PICK p \in S : j.low = PeriodBar(p, t).low
    BY <1>1
  <2>2. ASSUME NEW q \in S, PeriodBar(q, t).low =< level PROVE j.low =< level
    BY <1>1, <1>2, <1>3, <2>2
  <2> QED
    BY <2>1, <2>2
<1> QED
  BY <1>4, <1>5 DEF j, ReachesUp, ReachesDown

LEMMA JoinedHits ==
  ASSUME market \in Markets, NEW S \in SUBSET (0..MaxNow), S # {}, NEW t \in Int,
         NEW s, s.target \in Nat, s.stop \in Nat
  PROVE  /\ TargetHit(s, Joined(S, t)) <=> \E p \in S : TargetHit(s, PeriodBar(p, t))
         /\ StopHit(s, Joined(S, t)) <=> \E p \in S : StopHit(s, PeriodBar(p, t))
<1>1. ReachesUp(s.target, Joined(S, t)) <=> \E p \in S : ReachesUp(s.target, PeriodBar(p, t))
  BY JoinedReaches
<1>2. ReachesDown(s.target, Joined(S, t)) <=> \E p \in S : ReachesDown(s.target, PeriodBar(p, t))
  BY JoinedReaches
<1>3. ReachesUp(s.stop, Joined(S, t)) <=> \E p \in S : ReachesUp(s.stop, PeriodBar(p, t))
  BY JoinedReaches
<1>4. ReachesDown(s.stop, Joined(S, t)) <=> \E p \in S : ReachesDown(s.stop, PeriodBar(p, t))
  BY JoinedReaches
<1>5. TargetHit(s, Joined(S, t)) <=> \E p \in S : TargetHit(s, PeriodBar(p, t))
  BY <1>1, <1>2 DEF TargetHit
<1>6. StopHit(s, Joined(S, t)) <=> \E p \in S : StopHit(s, PeriodBar(p, t))
  BY <1>3, <1>4 DEF StopHit
<1> QED
  BY <1>5, <1>6

\* The hourly rule: none where no bar reaches a level, otherwise a level that
\* one of the bars reaches.
LEMMA HourlyKnown ==
  ASSUME NEW S, IsFiniteSet(S), S \subseteq Int, NEW bars, DOMAIN bars = S, NEW s
  PROVE  LET hit == HourlyHit(s, bars)
         IN  \/ /\ hit = "none"
                /\ \A i \in S : ~TargetHit(s, bars[i]) /\ ~StopHit(s, bars[i])
             \/ hit = "target" /\ \E i \in S : TargetHit(s, bars[i])
             \/ hit = "stop" /\ \E i \in S : StopHit(s, bars[i])
<1> DEFINE deciding == {i \in DOMAIN bars : TargetHit(s, bars[i]) \/ StopHit(s, bars[i])}
           first == CHOOSE i \in deciding : \A j \in deciding : i <= j
           hit == HourlyHit(s, bars)
<1>1. hit = IF deciding = {} THEN "none"
            ELSE IF TargetHit(s, bars[first]) THEN "target" ELSE "stop"
  BY DEF HourlyHit
<1>2. deciding \in SUBSET S /\ (\A i \in deciding : TargetHit(s, bars[i]) \/ StopHit(s, bars[i]))
      /\ \A i \in S \ deciding : ~TargetHit(s, bars[i]) /\ ~StopHit(s, bars[i])
  OBVIOUS
<1>3. IsFiniteSet(deciding) /\ deciding \subseteq Int
  <2> HIDE DEF deciding
  <2> QED
    BY <1>2, FS_Subset
<1> HIDE DEF deciding
<1>4. deciding # {} => first \in deciding
  BY <1>3, MinKnown DEF Min
<1> HIDE DEF first, hit
<1>5. CASE deciding = {}
  BY <1>1, <1>2, <1>5 DEF hit
<1>6. CASE deciding # {}
  BY <1>1, <1>2, <1>4, <1>6 DEF hit
<1> QED
  BY <1>5, <1>6

\* What OutcomeOf says was hit is what the joined bars reached; and where they
\* reached one level or none, the two rules say the same.
LEMMA HitKnown ==
  ASSUME market \in Markets, NEW S \in SUBSET (0..MaxNow), S # {}, NEW t \in Int,
         NEW s, s.target \in Nat, s.stop \in Nat
  PROVE  LET whole  == Joined(S, t)
             hourly_ == HourlyHit(s, [p \in S |-> PeriodBar(p, t)])
             daily_ == DailyHit(s, whole)
         IN  /\ hourly_ = "target" \/ daily_ = "target" => TargetHit(s, whole)
             /\ hourly_ = "stop" \/ daily_ = "stop" => StopHit(s, whole)
             /\ {hourly_, daily_} \subseteq {"none", "target", "stop"}
             /\ ~(TargetHit(s, whole) /\ StopHit(s, whole)) => hourly_ = daily_
             /\ TargetHit(s, whole) /\ StopHit(s, whole) =>
                    /\ hourly_ # "none"
                    /\ daily_ # "none" \/ whole.open \in {s.target, s.stop}
<1> DEFINE whole == Joined(S, t)
           bars == [p \in S |-> PeriodBar(p, t)]
           h == HourlyHit(s, bars)
           d == DailyHit(s, whole)
           T == TargetHit(s, whole)
           P == StopHit(s, whole)
<1>1. IsFiniteSet(S) /\ S \subseteq Int
  <2>1. MaxNow \in Int
    BY ConstantsTyped
  <2>2. IsFiniteSet(S)
    BY <2>1, PeriodsFinite
  <2> QED
    BY <2>1, <2>2
<1>2. DOMAIN bars = S /\ \A p \in S : bars[p] = PeriodBar(p, t)
  OBVIOUS
<1>3. \/ h = "none" /\ \A i \in S : ~TargetHit(s, bars[i]) /\ ~StopHit(s, bars[i])
      \/ h = "target" /\ \E i \in S : TargetHit(s, bars[i])
      \/ h = "stop" /\ \E i \in S : StopHit(s, bars[i])
  <2> HIDE DEF bars
  <2> QED
    BY <1>1, <1>2, HourlyKnown
<1>4. /\ T <=> \E p \in S : TargetHit(s, PeriodBar(p, t))
      /\ P <=> \E p \in S : StopHit(s, PeriodBar(p, t))
  BY JoinedHits
<1>5. \/ h = "none" /\ ~T /\ ~P
      \/ h = "target" /\ T
      \/ h = "stop" /\ P
  <2> HIDE DEF bars, T, P, h
  <2> QED
    BY <1>2, <1>3, <1>4
<1>6. whole.open \in Nat
  BY JoinedKnown DEF BarFits
<1>7. /\ T /\ ~P => d = "target"
      /\ P /\ ~T => d = "stop"
      /\ ~T /\ ~P => d = "none"
      /\ T /\ P => \/ d \in {"target", "stop"}
                   \/ d = "none" /\ ~(Gap(s.target, whole.open) > 0 /\ Gap(s.stop, whole.open) > 0)
  <2> HIDE DEF whole
  <2> QED
    BY DEF DailyHit
<1>8. ~(Gap(s.target, whole.open) > 0 /\ Gap(s.stop, whole.open) > 0)
      => whole.open \in {s.target, s.stop}
  <2> HIDE DEF whole
  <2> QED
    BY <1>6 DEF Gap
<1> HIDE DEF T, P, h, d
<1>9. /\ h = "target" \/ d = "target" => T
      /\ h = "stop" \/ d = "stop" => P
      /\ {h, d} \subseteq {"none", "target", "stop"}
      /\ ~(T /\ P) => h = d
      /\ T /\ P => h # "none" /\ (d # "none" \/ whole.open \in {s.target, s.stop})
  BY <1>5, <1>7, <1>8
<1> QED
  BY <1>9 DEF T, P, h, d

-----------------------------------------------------------------------------
(* What a row that is judged was judged on.                                 *)

Founded(r, entry, used, seen) ==
    /\ used \in SUBSET (0..MaxNow) /\ used # {} /\ seen \in Nat
    /\ entry \in Nat \ {0} /\ (Level(RowOf(r).entry) => entry = RowOf(r).entry)
    /\ \A p \in used : /\ p > RowOf(r).made
                       /\ RowOf(r).horizon >= PerDay => Day(p) > Day(RowOf(r).made)

\* Every row that is judged is founded.
RowsFounded ==
    \A r \in Rows : rows[r].status = "EVALUATED" =>
        Founded(r, rows[r].entry, rows[r].used, rows[r].seen)

\* The levels of a row are numbers.
LEMMA RowKnown ==
  ASSUME NEW r \in Rows
  PROVE  /\ RowOf(r).entry \in Nat /\ RowOf(r).target \in Nat /\ RowOf(r).stop \in Nat
         /\ RowOf(r).made \in Nat /\ RowOf(r).horizon \in Nat \ {0}
<1>1. {RowOf(r).entry, RowOf(r).target, RowOf(r).stop, RowOf(r).made} \subseteq Nat
      /\ RowOf(r).horizon \in Nat \ {0}
  BY SignalsAssumption
<1> QED
  BY <1>1

LEMMA LogKnown ==
  ASSUME NEW l \in Logs
  PROVE  LogOf(l).made \in Nat /\ LogOf(l).horizon \in Nat \ {0}
<1>1. {LogOf(l).entry, LogOf(l).target, LogOf(l).stop, LogOf(l).made} \subseteq Nat
      /\ LogOf(l).horizon \in Nat \ {0}
  BY SignalsAssumption
<1> QED
  BY <1>1

\* A gain that clears the costs is a gain.
LEMMA LabelKnown ==
  ASSUME NEW gain \in Int, NEW entry \in Nat \ {0}, LabelMeta(gain, entry, Edge)
  PROVE  gain > 0
<1>1. Edge * entry > 0 /\ Edge * entry \in Int
  BY ConstantsTyped
<1> HIDE DEF LabelMeta
<1>2. 10000 * gain >= Edge * entry
  BY DEF LabelMeta
<1> QED
  BY <1>1, <1>2

\* Gain, label and excursions fit what was hit.
LEMMA OutcomeKnown ==
  ASSUME NEW s, s.entry \in Nat, s.target \in Nat, s.stop \in Nat,
         NEW hit \in {"none", "target", "stop"}, NEW entry \in Nat \ {0},
         Level(s.entry) => entry = s.entry,
         NEW bar, BarFits(bar),
         hit = "target" => TargetHit(s, bar), hit = "stop" => StopHit(s, bar)
  PROVE  LET o == Outcome(s, hit, entry, bar, Edge)
         IN  /\ o.hit = hit
             /\ Ordered(s) /\ hit = "stop" => o.gain < 0 /\ ~o.label
             /\ Ordered(s) /\ hit = "target" => o.gain > 0
             /\ o.label => o.gain > 0
             /\ s.side # "NEUTRAL" /\ hit # "stop" => o.gain <= o.favorable
             /\ s.side # "NEUTRAL" /\ hit # "target" => -o.gain <= o.adverse
<1> DEFINE exit == ExitPrice(s, hit, bar.close)
           gain == Gain(s.side, entry, exit)
           label == LabelMeta(gain, entry, Edge)
           adverse == Adverse(s.side, entry, bar)
           favorable == Favorable(s.side, entry, bar)
           o == Outcome(s, hit, entry, bar, Edge)
<1>1. /\ o.hit = hit /\ o.gain = gain /\ o.label = label
      /\ o.adverse = adverse /\ o.favorable = favorable
  BY DEF Outcome
<1>2. /\ bar.high \in Nat /\ bar.low \in Nat /\ bar.close \in Nat
      /\ bar.low =< bar.close /\ bar.close =< bar.high
  BY DEF BarFits
<1>3. /\ hit = "target" => exit = s.target
      /\ hit = "stop" => exit = s.stop
      /\ hit = "none" => exit = bar.close
  BY DEF ExitPrice
<1>4. exit \in Nat
  BY <1>2, <1>3
<1>5. /\ s.side = "LONG" => gain = exit - entry
      /\ s.side = "SHORT" => gain = entry - exit
      /\ s.side # "LONG" /\ s.side # "SHORT" => gain = 0
  BY DEF Gain
<1>6. /\ hit = "target" => /\ Level(s.target)
                           /\ \/ s.side = "LONG" /\ bar.high >= s.target
                              \/ s.side = "SHORT" /\ bar.low <= s.target
      /\ hit = "stop" => /\ Level(s.stop)
                         /\ \/ s.side = "LONG" /\ bar.low <= s.stop
                            \/ s.side = "SHORT" /\ bar.high >= s.stop
  BY DEF TargetHit, StopHit, ReachesUp, ReachesDown
<1>7. /\ adverse >= (IF s.side = "LONG" THEN entry - bar.low ELSE bar.high - entry)
      /\ adverse >= 0 /\ adverse \in Int
  BY <1>2 DEF Adverse
<1>8. /\ favorable >= (IF s.side = "LONG" THEN bar.high - entry ELSE entry - bar.low)
      /\ favorable >= 0 /\ favorable \in Int
  BY <1>2 DEF Favorable
<1> HIDE DEF exit, gain, adverse, favorable, o
<1>9. gain \in Int
  BY <1>4, <1>5
<1>10. label => gain > 0
  BY <1>9, LabelKnown
<1> HIDE DEF label
<1>11. Ordered(s) /\ hit = "stop" => gain < 0
  BY <1>3, <1>4, <1>5, <1>6 DEF Ordered
<1>12. Ordered(s) /\ hit = "target" => gain > 0
  BY <1>3, <1>4, <1>5, <1>6 DEF Ordered
<1>13. hit # "stop" => gain <= favorable
  BY <1>2, <1>3, <1>4, <1>5, <1>6, <1>8
<1>14. hit # "target" => -gain <= adverse
  BY <1>2, <1>3, <1>4, <1>5, <1>6, <1>7
<1>15. gain < 0 => ~label
  BY <1>9, <1>10
<1> QED
  BY <1>1, <1>10, <1>11, <1>12, <1>13, <1>14, <1>15 DEF o

\* What is said of the outcomes follows from what they were founded on.
LEMMA VerdictsFollow ==
  ASSUME market \in Markets, RowsFounded
  PROVE  OutcomeFits /\ RulesAgree
<1> SUFFICES ASSUME NEW r \in Judged
             PROVE  LET s     == RowOf(r)
                        bars  == [p \in rows[r].used |-> PeriodBar(p, rows[r].seen)]
                        whole == Joined(rows[r].used, rows[r].seen)
                        o     == OutcomeOf(r)
                    IN  /\ Ordered(s) /\ o.hit = "stop" => o.gain < 0 /\ ~o.label
                        /\ Ordered(s) /\ o.hit = "target" => o.gain > 0
                        /\ o.label => o.gain > 0
                        /\ s.side # "NEUTRAL" /\ o.hit # "stop" => o.gain <= o.favorable
                        /\ s.side # "NEUTRAL" /\ o.hit # "target" => -o.gain <= o.adverse
                        /\ IF TargetHit(s, whole) /\ StopHit(s, whole)
                           THEN o.hit # "none" \/ whole.open \in {s.target, s.stop}
                           ELSE o.hit = HourlyHit(s, bars) /\ o.hit = DailyHit(s, whole)
  BY DEF OutcomeFits, RulesAgree
<1> DEFINE s     == RowOf(r)
           S     == rows[r].used
           t     == rows[r].seen
           whole == Joined(S, t)
           h     == HourlyHit(s, [p \in S |-> PeriodBar(p, t)])
           d     == DailyHit(s, whole)
           hit   == IF s.horizon < PerDay THEN h ELSE d
           o     == Outcome(s, hit, rows[r].entry, whole, Edge)
<1>1. r \in Rows /\ Founded(r, rows[r].entry, S, t)
  BY DEF Judged, RowsFounded
<1>2. S \in SUBSET (0..MaxNow) /\ S # {} /\ t \in Int
      /\ rows[r].entry \in Nat \ {0} /\ (Level(s.entry) => rows[r].entry = s.entry)
  BY <1>1 DEF Founded
<1>3. s.entry \in Nat /\ s.target \in Nat /\ s.stop \in Nat
  BY <1>1, RowKnown
<1>4. OutcomeOf(r) = o
  BY DEF OutcomeOf
<1>5. BarFits(whole)
  <2> HIDE DEF S, t
  <2> QED
    BY <1>2, JoinedKnown
<1>6. /\ h = "target" \/ d = "target" => TargetHit(s, whole)
      /\ h = "stop" \/ d = "stop" => StopHit(s, whole)
      /\ {h, d} \subseteq {"none", "target", "stop"}
      /\ ~(TargetHit(s, whole) /\ StopHit(s, whole)) => h = d
      /\ TargetHit(s, whole) /\ StopHit(s, whole) =>
             /\ h # "none"
             /\ d # "none" \/ whole.open \in {s.target, s.stop}
  <2> HIDE DEF S, t, s
  <2> QED
    BY <1>2, <1>3, HitKnown
<1> HIDE DEF h, d
<1>7. /\ hit \in {"none", "target", "stop"}
      /\ hit = "target" => TargetHit(s, whole)
      /\ hit = "stop" => StopHit(s, whole)
      /\ hit = h \/ hit = d
  BY <1>6
<1> HIDE DEF whole, hit, s
<1>8. /\ o.hit = hit
      /\ Ordered(s) /\ hit = "stop" => o.gain < 0 /\ ~o.label
      /\ Ordered(s) /\ hit = "target" => o.gain > 0
      /\ o.label => o.gain > 0
      /\ s.side # "NEUTRAL" /\ hit # "stop" => o.gain <= o.favorable
      /\ s.side # "NEUTRAL" /\ hit # "target" => -o.gain <= o.adverse
  <2> HIDE DEF S, t
  <2> QED
    BY <1>2, <1>3, <1>5, <1>7, OutcomeKnown
<1> HIDE DEF o
<1>9. IF TargetHit(s, whole) /\ StopHit(s, whole)
      THEN hit # "none" \/ whole.open \in {s.target, s.stop}
      ELSE hit = h /\ hit = d
  BY <1>6, <1>7
<1> QED
  BY <1>4, <1>8, <1>9 DEF s, whole, h, d

\* The logs' rule is the stricter one, on every bar.
LEMMA StricterFollows == LogIsStricter
<1> SUFFICES ASSUME NEW s, NEW bar, LogExit(s, bar) = "success"
             PROVE  DailyHit(s, bar) = "target"
  BY DEF LogIsStricter
<1>1. TargetHit(s, bar) /\ ~StopHit(s, bar)
  BY DEF LogExit
<1> QED
  BY <1>1 DEF DailyHit

-----------------------------------------------------------------------------
(* The invariant.                                                           *)

TimesKnown ==
    /\ market \in Markets
    /\ now \in 0..MaxNow
    /\ hourly \in {Never} \cup 0..now

\* A stored bar was fetched when its day had begun, those before the latest
\* one when theirs were over; a day before a stored one is stored.
DailyKnown ==
    /\ daily \in [Days -> {Never} \cup 0..MaxNow]
    /\ \A d \in Days : daily[d] # Never =>
          /\ PerDay * d <= daily[d] /\ daily[d] <= now
          /\ \A e \in Days : e < d => PerDay * e + PerDay <= daily[e]

Statuses == {"PENDING", "NO_DATA", "EVALUATED"}
Records == [status : Statuses, entry : Nat, used : SUBSET (0..MaxNow), seen : Int]

RowsKnown ==
    /\ rows \in [Rows -> Records]
    /\ RowsFounded

\* What an evaluator is about to save is on its list, and founded.
JudgedKnown ==
    \A e \in Evaluators :
        judged[e] # NoVerdict =>
            /\ judged[e].row \in todo[e]
            /\ judged[e].status \in Statuses
            /\ judged[e].status = "EVALUATED" =>
                  Founded(judged[e].row, judged[e].entry, judged[e].used, judged[e].seen)

TodoKnown ==
    /\ todo \in [Evaluators -> SUBSET Rows]
    /\ DOMAIN judged = Evaluators

LogsKnown ==
    /\ logs \in [Logs -> [status : {"NEW", "EVALUATED"}, day : Int, seen : Int]]
    /\ LogJudgedNearby

EInv == TimesKnown /\ DailyKnown /\ RowsKnown /\ TodoKnown /\ JudgedKnown /\ LogsKnown

\* The days are those up to that of the last period.
LEMMA DaysKnown ==
  /\ Day(MaxNow) \in Nat /\ Days = 0..Day(MaxNow) /\ IsFiniteSet(Days) /\ Days \subseteq Nat
  /\ \A t \in 0..MaxNow : Day(t) \in Days
<1>1. MaxNow \in Nat /\ Day(MaxNow) \in Nat
  BY ConstantsTyped, DayKnown
<1>2. IsFiniteSet(0..Day(MaxNow))
  <2> DEFINE n == Day(MaxNow)
  <2>1. n \in Int
    BY <1>1
  <2> HIDE DEF n
  <2>2. IsFiniteSet(0..n)
    BY <2>1, FS_Interval
  <2> QED
    BY <2>2 DEF n
<1>3. ASSUME NEW t \in 0..MaxNow PROVE Day(t) \in 0..Day(MaxNow)
  <2>1. t \in Nat /\ t <= MaxNow
    BY <1>1
  <2>2. Day(t) \in Nat /\ Day(t) <= Day(MaxNow)
    BY <1>1, <2>1, DayKnown, DayOrder
  <2> QED
    BY <1>1, <2>2
<1> QED
  BY <1>1, <1>2, <1>3 DEF Days

\* What the invariant says of the runs' invariants.
LEMMA BarsFollow ==
  ASSUME EInv
  PROVE  BarsAreSound
<1>1. TypeOK
  <2>1. \A d \in Days : daily[d] \in {Never} \cup 0..now
    BY DEF EInv, TimesKnown, DailyKnown
  <2>2. \A r \in Rows : rows[r].status \in {"PENDING", "NO_DATA", "EVALUATED"}
    BY DEF EInv, RowsKnown, Records, Statuses
  <2>3. \A l \in Logs : logs[l].status \in {"NEW", "EVALUATED"}
    BY DEF EInv, LogsKnown
  <2>4. \A e \in Evaluators : todo[e] \subseteq Rows
                           /\ (judged[e] # NoVerdict => judged[e].row \in todo[e])
    BY DEF EInv, TodoKnown, JudgedKnown
  <2> QED
    BY <2>1, <2>2, <2>3, <2>4 DEF EInv, TimesKnown, TypeOK
<1>2. OnlyLatestIncomplete
  <2> SUFFICES ASSUME NEW d \in Stored, d # Max(Stored)
               PROVE  daily[d] >= PerDay * (d + 1)
    BY DEF OnlyLatestIncomplete
  <2>1. IsFiniteSet(Stored) /\ Stored \subseteq Int /\ Stored # {}
    <3>1. Stored \in SUBSET Days /\ d \in Stored
      BY DEF Stored
    <3>2. IsFiniteSet(Days) /\ Days \subseteq Int
      BY DaysKnown
    <3>3. IsFiniteSet(Stored)
      BY <3>1, <3>2, FS_Subset
    <3> QED
      BY <3>1, <3>2, <3>3
  <2>2. Max(Stored) \in Stored /\ Max(Stored) >= d
    BY <2>1, MaxKnown
  <2> DEFINE m == Max(Stored)
  <2>3. d \in Days /\ m \in Days /\ d \in Nat /\ m \in Nat /\ daily[m] # Never
    BY <2>2, DaysKnown DEF Stored
  <2> HIDE DEF m
  <2>4. d < m
    BY <2>2, <2>3 DEF m
  <2>5. PerDay * d + PerDay <= daily[d]
    BY <2>3, <2>4 DEF EInv, DailyKnown
  <2>6. PerDay * (d + 1) = PerDay * d + PerDay /\ PerDay * d \in Nat
    BY <2>3, ConstantsTyped
  <2>7. daily[d] \in Int
    BY <2>3, ConstantsTyped DEF EInv, DailyKnown, Never
  <2> QED
    BY <2>5, <2>6, <2>7, ConstantsTyped
<1>3. NoHindsight
  BY DEF EInv, RowsKnown, RowsFounded, Founded, NoHindsight, Judged
<1> QED
  BY <1>1, <1>2, <1>3 DEF BarsAreSound

LEMMA VerdictsFit ==
  ASSUME EInv
  PROVE  VerdictsAreSound
BY VerdictsFollow, StricterFollows
   DEF EInv, TimesKnown, RowsKnown, LogsKnown, VerdictsAreSound

LEMMA EvaluationInit ==
  ASSUME Init
  PROVE  EInv
<1> USE DEF Init
<1>1. MaxNow \in Nat
  BY ConstantsTyped
<1>2. TimesKnown
  BY <1>1 DEF TimesKnown
<1>3. DailyKnown
  BY DEF DailyKnown
<1>4. RowsKnown
  <2>1. rows \in [Rows -> Records]
    BY DEF Records, Statuses, Never
  <2>2. RowsFounded
    BY DEF RowsFounded
  <2> QED
    BY <2>1, <2>2 DEF RowsKnown
<1>5. TodoKnown /\ JudgedKnown
  BY DEF TodoKnown, JudgedKnown
<1>6. LogsKnown
  BY DEF LogsKnown, LogJudgedNearby, Never
<1> QED
  BY <1>2, <1>3, <1>4, <1>5, <1>6 DEF EInv

-----------------------------------------------------------------------------
(* Judging a row.                                                           *)

Sound(r, v) ==
    /\ v.row = r /\ v.status \in Statuses
    /\ v.status = "EVALUATED" => Founded(r, v.entry, v.used, v.seen)

LEMMA WithoutSound ==
  ASSUME NEW r, NEW status \in {"PENDING", "NO_DATA"}
  PROVE  Sound(r, Without(r, status))
BY DEF Without, Sound, Statuses

LEMMA VerdictSound ==
  ASSUME NEW r, NEW entry, NEW used, NEW seen, Founded(r, entry, used, seen)
  PROVE  Sound(r, Verdict(r, entry, used, seen))
BY DEF Verdict, Sound, Statuses

\* By the hourly bars.
LEMMA IntradaySound ==
  ASSUME TimesKnown, NEW r \in Rows, RowOf(r).horizon < PerDay
  PROVE  Sound(r, JudgeIntraday(r))
<1> DEFINE S == HourlyWindow(r)
           entry == IF Level(RowOf(r).entry) THEN RowOf(r).entry
                    ELSE PeriodBar(Min(S), hourly).close
<1>1. CASE S = {}
  BY <1>1, WithoutSound DEF JudgeIntraday
<1>2. CASE S # {}
  <2>1. S \in SUBSET (0..hourly) /\ (\A p \in S : p > RowOf(r).made)
    BY DEF HourlyWindow
  <2>2. hourly \in Nat /\ hourly <= MaxNow
    <3>1. hourly # Never
      <4>1. PICK p \in S : p \in 0..hourly
        <5> HIDE DEF S
        <5> QED
          BY <1>2, <2>1
      <4> HIDE DEF S
      <4> QED
        BY <4>1 DEF Never
    <3> QED
      BY <3>1, ConstantsTyped DEF TimesKnown
  <2>3. S \in SUBSET (0..MaxNow)
    BY <2>1, <2>2, ConstantsTyped
  <2>4. Min(S) \in S
    <3> HIDE DEF S
    <3>9. hourly \in Int /\ S \in SUBSET (0..hourly)
      BY <2>1, <2>2
    <3>1. IsFiniteSet(S)
      BY <3>9, PeriodsFinite
    <3>2. S \subseteq Int
      BY <2>1
    <3> QED
      BY <1>2, <3>1, <3>2, MinKnown
  <2>5. PeriodBar(Min(S), hourly).close \in Nat \ {0}
    <3> HIDE DEF S
    <3>1. market \in Markets
      BY DEF TimesKnown
    <3>8. hourly \in Int
      BY <2>2
    <3>9. Min(S) \in 0..MaxNow
      <4>1. S \subseteq 0..MaxNow
        BY <2>3
      <4> QED
        BY Zenon, <2>4, <4>1
    <3>2. BarFits(PeriodBar(Min(S), hourly))
      BY <3>1, <3>8, <3>9, BarKnown
    <3> QED
      BY <3>2 DEF BarFits
  <2>6. entry \in Nat \ {0} /\ (Level(RowOf(r).entry) => entry = RowOf(r).entry)
    <3> HIDE DEF S
    <3> QED
      BY <2>5, RowKnown DEF Level
  <2>7. ~(RowOf(r).horizon >= PerDay)
    BY RowKnown, ConstantsTyped
  <2>8. JudgeIntraday(r) = Verdict(r, entry, S, hourly)
    BY <1>2 DEF JudgeIntraday
  <2> HIDE DEF S, entry
  <2>9. Founded(r, entry, S, hourly)
    BY <1>2, <2>1, <2>2, <2>3, <2>6, <2>7 DEF Founded
  <2> QED
    BY <2>8, <2>9, VerdictSound
<1> QED
  BY <1>1, <1>2

\* The daily bars a row may be judged on were fetched when their day had begun.
LEMMA ViewKnown ==
  ASSUME TimesKnown, DailyKnown, NEW r \in Rows, NEW view \in Views(r)
  PROVE  /\ DOMAIN view \in SUBSET Days
         /\ \A d \in DOMAIN view : view[d] \in Nat /\ PerDay * d <= view[d] /\ view[d] <= MaxNow
<1> DEFINE table == {d \in Stored : d >= Day(RowOf(r).made)}
           cache == [d \in Stored |-> daily[d]]
           answer == [d \in 0..Day(now) |-> now]
<1>1. now \in Nat /\ now <= MaxNow /\ MaxNow \in Nat
  BY ConstantsTyped DEF TimesKnown
<1>2. \/ view = [d \in table |-> daily[d]]
      \/ view = cache
      \/ view = answer
      \/ view = <<>>
  BY DEF Views
<1>3. \A d \in Stored : /\ d \in Days /\ daily[d] \in Nat
                        /\ PerDay * d <= daily[d] /\ daily[d] <= MaxNow
  <2> SUFFICES ASSUME NEW d \in Stored
               PROVE  /\ d \in Days /\ daily[d] \in Nat
                      /\ PerDay * d <= daily[d] /\ daily[d] <= MaxNow
    OBVIOUS
  <2>1. d \in Days /\ daily[d] # Never
    BY DEF Stored
  <2>2. daily[d] \in 0..MaxNow /\ PerDay * d <= daily[d]
    BY <2>1 DEF DailyKnown
  <2> QED
    BY <1>1, <2>1, <2>2
<1>4. \A d \in 0..Day(now) : d \in Days /\ PerDay * d <= now
  <2> SUFFICES ASSUME NEW d \in 0..Day(now)
               PROVE  d \in Days /\ PerDay * d <= now
    OBVIOUS
  <2> DEFINE x == Day(now)
             last == Day(MaxNow)
  <2>1. x \in Nat /\ last \in Nat /\ x <= last /\ PerDay * x <= now /\ d \in 0..x
    BY <1>1, DayKnown, DayOrder
  <2> HIDE DEF x, last
  <2>2. d \in 0..last
    BY <2>1
  <2>3. PerDay * d <= PerDay * x /\ PerDay * d \in Int /\ PerDay * x \in Int
    <3>1. CASE d = x
      BY <2>1, <3>1, ConstantsTyped
    <3>2. CASE d < x
      <4>1. d \in Nat
        BY <2>1
      <4>2. PerDay * d \in Nat /\ PerDay * x \in Nat /\ PerDay * d + PerDay <= PerDay * x
        BY <2>1, <3>2, <4>1, DaysApart
      <4> QED
        BY <4>2, ConstantsTyped
    <3> QED
      BY <2>1, <3>1, <3>2
  <2> QED
    BY <1>1, <2>1, <2>2, <2>3 DEF last, Days
<1>5. CASE view = [d \in table |-> daily[d]]
  BY <1>3, <1>5
<1>6. CASE view = cache
  BY <1>3, <1>6
<1>7. CASE view = answer
  BY <1>1, <1>4, <1>7
<1>8. CASE view = <<>>
  BY <1>8
<1> QED
  BY <1>2, <1>5, <1>6, <1>7, <1>8

\* By the bar of a day, the entry being a level or the close of some day.
LEMMA DailySound ==
  ASSUME TimesKnown, DailyKnown, NEW r \in Rows, NEW view \in Views(r),
         NEW d, d = BarDay(r, view)
  PROVE  Sound(r, JudgeDaily(r, view, d))
<1>1. CASE d = Never
  BY <1>1, WithoutSound DEF JudgeDaily
<1>2. CASE d # Never /\ d <= Day(RowOf(r).made)
  BY <1>2, WithoutSound DEF JudgeDaily
<1>3. CASE d # Never /\ ~(d <= Day(RowOf(r).made))
  <2> DEFINE target == Day(Target(r))
             later == {x \in DOMAIN view : x >= target}
             earlier == {x \in DOMAIN view : x < target}
             made == Day(RowOf(r).made)
             bar == DayBar(d, view[d])
             used == {p \in Periods(d) : p <= view[d]}
             entry == EntryPrice(r, view, bar)
  <2>1. /\ market \in Markets
        /\ DOMAIN view \in SUBSET Days
        /\ \A x \in DOMAIN view : view[x] \in Nat /\ PerDay * x <= view[x] /\ view[x] <= MaxNow
    BY ViewKnown DEF TimesKnown
  <2>2. \A S \in SUBSET (DOMAIN view) : S # {} => Max(S) \in S /\ Min(S) \in S
    <3> SUFFICES ASSUME NEW S \in SUBSET (DOMAIN view), S # {}
                 PROVE  Max(S) \in S /\ Min(S) \in S
      OBVIOUS
    <3>1. IsFiniteSet(Days) /\ Days \subseteq Int
      BY DaysKnown
    <3>2. S \in SUBSET Days
      BY <2>1
    <3>3. IsFiniteSet(S)
      BY <3>1, <3>2, FS_Subset
    <3> QED
      BY <3>1, <3>2, <3>3, MaxKnown, MinKnown
  <2>3. later \in SUBSET (DOMAIN view) /\ earlier \in SUBSET (DOMAIN view)
    OBVIOUS
  <2>4. d = IF later # {} THEN Min(later) ELSE IF earlier # {} THEN Max(earlier) ELSE Never
    BY DEF BarDay
  <2>5. d \in DOMAIN view
    <3> HIDE DEF later, earlier
    <3> QED
      BY <1>3, <2>2, <2>3, <2>4
  <2>6. \A x \in DOMAIN view : BarFits(DayBar(x, view[x]))
    <3> SUFFICES ASSUME NEW x \in DOMAIN view PROVE BarFits(DayBar(x, view[x]))
      OBVIOUS
    <3>1. x \in Nat /\ view[x] \in Nat /\ PerDay * x <= view[x] /\ view[x] <= MaxNow
      BY <2>1, DaysKnown
    <3> QED
      BY <2>1, <3>1, DayBarKnown
  <2>7. \A x \in DOMAIN view : DayBar(x, view[x]).close \in Nat \ {0}
    BY <2>6 DEF BarFits
  <2>8. entry \in Nat \ {0} /\ (Level(RowOf(r).entry) => entry = RowOf(r).entry)
    <3>1. entry = IF Level(RowOf(r).entry) THEN RowOf(r).entry
                  ELSE IF made \in DOMAIN view THEN DayBar(made, view[made]).close
                  ELSE IF earlier # {} THEN DayBar(Max(earlier), view[Max(earlier)]).close
                  ELSE bar.close
      BY DEF EntryPrice
    <3>2. earlier # {} => Max(earlier) \in DOMAIN view
      BY <2>2, <2>3
    <3>3. RowOf(r).entry \in Nat
      BY RowKnown
    <3> HIDE DEF entry, made, earlier
    <3> QED
      BY <2>5, <2>7, <3>1, <3>2, <3>3 DEF Level
  <2>9. /\ used \in SUBSET (0..MaxNow) /\ used # {}
        /\ \A p \in used : Day(p) = d
        /\ view[d] \in Nat /\ d \in Nat
    <3>1. d \in Nat /\ view[d] \in Nat /\ PerDay * d <= view[d] /\ view[d] <= MaxNow
      BY <2>1, <2>5, DaysKnown
    <3> QED
      BY <2>1, <3>1, DayBarKnown
  <2>10. \A p \in used : p > RowOf(r).made /\ Day(p) > made
    <3> SUFFICES ASSUME NEW p \in used PROVE p > RowOf(r).made /\ Day(p) > made
      OBVIOUS
    <3>1. p \in Nat /\ RowOf(r).made \in Nat /\ Day(p) = d
      <4> HIDE DEF used
      <4> QED
        BY <2>9, RowKnown
    <3>2. made \in Nat /\ d > made
      BY <1>3, <2>9, <3>1, DayKnown
    <3>3. CASE p <= RowOf(r).made
      <4>1. Day(p) <= made
        BY <3>1, <3>3, DayOrder
      <4> HIDE DEF made
      <4> QED
        BY <2>9, <3>1, <3>2, <4>1
    <3> HIDE DEF made
    <3> QED
      BY <2>9, <3>1, <3>2, <3>3
  <2>11. JudgeDaily(r, view, d) = Verdict(r, entry, used, view[d])
    BY <1>3 DEF JudgeDaily, DailyVerdict
  <2> HIDE DEF used, entry
  <2>12. Founded(r, entry, used, view[d])
    BY <2>8, <2>9, <2>10 DEF Founded
  <2> QED
    BY <2>11, <2>12, VerdictSound
<1> QED
  BY <1>1, <1>2, <1>3

-----------------------------------------------------------------------------
(* The steps.                                                               *)

LEMMA TickStep ==
  ASSUME EInv, Tick
  PROVE  EInv'
<1>1. now \in Nat /\ MaxNow \in Nat /\ now + 1 <= MaxNow /\ hourly \in {Never} \cup 0..now
  BY ConstantsTyped DEF EInv, TimesKnown, Tick
<1>2. now' = now + 1 /\ UNCHANGED <<market, active, daily, hourly, rows, logs, todo, judged>>
  BY DEF Tick
<1>3. TimesKnown'
  BY <1>1, <1>2 DEF EInv, TimesKnown, Never
<1>4. DailyKnown'
  <2>1. \A d \in Days : daily[d] # Never => daily[d] <= now + 1
    <3> SUFFICES ASSUME NEW d \in Days, daily[d] # Never PROVE daily[d] <= now + 1
      OBVIOUS
    <3>1. daily[d] \in 0..MaxNow /\ daily[d] <= now
      BY DEF EInv, DailyKnown
    <3> QED
      BY <1>1, <3>1
  <2> QED
    BY <1>2, <2>1 DEF EInv, DailyKnown
<1>5. RowsKnown' /\ TodoKnown' /\ JudgedKnown' /\ LogsKnown'
  BY <1>2 DEF EInv, RowsKnown, RowsFounded, TodoKnown, JudgedKnown, LogsKnown, LogJudgedNearby
<1> QED
  BY <1>3, <1>4, <1>5 DEF EInv

\* Every day up to now is fetched anew, and no later one is stored.
LEMMA PriceDataStep ==
  ASSUME EInv, PriceDataUpdate
  PROVE  EInv'
<1> DEFINE x == Day(now)
<1>1. now \in 0..MaxNow /\ now \in Nat /\ MaxNow \in Nat /\ x \in Nat /\ PerDay * x <= now
      /\ now < PerDay * x + PerDay /\ PerDay * x \in Nat
  BY ConstantsTyped, DayKnown DEF EInv, TimesKnown
<1>2. /\ daily' = [d \in Days |-> IF d <= x THEN now ELSE daily[d]]
      /\ UNCHANGED <<market, active, now, hourly, rows, logs, todo, judged>>
  BY DEF PriceDataUpdate
<1>3. Days \subseteq Nat
  BY DaysKnown
<1> HIDE DEF x
<1>4. ASSUME NEW d \in Days, ~(d <= x)
      PROVE  daily[d] = Never
  <2> SUFFICES ASSUME daily[d] # Never PROVE FALSE
    OBVIOUS
  <2>1. PerDay * d <= daily[d] /\ daily[d] <= now /\ daily[d] \in 0..MaxNow /\ d \in Nat
    BY <1>3 DEF EInv, DailyKnown
  <2>2. x < d
    BY <1>1, <1>4, <2>1
  <2>3. PerDay * d \in Nat /\ PerDay * x + PerDay <= PerDay * d
    BY <1>1, <2>1, <2>2, DaysApart
  <2> QED
    BY <1>1, <2>1, <2>3, ConstantsTyped
<1>5. DailyKnown'
  <2>1. daily' \in [Days -> {Never} \cup 0..MaxNow]
    BY <1>1, <1>2 DEF EInv, DailyKnown
  <2>2. ASSUME NEW d \in Days, daily'[d] # Never
        PROVE  /\ PerDay * d <= daily'[d] /\ daily'[d] <= now
               /\ \A e \in Days : e < d => PerDay * e + PerDay <= daily'[e]
    <3>1. d <= x /\ daily'[d] = now
      BY <1>2, <1>4, <2>2
    <3>2. d \in Nat
      BY <1>3
    <3>3. PerDay * d <= PerDay * x /\ PerDay * d \in Nat
      <4>1. CASE d = x
        BY <1>1, <4>1
      <4>2. CASE d < x
        BY <1>1, <3>2, <4>2, DaysApart, ConstantsTyped
      <4> QED
        BY <1>1, <3>1, <3>2, <4>1, <4>2
    <3>4. ASSUME NEW e \in Days, e < d
          PROVE  PerDay * e + PerDay <= daily'[e]
      <4>1. e \in Nat
        BY <1>3
      <4>2. e <= x
        BY <1>1, <3>1, <3>2, <3>4, <4>1
      <4>3. daily'[e] = now
        BY <1>2, <4>2
      <4>4. PerDay * e + PerDay <= PerDay * d /\ PerDay * e \in Nat
        BY <3>2, <3>4, <4>1, DaysApart
      <4> QED
        BY <1>1, <3>3, <4>3, <4>4, ConstantsTyped
    <3> QED
      BY <1>1, <3>1, <3>3, <3>4
  <2> QED
    BY <1>2, <2>1, <2>2 DEF DailyKnown
<1>6. TimesKnown'
  BY <1>2 DEF EInv, TimesKnown
<1>7. RowsKnown' /\ TodoKnown' /\ JudgedKnown' /\ LogsKnown'
  BY <1>2 DEF EInv, RowsKnown, RowsFounded, TodoKnown, JudgedKnown, LogsKnown, LogJudgedNearby
<1> QED
  BY <1>5, <1>6, <1>7 DEF EInv

LEMMA IntradayStep ==
  ASSUME EInv, IntradayUpdate
  PROVE  EInv'
<1>1. hourly' = now /\ UNCHANGED <<market, active, now, daily, rows, logs, todo, judged>>
  BY DEF IntradayUpdate
<1>2. TimesKnown'
  BY <1>1, ConstantsTyped DEF EInv, TimesKnown
<1>3. DailyKnown'
  BY <1>1 DEF EInv, DailyKnown
<1>4. RowsKnown' /\ TodoKnown' /\ JudgedKnown' /\ LogsKnown'
  BY <1>1 DEF EInv, RowsKnown, RowsFounded, TodoKnown, JudgedKnown, LogsKnown, LogJudgedNearby
<1> QED
  BY <1>2, <1>3, <1>4 DEF EInv

LEMMA BeginStep ==
  ASSUME EInv, NEW e \in Evaluators, Begin(e)
  PROVE  EInv'
<1>1. /\ todo[e] = {} /\ todo' = [todo EXCEPT ![e] = Due]
      /\ UNCHANGED <<market, active, now, daily, hourly, rows, logs, judged>>
  BY DEF Begin
<1>2. TimesKnown' /\ DailyKnown'
  BY <1>1 DEF EInv, TimesKnown, DailyKnown
<1>3. RowsKnown' /\ LogsKnown'
  BY <1>1 DEF EInv, RowsKnown, RowsFounded, LogsKnown, LogJudgedNearby
<1>4. TodoKnown'
  <2>1. Due \subseteq Rows
    BY DEF Due
  <2> QED
    BY <1>1, <2>1 DEF EInv, TodoKnown
<1>5. JudgedKnown'
  <2>1. judged[e] = NoVerdict
    BY <1>1 DEF EInv, JudgedKnown
  <2>2. \A f \in Evaluators : f # e => todo'[f] = todo[f]
    BY <1>1 DEF EInv, TodoKnown
  <2> QED
    BY <1>1, <2>1, <2>2 DEF EInv, JudgedKnown
<1> QED
  BY <1>2, <1>3, <1>4, <1>5 DEF EInv

LEMMA JudgeStep ==
  ASSUME EInv, NEW e \in Evaluators, Judge(e)
  PROVE  EInv'
<1>1. UNCHANGED <<market, active, now, daily, hourly, rows, logs, todo>>
  BY DEF Judge
<1>2. PICK r \in todo[e] :
         \/ /\ RowOf(r).horizon < PerDay
            /\ judged' = [judged EXCEPT ![e] = JudgeIntraday(r)]
         \/ /\ RowOf(r).horizon >= PerDay
            /\ \E view \in Views(r) : \E d \in {BarDay(r, view)} :
                  judged' = [judged EXCEPT ![e] = JudgeDaily(r, view, d)]
  BY DEF Judge
<1>3. r \in Rows /\ DOMAIN judged = Evaluators
  BY DEF EInv, TodoKnown
<1>4. TimesKnown /\ DailyKnown
  BY DEF EInv
<1>5. \E v : Sound(r, v) /\ judged' = [judged EXCEPT ![e] = v]
  <2>1. CASE RowOf(r).horizon < PerDay /\ judged' = [judged EXCEPT ![e] = JudgeIntraday(r)]
    BY <1>3, <1>4, <2>1, IntradaySound
  <2>2. CASE \E view \in Views(r) : \E d \in {BarDay(r, view)} :
                judged' = [judged EXCEPT ![e] = JudgeDaily(r, view, d)]
    <3>1. PICK view \in Views(r) : judged' = [judged EXCEPT ![e] = JudgeDaily(r, view, BarDay(r, view))]
      BY <2>2
    <3>2. Sound(r, JudgeDaily(r, view, BarDay(r, view)))
      BY <1>3, <1>4, DailySound
    <3> QED
      BY <3>1, <3>2
  <2> QED
    BY <1>2, <2>1, <2>2
<1>6. JudgedKnown'
  <2>1. PICK v : Sound(r, v) /\ judged' = [judged EXCEPT ![e] = v]
    BY <1>5
  <2>2. judged'[e] = v /\ \A f \in Evaluators : f # e => judged'[f] = judged[f]
    BY <1>3, <2>1
  <2>3. /\ judged'[e].row \in todo[e]
        /\ judged'[e].status \in Statuses
        /\ judged'[e].status = "EVALUATED" =>
              Founded(judged'[e].row, judged'[e].entry, judged'[e].used, judged'[e].seen)
    BY <2>1, <2>2 DEF Sound
  <2> QED
    BY <1>1, <2>2, <2>3 DEF EInv, JudgedKnown
<1>7. TodoKnown'
  BY <1>1, <1>3, <1>5 DEF EInv, TodoKnown
<1>8. TimesKnown' /\ DailyKnown'
  BY <1>1 DEF EInv, TimesKnown, DailyKnown
<1>9. RowsKnown' /\ LogsKnown'
  BY <1>1 DEF EInv, RowsKnown, RowsFounded, LogsKnown, LogJudgedNearby
<1> QED
  BY <1>6, <1>7, <1>8, <1>9 DEF EInv

\* A verdict brings what it was founded on, and no other status does.
LEMMA SaveStep ==
  ASSUME EInv, NEW e \in Evaluators, Save(e)
  PROVE  EInv'
<1> DEFINE v == judged[e]
           old == rows[v.row]
           new == IF v.status = "EVALUATED"
                  THEN [status |-> v.status, entry |-> v.entry, used |-> v.used, seen |-> v.seen]
                  ELSE [old EXCEPT !.status = v.status]
<1>1. /\ v # NoVerdict
      /\ rows' = [rows EXCEPT ![v.row] = new]
      /\ todo' = [todo EXCEPT ![e] = @ \ {v.row}]
      /\ judged' = [judged EXCEPT ![e] = NoVerdict]
      /\ UNCHANGED <<market, active, now, daily, hourly, logs>>
  BY DEF Save
<1>2. /\ v.row \in Rows /\ v.status \in Statuses
      /\ v.status = "EVALUATED" => Founded(v.row, v.entry, v.used, v.seen)
  BY <1>1 DEF EInv, JudgedKnown, TodoKnown
<1>3. old \in Records
  BY <1>2 DEF EInv, RowsKnown
<1>4. new \in Records /\ new.status = v.status
      /\ (v.status = "EVALUATED" =>
             new.entry = v.entry /\ new.used = v.used /\ new.seen = v.seen)
  <2>1. CASE v.status = "EVALUATED"
    <3>1. v.entry \in Nat /\ v.used \in SUBSET (0..MaxNow) /\ v.seen \in Int
      BY <1>2, <2>1 DEF Founded
    <3> HIDE DEF v
    <3> QED
      BY <1>2, <2>1, <3>1 DEF Records
  <2>2. CASE v.status # "EVALUATED"
    <3> HIDE DEF v, old
    <3> QED
      BY <1>2, <1>3, <2>2 DEF Records
  <2> QED
    BY <2>1, <2>2
<1> HIDE DEF v, old, new
<1>5. rows'[v.row] = new /\ \A r \in Rows : r # v.row => rows'[r] = rows[r]
  BY <1>1, <1>2 DEF EInv, RowsKnown
<1>6. RowsKnown'
  <2>1. rows' \in [Rows -> Records]
    BY <1>1, <1>2, <1>4 DEF EInv, RowsKnown
  <2>2. ASSUME NEW r \in Rows, rows'[r].status = "EVALUATED"
        PROVE  Founded(r, rows'[r].entry, rows'[r].used, rows'[r].seen)
    <3>1. CASE r = v.row
      BY <1>2, <1>4, <1>5, <2>2, <3>1
    <3>2. CASE r # v.row
      BY <1>5, <2>2, <3>2 DEF EInv, RowsKnown, RowsFounded
    <3> QED
      BY <3>1, <3>2
  <2> QED
    BY <2>1, <2>2 DEF RowsKnown, RowsFounded
<1>7. TodoKnown' /\ JudgedKnown'
  <2>1. judged'[e] = NoVerdict /\ DOMAIN judged' = Evaluators
        /\ \A f \in Evaluators : f # e => judged'[f] = judged[f] /\ todo'[f] = todo[f]
    BY <1>1 DEF EInv, TodoKnown
  <2>2. todo' \in [Evaluators -> SUBSET Rows]
    BY <1>1 DEF EInv, TodoKnown
  <2> QED
    BY <2>1, <2>2 DEF EInv, TodoKnown, JudgedKnown
<1>8. TimesKnown' /\ DailyKnown' /\ LogsKnown'
  BY <1>1 DEF EInv, TimesKnown, DailyKnown, LogsKnown, LogJudgedNearby
<1> QED
  BY <1>6, <1>7, <1>8 DEF EInv

\* The stored day nearest to the date is the date, or the day before it.
LEMMA EvaluateLogStep ==
  ASSUME EInv, NEW l \in Logs, EvaluateLog(l)
  PROVE  EInv'
<1>1. /\ LogDue(l) /\ CacheFresh
      /\ UNCHANGED <<market, active, now, daily, hourly, rows, todo, judged>>
  BY DEF EvaluateLog
<1>2. PICK d \in Stored :
         /\ Nearest(d, ForecastDay(l))
         /\ logs' = [logs EXCEPT ![l] = [status |-> "EVALUATED", day |-> d, seen |-> daily[d]]]
  BY DEF EvaluateLog
<1> DEFINE f == ForecastDay(l)
           today == Day(now)
           last == Day(MaxNow)
<1>3. d \in Days /\ d \in Nat /\ daily[d] \in Int
  <2>1. d \in Days /\ daily[d] # Never
    BY DEF Stored
  <2>2. daily[d] \in 0..MaxNow
    BY <2>1 DEF EInv, DailyKnown
  <2> QED
    BY <2>1, <2>2, DaysKnown
<1>4. f \in Nat /\ f <= today /\ today \in Nat /\ last \in Nat /\ Days = 0..last
  <2>1. LogOf(l).made + LogOf(l).horizon \in Nat
    BY LogKnown
  <2>2. f \in Nat
    BY <2>1, DayKnown DEF ForecastDay
  <2>3. now \in Nat
    BY ConstantsTyped DEF EInv, TimesKnown
  <2> QED
    BY <1>1, <2>2, <2>3, DayKnown, DaysKnown DEF LogDue
<1>5. PICK c \in Stored : today - c <= 1
  BY <1>1 DEF CacheFresh
<1> HIDE DEF f, today, last
<1>6. c \in Days /\ c \in Nat /\ daily[c] # Never
  BY DaysKnown DEF Stored
<1>7. \E x \in Stored : x \in Nat /\ Gap(x, f) <= 1
  <2>1. CASE f <= c
    <3>1. f \in Days
      BY <1>4, <1>6, <2>1
    <3>2. f \in Stored
      <4>1. CASE f = c
        BY <4>1
      <4>2. CASE f < c
        <5>1. PerDay * f + PerDay <= daily[f]
          BY <1>6, <3>1, <4>2 DEF EInv, DailyKnown
        <5>2. PerDay * f \in Nat
          BY <1>4, ConstantsTyped
        <5>3. daily[f] # Never
          BY <5>1, <5>2, ConstantsTyped DEF Never
        <5> QED
          BY <3>1, <5>3 DEF Stored
      <4> QED
        BY <1>4, <1>6, <2>1, <4>1, <4>2
    <3>3. Gap(f, f) = 0
      BY <1>4 DEF Gap
    <3> QED
      BY <1>4, <3>2, <3>3
  <2>2. CASE ~(f <= c)
    <3>1. Gap(c, f) <= 1
      BY <1>4, <1>5, <1>6, <2>2 DEF Gap
    <3> QED
      BY <1>6, <3>1
  <2> QED
    BY <2>1, <2>2
<1>8. Gap(d, f) <= 1
  <2>1. PICK x \in Stored : x \in Nat /\ Gap(x, f) <= 1
    BY <1>7
  <2>2. Gap(d, f) < Gap(x, f) \/ Gap(d, f) = Gap(x, f)
    BY <1>2 DEF Nearest, f
  <2>3. Gap(d, f) \in Int /\ Gap(x, f) \in Int
    BY <1>3, <1>4, <2>1 DEF Gap
  <2> QED
    BY <2>1, <2>2, <2>3
<1>9. LogsKnown'
  <2>1. logs' \in [Logs -> [status : {"NEW", "EVALUATED"}, day : Int, seen : Int]]
    BY <1>2, <1>3 DEF EInv, LogsKnown
  <2>2. logs'[l].day = d /\ \A m \in Logs : m # l => logs'[m] = logs[m]
    BY <1>2 DEF EInv, LogsKnown
  <2>3. ASSUME NEW m \in Logs, logs'[m].status = "EVALUATED"
        PROVE  Gap(logs'[m].day, ForecastDay(m)) <= 1
    <3>1. CASE m = l
      BY <1>8, <2>2, <3>1 DEF f
    <3>2. CASE m # l
      BY <2>2, <2>3, <3>2 DEF EInv, LogsKnown, LogJudgedNearby
    <3> QED
      BY <3>1, <3>2
  <2> QED
    BY <2>1, <2>3 DEF LogsKnown, LogJudgedNearby
<1>10. TimesKnown' /\ DailyKnown'
  BY <1>1 DEF EInv, TimesKnown, DailyKnown
<1>11. RowsKnown' /\ TodoKnown' /\ JudgedKnown'
  BY <1>1 DEF EInv, RowsKnown, RowsFounded, TodoKnown, JudgedKnown
<1> QED
  BY <1>9, <1>10, <1>11 DEF EInv

LEMMA EvaluationStutter ==
  ASSUME EInv, UNCHANGED vars
  PROVE  EInv'
BY DEF vars, EInv, TimesKnown, DailyKnown, RowsKnown, RowsFounded, TodoKnown, JudgedKnown,
       LogsKnown, LogJudgedNearby

LEMMA EvaluationStep ==
  ASSUME EInv, Next
  PROVE  EInv'
<1>1. CASE Tick
  BY <1>1, TickStep
<1>2. CASE PriceDataUpdate
  BY <1>2, PriceDataStep
<1>3. CASE IntradayUpdate
  BY <1>3, IntradayStep
<1>4. ASSUME NEW e \in Evaluators, Evaluate(e)
      PROVE  EInv'
  BY <1>4, BeginStep, JudgeStep, SaveStep DEF Evaluate
<1>5. ASSUME NEW l \in Logs, EvaluateLog(l)
      PROVE  EInv'
  BY <1>5, EvaluateLogStep
<1> QED
  BY <1>1, <1>2, <1>3, <1>4, <1>5 DEF Next

\* What follows the logs changes none of this.
LEMMA RatingStep ==
  ASSUME NextRating
  PROVE  Next \/ UNCHANGED vars
BY DEF NextRating, StartPass, ReadRow, WriteRow, AddProvider, DeleteProvider, ReadProvider,
       UpdateProvider

-----------------------------------------------------------------------------
\* EInv is an invariant of the evaluators, and of the evaluators with the
\* trackers and the operator.
THEOREM EvaluationIsFounded == Spec => []EInv
<1>1. Init => EInv
  BY EvaluationInit
<1>2. EInv /\ [Next]_vars => EInv'
  BY EvaluationStep, EvaluationStutter
<1> QED
  BY <1>1, <1>2, PTL DEF Spec

THEOREM RatingIsFounded == RatingSpec => []EInv
<1>1. InitRating => EInv
  BY EvaluationInit DEF InitRating
<1>2. EInv /\ [NextRating]_allVars => EInv'
  <2>1. UNCHANGED allVars => UNCHANGED vars
    BY DEF allVars, vars
  <2> QED
    BY <2>1, RatingStep, EvaluationStep, EvaluationStutter
<1> QED
  BY <1>1, <1>2, PTL DEF RatingSpec

\* On every path of the market and whatever the tasks and evaluators do at the
\* same time, a stored bar that is not the latest is complete and no row is
\* judged on what its signal could see (consensus_evaluator.py, bybit_data_loader.py).
THEOREM BarsStaySound == RatingSpec => []BarsAreSound
<1>1. EInv => BarsAreSound
  BY BarsFollow
<1> QED
  BY <1>1, RatingIsFounded, PTL

\* Whatever bars a row is judged on, its gain, label and excursions fit the
\* level that was hit, the daily and the hourly rule agree as far as they can,
\* the rule of the logs is the stricter one, and a log is judged within a day of
\* its date (mae_mfe.py, net_pnl.py, actuals_evaluator.py).
THEOREM VerdictsStaySound == RatingSpec => []VerdictsAreSound
<1>1. EInv => VerdictsAreSound
  BY VerdictsFit
<1> QED
  BY <1>1, RatingIsFounded, PTL

-----------------------------------------------------------------------------
(* The accuracy of a provider.                                              *)

\* Rounding keeps whole bounds, and the smoothed accuracy stays between the old
\* one and the outcome.
LEMMA RoundKnown ==
  ASSUME NEW a \in Nat, NEW k \in Nat
  PROVE  /\ Vote!RoundRatio(a, 100) \in Nat
         /\ a >= 100 * k => Vote!RoundRatio(a, 100) >= k
         /\ a <= 100 * k => Vote!RoundRatio(a, 100) <= k
<1> DEFINE q == a \div 100
           r == a % 100
<1>1. q \in Nat /\ r \in 0..99 /\ a = 100 * q + r
  OBVIOUS
<1>2. \/ Vote!RoundRatio(a, 100) = q /\ 2 * r <= 100
      \/ Vote!RoundRatio(a, 100) = q + 1 /\ 2 * r >= 100
  BY <1>1 DEF Vote!RoundRatio
<1> HIDE DEF q, r
<1>3. CASE Vote!RoundRatio(a, 100) = q /\ 2 * r <= 100
  BY <1>1, <1>3
<1>4. CASE Vote!RoundRatio(a, 100) = q + 1 /\ 2 * r >= 100
  BY <1>1, <1>4
<1> QED
  BY <1>2, <1>3, <1>4

Rate == 0..One

LEMMA HalfKnown == One \in Nat /\ Half \in Nat /\ One = 2 * Half /\ Half > 0
BY DEF One, Half

LEMMA SmoothedKnown ==
  ASSUME NEW ema \in {Unrated} \cup Rate, NEW right \in BOOLEAN
  PROVE  /\ Smoothed(ema, right) \in Rate
         /\ (ema = Unrated \/ ema >= Half) /\ right => Smoothed(ema, right) >= Half
         /\ (ema = Unrated \/ ema <= Half) /\ ~right => Smoothed(ema, right) <= Half
<1> DEFINE old == IF ema = Unrated THEN Half ELSE ema
           won == IF right THEN Alpha * One ELSE 0
           a == won + (100 - Alpha) * old
<1>1. /\ old \in 0..One /\ Alpha \in 0..100
      /\ One \in Nat /\ Half \in Nat /\ One = 2 * Half /\ Half > 0
  <2>1. One \in Nat /\ Half \in Nat /\ One = 2 * Half /\ Half > 0 /\ Alpha \in 0..100
    BY HalfKnown, RatingAssumption
  <2>2. CASE ema = Unrated
    BY <2>1, <2>2
  <2>3. CASE ema # Unrated
    <3>1. ema \in 0..One
      BY <2>3 DEF Rate
    <3> QED
      BY <2>1, <2>3, <3>1
  <2> QED
    BY <2>2, <2>3
<1>2. Smoothed(ema, right) = Vote!RoundRatio(a, 100)
  BY DEF Smoothed
<1> HIDE DEF old
<1>3. /\ (100 - Alpha) * old \in Nat /\ (100 - Alpha) * old <= (100 - Alpha) * One
      /\ (100 - Alpha) * One = 100 * One - Alpha * One
      /\ (100 - Alpha) * Half = 100 * Half - Alpha * Half
      /\ Alpha * One = 2 * (Alpha * Half)
      /\ Alpha * Half \in Nat /\ Alpha * One \in Nat
  BY <1>1
<1>4. won \in 0..(Alpha * One) /\ (right => won = Alpha * One) /\ (~right => won = 0)
  BY <1>3
<1> HIDE DEF won
<1>5. a \in Nat /\ a <= 100 * One
  BY <1>1, <1>3, <1>4
<1>6. right /\ old >= Half => a >= 100 * Half
  <2>1. old >= Half => (100 - Alpha) * old >= (100 - Alpha) * Half
    BY <1>1
  <2> QED
    BY <1>1, <1>3, <1>4, <2>1
<1>7. ~right /\ old <= Half => a <= 100 * Half
  <2>1. old <= Half => (100 - Alpha) * old <= (100 - Alpha) * Half
    BY <1>1
  <2> QED
    BY <1>1, <1>3, <1>4, <2>1
<1> HIDE DEF a
<1>8. /\ Vote!RoundRatio(a, 100) \in Nat
      /\ a <= 100 * One => Vote!RoundRatio(a, 100) <= One
      /\ a >= 100 * Half => Vote!RoundRatio(a, 100) >= Half
      /\ a <= 100 * Half => Vote!RoundRatio(a, 100) <= Half
  BY <1>1, <1>5, RoundKnown
<1> DEFINE new == Vote!RoundRatio(a, 100)
<1> HIDE DEF new
<1>9. new \in Rate /\ (right /\ old >= Half => new >= Half) /\ (~right /\ old <= Half => new <= Half)
  BY <1>1, <1>5, <1>6, <1>7, <1>8 DEF Rate, new
<1>10. (ema = Unrated \/ ema >= Half => old >= Half) /\ (ema = Unrated \/ ema <= Half => old <= Half)
  BY <1>1 DEF old
<1> QED
  BY <1>2, <1>9, <1>10 DEF new

\* What Reachable says of one more outcome.
Grow(outcomes, old) == {Smoothed(ema, right) : ema \in old, right \in outcomes}
Grows(outcomes, f, m) ==
    \A n \in 0..m : f[n] = IF n = 0 THEN {Unrated} ELSE Grow(outcomes, f[n - 1])

\* There is such a function, and Reachable is one.
LEMMA ReachableExists ==
  ASSUME NEW outcomes
  PROVE  \E f : f = [n \in 0..MaxCount |-> IF n = 0 THEN {Unrated} ELSE Grow(outcomes, f[n - 1])]
<1> DEFINE Good == {m \in 0..MaxCount : \E f : DOMAIN f = 0..MaxCount /\ Grows(outcomes, f, m)}
<1>1. MaxCount \in Nat
  BY RatingAssumption
<1>2. 0 \in Good
  <2> DEFINE g == [n \in 0..MaxCount |-> {Unrated}]
  <2>1. DOMAIN g = 0..MaxCount /\ Grows(outcomes, g, 0)
    BY <1>1 DEF Grows
  <2> HIDE DEF g
  <2> QED
    BY <1>1, <2>1
<1>3. PICK m \in Good : \A k \in Good : m >= k
  <2>1. Good \in SUBSET (0..MaxCount) /\ MaxCount \in Int
    BY <1>1
  <2> HIDE DEF Good
  <2>2. IsFiniteSet(Good) /\ Good # {} /\ Good \subseteq Int
    BY <1>2, <2>1, PeriodsFinite
  <2> QED
    BY <2>2, GreatestExists
<1>4. PICK f : DOMAIN f = 0..MaxCount /\ Grows(outcomes, f, m)
  OBVIOUS
<1>5. m \in 0..MaxCount
  OBVIOUS
<1>6. m = MaxCount
  <2> SUFFICES ASSUME m # MaxCount PROVE FALSE
    OBVIOUS
  <2> DEFINE g == [n \in 0..MaxCount |-> IF n = m + 1 THEN Grow(outcomes, f[m]) ELSE f[n]]
  <2>1. m + 1 \in 0..MaxCount
    BY <1>1, <1>5
  <2>2. DOMAIN g = 0..MaxCount
    OBVIOUS
  <2>3. ASSUME NEW n \in 0..(m + 1)
        PROVE  g[n] = IF n = 0 THEN {Unrated} ELSE Grow(outcomes, g[n - 1])
    <3>1. CASE n = m + 1
      <4>1. g[n] = Grow(outcomes, f[m]) /\ n # 0 /\ n - 1 = m
        BY <1>5, <2>1, <3>1
      <4>2. g[m] = f[m]
        BY <1>5
      <4> HIDE DEF g
      <4> QED
        BY <4>1, <4>2
    <3>2. CASE n # m + 1
      <4>1. n \in 0..m /\ n \in 0..MaxCount
        BY <1>1, <1>5, <3>2
      <4>2. g[n] = f[n]
        BY <3>2, <4>1
      <4>3. n # 0 => g[n - 1] = f[n - 1]
        <5>1. n # 0 => n - 1 \in 0..MaxCount /\ n - 1 # m + 1
          BY <1>1, <1>5, <4>1
        <5> QED
          BY <5>1
      <4>4. f[n] = IF n = 0 THEN {Unrated} ELSE Grow(outcomes, f[n - 1])
        BY <1>4, <4>1 DEF Grows
      <4> HIDE DEF g
      <4> QED
        BY <4>2, <4>3, <4>4
    <3> QED
      BY <3>1, <3>2
  <2> HIDE DEF g
  <2>4. Grows(outcomes, g, m + 1)
    BY <2>3 DEF Grows
  <2>5. m + 1 \in Good
    BY <2>1, <2>2, <2>4
  <2> HIDE DEF Good
  <2> QED
    BY <1>3, <1>5, <2>5
<1>7. \A n \in 0..MaxCount : f[n] = IF n = 0 THEN {Unrated} ELSE Grow(outcomes, f[n - 1])
  BY <1>4, <1>6 DEF Grows
<1> DEFINE h == [n \in 0..MaxCount |-> f[n]]
<1>8. \A n \in 0..MaxCount : h[n] = IF n = 0 THEN {Unrated} ELSE Grow(outcomes, h[n - 1])
  <2> SUFFICES ASSUME NEW n \in 0..MaxCount
               PROVE  h[n] = IF n = 0 THEN {Unrated} ELSE Grow(outcomes, h[n - 1])
    OBVIOUS
  <2>1. h[n] = f[n]
    OBVIOUS
  <2>2. n # 0 => h[n - 1] = f[n - 1]
    BY <1>1
  <2> HIDE DEF h
  <2> QED
    BY <1>7, <2>1, <2>2
<1>9. h = [n \in 0..MaxCount |-> h[n]]
  OBVIOUS
<1> HIDE DEF h
<1>10. h = [n \in 0..MaxCount |-> IF n = 0 THEN {Unrated} ELSE Grow(outcomes, h[n - 1])]
  BY <1>8, <1>9
<1> QED
  BY <1>10

LEMMA ReachableKnown ==
  ASSUME NEW outcomes
  PROVE  /\ Reachable(outcomes)[0] = {Unrated}
         /\ \A n \in 1..MaxCount :
               Reachable(outcomes)[n] = Grow(outcomes, Reachable(outcomes)[n - 1])
<1> DEFINE R == Reachable(outcomes)
<1>1. R = CHOOSE f : f = [n \in 0..MaxCount |->
                             IF n = 0 THEN {Unrated} ELSE Grow(outcomes, f[n - 1])]
  BY DEF Reachable, Grow
<1>2. R = [n \in 0..MaxCount |-> IF n = 0 THEN {Unrated} ELSE Grow(outcomes, R[n - 1])]
  <2> HIDE DEF R
  <2> QED
    BY <1>1, ReachableExists
<1> HIDE DEF R
<1>3. MaxCount \in Nat
  BY RatingAssumption
<1>4. \A n \in 0..MaxCount : R[n] = IF n = 0 THEN {Unrated} ELSE Grow(outcomes, R[n - 1])
  BY <1>2
<1>5. R[0] = {Unrated}
  BY <1>3, <1>4
<1>6. \A n \in 1..MaxCount : R[n] = Grow(outcomes, R[n - 1])
  BY <1>3, <1>4
<1> QED
  BY <1>5, <1>6 DEF R

\* What holds at first and passes from each number to the next holds of all.
LEMMA NoLeast ==
  ASSUME NEW Bad \in SUBSET (0..MaxCount), 0 \notin Bad,
         \A n \in 1..MaxCount : n \in Bad => n - 1 \in Bad
  PROVE  Bad = {}
<1> SUFFICES ASSUME Bad # {} PROVE FALSE
  OBVIOUS
<1>1. MaxCount \in Int
  BY RatingAssumption
<1>2. IsFiniteSet(Bad) /\ Bad \subseteq Int
  <2>1. IsFiniteSet(Bad)
    BY <1>1, PeriodsFinite
  <2> QED
    BY <2>1
<1>3. Min(Bad) \in Bad /\ \A k \in Bad : Min(Bad) <= k
  BY <1>2, MinKnown
<1> DEFINE least == Min(Bad)
<1> HIDE DEF least
<1>4. least \in Bad /\ least \in 1..MaxCount /\ \A k \in Bad : least <= k
  <2>1. least \in Bad /\ \A k \in Bad : least <= k
    BY <1>3 DEF least
  <2>2. least \in 0..MaxCount /\ least # 0
    BY <2>1
  <2> QED
    BY <1>1, <2>1, <2>2
<1>5. least - 1 \in Bad
  BY <1>4
<1> QED
  BY <1>4, <1>5

\* An accuracy that outcomes can lead to is a rate, and no less (no more) than
\* one half where no outcome was wrong (right).
Fair(outcomes, ema) ==
    /\ ema \in {Unrated} \cup Rate
    /\ FALSE \notin outcomes => ema = Unrated \/ ema >= Half
    /\ TRUE \notin outcomes => ema = Unrated \/ ema <= Half

LEMMA ReachableFair ==
  ASSUME NEW outcomes \in SUBSET BOOLEAN, NEW n \in 0..MaxCount,
         NEW ema \in Reachable(outcomes)[n]
  PROVE  Fair(outcomes, ema)
<1> DEFINE R == Reachable(outcomes)
           Bad == {k \in 0..MaxCount : \E x \in R[k] : ~Fair(outcomes, x)}
<1>1. Bad \in SUBSET (0..MaxCount)
  OBVIOUS
<1>2. 0 \notin Bad
  BY ReachableKnown DEF Fair
<1>3. ASSUME NEW k \in 1..MaxCount, k \in Bad
      PROVE  k - 1 \in Bad
  <2>1. R[k] = Grow(outcomes, R[k - 1])
    BY ReachableKnown
  <2>2. PICK x \in R[k] : ~Fair(outcomes, x)
    BY <1>3
  <2> HIDE DEF R
  <2>3. PICK old \in R[k - 1], right \in outcomes : x = Smoothed(old, right)
    BY <2>1, <2>2 DEF Grow
  <2>4. ~Fair(outcomes, old)
    <3> SUFFICES ASSUME Fair(outcomes, old) PROVE FALSE
      OBVIOUS
    <3>1. old \in {Unrated} \cup Rate /\ right \in BOOLEAN
      BY DEF Fair
    <3>2. /\ x \in Rate
          /\ (old = Unrated \/ old >= Half) /\ right => x >= Half
          /\ (old = Unrated \/ old <= Half) /\ ~right => x <= Half
      BY <2>3, <3>1, SmoothedKnown
    <3>3. FALSE \notin outcomes => x >= Half
      BY <3>1, <3>2 DEF Fair
    <3>4. TRUE \notin outcomes => x <= Half
      BY <3>1, <3>2 DEF Fair
    <3> QED
      BY <2>2, <3>2, <3>3, <3>4 DEF Fair
  <2>5. k - 1 \in 0..MaxCount
    BY RatingAssumption
  <2> QED
    BY <2>4, <2>5
<1>4. Bad = {}
  <2> HIDE DEF Bad
  <2> QED
    BY <1>1, <1>2, <1>3, NoLeast
<1> QED
  BY <1>4

\* More outcomes lead to no fewer accuracies.
LEMMA ReachableGrows ==
  ASSUME NEW few, NEW many, few \subseteq many, NEW n \in 0..MaxCount
  PROVE  Reachable(few)[n] \subseteq Reachable(many)[n]
<1> DEFINE F == Reachable(few)
           M == Reachable(many)
           Bad == {k \in 0..MaxCount : ~(F[k] \subseteq M[k])}
<1>1. Bad \in SUBSET (0..MaxCount)
  OBVIOUS
<1>2. 0 \notin Bad
  <2>1. F[0] = {Unrated} /\ M[0] = {Unrated}
    BY ReachableKnown
  <2> HIDE DEF F, M
  <2> QED
    BY <2>1
<1>3. ASSUME NEW k \in 1..MaxCount, k \in Bad
      PROVE  k - 1 \in Bad
  <2>1. F[k] = Grow(few, F[k - 1]) /\ M[k] = Grow(many, M[k - 1])
    BY ReachableKnown
  <2>2. k - 1 \in 0..MaxCount
    BY RatingAssumption
  <2>3. ~(F[k] \subseteq M[k])
    BY <1>3
  <2> HIDE DEF F, M
  <2>4. ~(F[k - 1] \subseteq M[k - 1])
    BY <2>1, <2>3 DEF Grow
  <2> QED
    BY <2>2, <2>4
<1>4. Bad = {}
  <2> HIDE DEF Bad
  <2> QED
    BY <1>1, <1>2, <1>3, NoLeast
<1> QED
  BY <1>4

-----------------------------------------------------------------------------
(* The invariant of the table providers.                                    *)

RowType == [active : BOOLEAN, ema : Int, count : Nat]
Earned(outcomes, ema, count) == count \in 0..MaxCount /\ ema \in Reachable(outcomes)[count]

RowsEarned ==
    /\ providers \in [Providers -> {NoRow} \cup RowType]
    /\ \A p \in Providers :
          providers[p] # NoRow => Earned(OutcomesOf(p), providers[p].ema, providers[p].count)

WordsKept ==
    /\ DOMAIN wanted = Providers
    /\ \A p \in Providers :
          wanted[p] = IF providers[p] = NoRow THEN "gone" ELSE Word(providers[p].active)

PassesKnown ==
    /\ DOMAIN pass = Trackers
    /\ \A t \in Trackers : pass[t] \subseteq JudgedLogs

\* What a pass has read is of a judged log's provider, and earned.
ReadsEarned ==
    /\ DOMAIN got = Trackers
    /\ \A t \in Trackers :
          got[t] # Nothing =>
              /\ got[t].log \in JudgedLogs /\ got[t].count < MaxCount
              /\ Earned(OutcomesOf(ModelOf(got[t].log)), got[t].ema, got[t].count)

\* So is what the operator's change has read.
ChangeEarned ==
    change # Nothing =>
        /\ change.name \in Providers /\ change.row \in RowType
        /\ Earned(OutcomesOf(change.name), change.row.ema, change.row.count)

RInv == RowsEarned /\ WordsKept /\ PassesKnown /\ ReadsEarned /\ ChangeEarned

LEMMA OutcomesKnown ==
  /\ JudgedLogs \subseteq Logs
  /\ \A p : OutcomesOf(p) \in SUBSET BOOLEAN
  /\ \A l \in JudgedLogs : Right(l) \in OutcomesOf(ModelOf(l)) /\ ModelOf(l) \in Providers
<1>1. JudgedLogs \subseteq Logs
  BY DEF JudgedLogs
<1>2. \A l : Right(l) \in BOOLEAN
  BY DEF Right, LogRight, DirectionCorrect
<1> QED
  BY <1>1, <1>2, RatingAssumption DEF OutcomesOf

LEMMA EarnedGrows ==
  ASSUME NEW few, NEW many, few \subseteq many, NEW ema, NEW count, Earned(few, ema, count)
  PROVE  Earned(many, ema, count)
BY ReachableGrows DEF Earned

LEMMA FreshEarned ==
  ASSUME NEW outcomes, NEW on \in BOOLEAN
  PROVE  /\ Fresh(on) \in RowType /\ Fresh(on).active = on
         /\ Earned(outcomes, Fresh(on).ema, Fresh(on).count)
<1>1. Fresh(on) = [active |-> on, ema |-> Unrated, count |-> 0]
  BY DEF Fresh
<1>2. 0 \in 0..MaxCount /\ Unrated \in Reachable(outcomes)[0]
  BY RatingAssumption, ReachableKnown
<1> QED
  BY <1>1, <1>2 DEF RowType, Earned, Unrated

\* One outcome more is one number more.
LEMMA SmoothedEarned ==
  ASSUME NEW outcomes \in SUBSET BOOLEAN, NEW right \in outcomes, NEW ema, NEW count,
         Earned(outcomes, ema, count), count < MaxCount
  PROVE  /\ Earned(outcomes, Smoothed(ema, right), count + 1)
         /\ Smoothed(ema, right) \in Int /\ count + 1 \in Nat
<1>1. count \in 0..MaxCount /\ MaxCount \in Nat /\ ema \in Reachable(outcomes)[count]
  BY RatingAssumption DEF Earned
<1>2. count + 1 \in 1..MaxCount /\ (count + 1) - 1 = count
  BY <1>1
<1>3. Reachable(outcomes)[count + 1] = Grow(outcomes, Reachable(outcomes)[(count + 1) - 1])
  BY <1>2, ReachableKnown
<1>4. Smoothed(ema, right) \in Reachable(outcomes)[count + 1]
  BY <1>1, <1>2, <1>3 DEF Grow
<1>5. ema \in {Unrated} \cup Rate
  BY <1>1, ReachableFair DEF Fair
<1>6. Smoothed(ema, right) \in Rate
  BY <1>5, SmoothedKnown
<1>7. Smoothed(ema, right) \in Int
  BY <1>6, HalfKnown DEF Rate
<1> QED
  BY <1>1, <1>2, <1>4, <1>7 DEF Earned

\* A row is not the absence of a row.
LEMMA RowIsNoNoRow == NoRow \notin RowType
<1>1. NoRow.count = -1
  BY DEF NoRow
<1>2. \A row \in RowType : row.count \in Nat
  BY DEF RowType
<1> QED
  BY <1>1, <1>2

\* A log that is judged stays so, and so does what is said of it.
LEMMA OutcomesGrow ==
  ASSUME EInv, Next
  PROVE  /\ JudgedLogs \subseteq JudgedLogs'
         /\ \A p \in Providers : OutcomesOf(p) \subseteq OutcomesOf(p)'
<1>1. market' = market
  BY DEF Next, Tick, PriceDataUpdate, IntradayUpdate, Evaluate, Begin, Judge, Save, EvaluateLog
<1>2. \A l \in JudgedLogs : logs'[l] = logs[l] /\ l \in Logs
  <2>1. CASE UNCHANGED logs
    BY <2>1 DEF JudgedLogs
  <2>2. ASSUME NEW m \in Logs, EvaluateLog(m)
        PROVE  \A l \in JudgedLogs : logs'[l] = logs[l] /\ l \in Logs
    <3>1. m \notin JudgedLogs
      BY <2>2 DEF EvaluateLog, LogDue, JudgedLogs
    <3>2. \A l \in Logs : l # m => logs'[l] = logs[l]
      BY <2>2 DEF EvaluateLog, EInv, LogsKnown
    <3> QED
      BY <3>1, <3>2 DEF JudgedLogs
  <2> QED
    BY <2>1, <2>2
       DEF Next, Tick, PriceDataUpdate, IntradayUpdate, Evaluate, Begin, Judge, Save
<1>3. JudgedLogs \subseteq JudgedLogs'
  BY <1>2 DEF JudgedLogs
<1>4. \A l \in JudgedLogs : Right(l)' = Right(l)
  BY <1>1, <1>2 DEF Right, DayBar, Joined, PeriodBar
<1> QED
  BY <1>3, <1>4 DEF OutcomesOf

LEMMA OutcomesStay ==
  ASSUME UNCHANGED vars
  PROVE  /\ JudgedLogs' = JudgedLogs
         /\ \A p : OutcomesOf(p)' = OutcomesOf(p)
BY DEF vars, JudgedLogs, OutcomesOf, Right, DayBar, Joined, PeriodBar

LEMMA RatingInit ==
  ASSUME InitRating
  PROVE  RInv
<1>1. /\ providers = [p \in Providers |-> Fresh(TRUE)]
      /\ wanted = [p \in Providers |-> "on"]
      /\ pass = [t \in Trackers |-> {}]
      /\ got = [t \in Trackers |-> Nothing]
      /\ change = Nothing
  BY DEF InitRating
<1>2. \A p \in Providers : providers[p] = Fresh(TRUE) /\ providers[p] # NoRow
  BY <1>1, FreshEarned, RowIsNoNoRow
<1>3. RowsEarned
  BY <1>1, <1>2, FreshEarned DEF RowsEarned
<1>4. WordsKept
  BY <1>1, <1>2, FreshEarned DEF WordsKept, Word
<1>5. PassesKnown /\ ReadsEarned /\ ChangeEarned
  BY <1>1 DEF PassesKnown, ReadsEarned, ChangeEarned
<1> QED
  BY <1>3, <1>4, <1>5 DEF RInv

\* The evaluators change no row of a provider, and what is earned stays so.
LEMMA EvaluatorsStep ==
  ASSUME EInv, RInv, Next, UNCHANGED ownVars
  PROVE  RInv'
<1>1. UNCHANGED <<providers, wanted, pass, got, change>>
  BY DEF ownVars
<1>2. /\ JudgedLogs \subseteq JudgedLogs'
      /\ \A p \in Providers : OutcomesOf(p) \subseteq OutcomesOf(p)'
  BY OutcomesGrow
<1>3. \A p \in Providers : \A ema, count :
         Earned(OutcomesOf(p), ema, count) => Earned(OutcomesOf(p)', ema, count)
  BY <1>2, EarnedGrows
<1>4. RowsEarned'
  BY <1>1, <1>3 DEF RInv, RowsEarned
<1>5. WordsKept'
  BY <1>1 DEF RInv, WordsKept
<1>6. PassesKnown'
  BY <1>1, <1>2 DEF RInv, PassesKnown
<1>7. ReadsEarned'
  <2>1. \A t \in Trackers : got[t] # Nothing => ModelOf(got[t].log) \in Providers
    BY OutcomesKnown DEF RInv, ReadsEarned
  <2> QED
    BY <1>1, <1>2, <1>3, <2>1 DEF RInv, ReadsEarned
<1>8. ChangeEarned'
  BY <1>1, <1>3 DEF RInv, ChangeEarned
<1> QED
  BY <1>4, <1>5, <1>6, <1>7, <1>8 DEF RInv

\* While the evaluators rest, outcomes are what they were.
LEMMA RestKnown ==
  ASSUME UNCHANGED vars
  PROVE  /\ JudgedLogs' = JudgedLogs
         /\ \A p : OutcomesOf(p)' = OutcomesOf(p)
         /\ UNCHANGED <<providers, wanted>> /\ RInv => RowsEarned' /\ WordsKept'
         /\ UNCHANGED pass /\ RInv => PassesKnown'
         /\ UNCHANGED got /\ RInv => ReadsEarned'
         /\ UNCHANGED change /\ RInv => ChangeEarned'
<1>1. JudgedLogs' = JudgedLogs /\ \A p : OutcomesOf(p)' = OutcomesOf(p)
  BY OutcomesStay
<1>2. UNCHANGED <<providers, wanted>> /\ RInv => RowsEarned' /\ WordsKept'
  BY <1>1 DEF RInv, RowsEarned, WordsKept
<1>3. UNCHANGED pass /\ RInv => PassesKnown'
  BY <1>1 DEF RInv, PassesKnown
<1>4. UNCHANGED got /\ RInv => ReadsEarned'
  BY <1>1 DEF RInv, ReadsEarned
<1>5. UNCHANGED change /\ RInv => ChangeEarned'
  BY <1>1 DEF RInv, ChangeEarned
<1> QED
  BY <1>1, <1>2, <1>3, <1>4, <1>5

LEMMA StartPassStep ==
  ASSUME RInv, NEW t \in Trackers, StartPass(t)
  PROVE  RInv'
<1>1. UNCHANGED <<vars, providers, wanted, got, change>>
  BY DEF StartPass
<1>2. PICK due \in SUBSET JudgedLogs : pass' = [pass EXCEPT ![t] = due]
  BY DEF StartPass
<1>3. PassesKnown'
  BY <1>1, <1>2, RestKnown DEF RInv, PassesKnown
<1> QED
  BY <1>1, <1>3, RestKnown DEF RInv

LEMMA ReadRowStep ==
  ASSUME RInv, NEW t \in Trackers, ReadRow(t)
  PROVE  RInv'
<1>1. UNCHANGED <<vars, providers, wanted, change>>
  BY DEF ReadRow
<1>2. PICK l \in pass[t] :
         \/ /\ pass' = [pass EXCEPT ![t] = @ \ {l}]
            /\ UNCHANGED got
         \/ /\ providers[ModelOf(l)] # NoRow
            /\ providers[ModelOf(l)].count < MaxCount
            /\ got' = [got EXCEPT ![t] = [log |-> l, ema |-> providers[ModelOf(l)].ema,
                                          count |-> providers[ModelOf(l)].count]]
            /\ UNCHANGED pass
  BY DEF ReadRow
<1>3. l \in JudgedLogs /\ ModelOf(l) \in Providers
  BY OutcomesKnown DEF RInv, PassesKnown
<1>4. CASE pass' = [pass EXCEPT ![t] = @ \ {l}] /\ UNCHANGED got
  <2>1. PassesKnown'
    BY <1>1, <1>4, RestKnown DEF RInv, PassesKnown
  <2> QED
    BY <1>1, <1>4, <2>1, RestKnown DEF RInv
<1>5. CASE /\ providers[ModelOf(l)] # NoRow
           /\ providers[ModelOf(l)].count < MaxCount
           /\ got' = [got EXCEPT ![t] = [log |-> l, ema |-> providers[ModelOf(l)].ema,
                                         count |-> providers[ModelOf(l)].count]]
           /\ UNCHANGED pass
  <2> DEFINE row == providers[ModelOf(l)]
  <2>1. Earned(OutcomesOf(ModelOf(l)), row.ema, row.count) /\ row.count < MaxCount
    BY <1>3, <1>5 DEF RInv, RowsEarned
  <2>2. DOMAIN got' = Trackers
    BY <1>5 DEF RInv, ReadsEarned
  <2>3. /\ got'[t].log = l /\ got'[t].ema = row.ema /\ got'[t].count = row.count
        /\ \A u \in Trackers : u # t => got'[u] = got[u]
    BY <1>5 DEF RInv, ReadsEarned
  <2> HIDE DEF row
  <2>4. \A u \in Trackers :
           got'[u] # Nothing =>
               /\ got'[u].log \in JudgedLogs /\ got'[u].count < MaxCount
               /\ Earned(OutcomesOf(ModelOf(got'[u].log)), got'[u].ema, got'[u].count)
    BY <1>3, <2>1, <2>3 DEF RInv, ReadsEarned
  <2>5. ReadsEarned'
    BY <1>1, <2>2, <2>4, RestKnown DEF ReadsEarned
  <2> QED
    BY <1>1, <1>5, <2>5, RestKnown DEF RInv
<1> QED
  BY <1>2, <1>4, <1>5

\* The row that is written has one outcome more than the row that was read.
LEMMA WriteRowStep ==
  ASSUME RInv, NEW t \in Trackers, WriteRow(t)
  PROVE  RInv'
<1> DEFINE l == got[t].log
           p == ModelOf(l)
           row == providers[p]
           ema == Smoothed(got[t].ema, Right(l))
           count == got[t].count + 1
           new == IF row = NoRow THEN NoRow
                  ELSE [row EXCEPT !.ema = ema, !.count = count]
<1>1. /\ got[t] # Nothing
      /\ providers' = [providers EXCEPT ![p] = new]
      /\ pass' = [pass EXCEPT ![t] = @ \ {l}]
      /\ got' = [got EXCEPT ![t] = Nothing]
      /\ UNCHANGED <<vars, wanted, change>>
  BY DEF WriteRow
<1>2. /\ l \in JudgedLogs /\ got[t].count < MaxCount
      /\ Earned(OutcomesOf(p), got[t].ema, got[t].count)
  BY <1>1 DEF RInv, ReadsEarned
<1>3. p \in Providers /\ OutcomesOf(p) \in SUBSET BOOLEAN /\ Right(l) \in OutcomesOf(p)
  BY <1>2, OutcomesKnown
<1>4. Earned(OutcomesOf(p), ema, count) /\ ema \in Int /\ count \in Nat
  <2> HIDE DEF l, p
  <2> QED
    BY <1>2, <1>3, SmoothedEarned
<1> HIDE DEF l, p, ema, count
<1>5. row \in {NoRow} \cup RowType
  BY <1>3 DEF RInv, RowsEarned
<1>6. row # NoRow => /\ new \in RowType /\ new.active = row.active
                     /\ new.ema = ema /\ new.count = count
  <2> HIDE DEF row
  <2> QED
    BY <1>4, <1>5 DEF RowType
<1>7. new = NoRow <=> row = NoRow
  <2> HIDE DEF row
  <2> QED
    BY <1>6, RowIsNoNoRow
<1> HIDE DEF row, new
<1>8. /\ providers'[p] = new
      /\ \A q \in Providers : q # p => providers'[q] = providers[q]
  BY <1>1, <1>3 DEF RInv, RowsEarned
<1>9. RowsEarned'
  <2>1. providers' \in [Providers -> {NoRow} \cup RowType]
    BY <1>1, <1>6, <1>7 DEF RInv, RowsEarned
  <2>2. ASSUME NEW q \in Providers, providers'[q] # NoRow
        PROVE  Earned(OutcomesOf(q), providers'[q].ema, providers'[q].count)
    <3>1. CASE q = p
      BY <1>4, <1>6, <1>7, <1>8, <2>2, <3>1
    <3>2. CASE q # p
      BY <1>8, <2>2, <3>2 DEF RInv, RowsEarned
    <3> QED
      BY <3>1, <3>2
  <2> QED
    BY <1>1, <2>1, <2>2, RestKnown DEF RowsEarned
<1>10. WordsKept'
  <2>1. ASSUME NEW q \in Providers
        PROVE  wanted[q] = IF providers'[q] = NoRow THEN "gone" ELSE Word(providers'[q].active)
    <3>1. wanted[q] = IF providers[q] = NoRow THEN "gone" ELSE Word(providers[q].active)
      BY DEF RInv, WordsKept
    <3>2. CASE q = p
      BY <1>6, <1>7, <1>8, <3>1, <3>2 DEF row
    <3>3. CASE q # p
      BY <1>8, <3>1, <3>3
    <3> QED
      BY <3>2, <3>3
  <2> QED
    BY <1>1, <2>1 DEF RInv, WordsKept
<1>11. PassesKnown'
  BY <1>1, RestKnown DEF RInv, PassesKnown
<1>12. ReadsEarned'
  <2>1. DOMAIN got' = Trackers /\ got'[t] = Nothing
        /\ \A u \in Trackers : u # t => got'[u] = got[u]
    BY <1>1 DEF RInv, ReadsEarned
  <2>2. \A u \in Trackers :
           got'[u] # Nothing =>
               /\ got'[u].log \in JudgedLogs /\ got'[u].count < MaxCount
               /\ Earned(OutcomesOf(ModelOf(got'[u].log)), got'[u].ema, got'[u].count)
    BY <2>1 DEF RInv, ReadsEarned
  <2> QED
    BY <1>1, <2>1, <2>2, RestKnown DEF ReadsEarned
<1>13. ChangeEarned'
  BY <1>1, RestKnown
<1> QED
  BY <1>9, <1>10, <1>11, <1>12, <1>13 DEF RInv

\* A row the operator adds is a new one, ...
LEMMA AddProviderStep ==
  ASSUME RInv, NEW p \in Providers, NEW on \in BOOLEAN, AddProvider(p, on)
  PROVE  RInv'
<1>1. /\ providers' = [providers EXCEPT ![p] = Fresh(on)]
      /\ wanted' = [wanted EXCEPT ![p] = Word(on)]
      /\ UNCHANGED <<vars, pass, got, change>>
  BY DEF AddProvider
<1>2. /\ providers'[p] = Fresh(on) /\ wanted'[p] = Word(on)
      /\ \A q \in Providers : q # p => providers'[q] = providers[q] /\ wanted'[q] = wanted[q]
  BY <1>1 DEF RInv, RowsEarned, WordsKept
<1>3. /\ Fresh(on) \in RowType /\ Fresh(on).active = on /\ Fresh(on) # NoRow
      /\ \A outcomes : Earned(outcomes, Fresh(on).ema, Fresh(on).count)
  BY FreshEarned, RowIsNoNoRow
<1>4. RowsEarned'
  <2>1. providers' \in [Providers -> {NoRow} \cup RowType]
    BY <1>1, <1>3 DEF RInv, RowsEarned
  <2>2. \A q \in Providers : providers'[q] # NoRow =>
           Earned(OutcomesOf(q), providers'[q].ema, providers'[q].count)
    BY <1>2, <1>3 DEF RInv, RowsEarned
  <2> QED
    BY <1>1, <2>1, <2>2, RestKnown DEF RowsEarned
<1>5. WordsKept'
  BY <1>1, <1>2, <1>3 DEF RInv, WordsKept
<1> QED
  BY <1>1, <1>4, <1>5, RestKnown DEF RInv

\* ... a row he removes is gone, ...
LEMMA DeleteProviderStep ==
  ASSUME RInv, NEW p \in Providers, DeleteProvider(p)
  PROVE  RInv'
<1>1. /\ providers' = [providers EXCEPT ![p] = NoRow]
      /\ wanted' = [wanted EXCEPT ![p] = "gone"]
      /\ UNCHANGED <<vars, pass, got, change>>
  BY DEF DeleteProvider
<1>2. /\ providers'[p] = NoRow /\ wanted'[p] = "gone"
      /\ \A q \in Providers : q # p => providers'[q] = providers[q] /\ wanted'[q] = wanted[q]
  BY <1>1 DEF RInv, RowsEarned, WordsKept
<1>3. RowsEarned'
  <2>1. providers' \in [Providers -> {NoRow} \cup RowType]
    BY <1>1 DEF RInv, RowsEarned
  <2>2. \A q \in Providers : providers'[q] # NoRow =>
           Earned(OutcomesOf(q), providers'[q].ema, providers'[q].count)
    BY <1>2 DEF RInv, RowsEarned
  <2> QED
    BY <1>1, <2>1, <2>2, RestKnown DEF RowsEarned
<1>4. WordsKept'
  BY <1>1, <1>2 DEF RInv, WordsKept
<1> QED
  BY <1>1, <1>3, <1>4, RestKnown DEF RInv

\* ... a change is of what it has read, ...
LEMMA ReadProviderStep ==
  ASSUME RInv, NEW p \in Providers, NEW on \in BOOLEAN, ReadProvider(p, on)
  PROVE  RInv'
<1> DEFINE row == IF providers[p] = NoRow THEN Fresh(on) ELSE [providers[p] EXCEPT !.active = on]
<1>1. change' = [name |-> p, row |-> row] /\ UNCHANGED <<vars, providers, wanted, pass, got>>
  BY DEF ReadProvider
<1>2. row \in RowType /\ Earned(OutcomesOf(p), row.ema, row.count)
  <2>1. CASE providers[p] = NoRow
    BY <2>1, FreshEarned
  <2>2. CASE providers[p] # NoRow
    <3> DEFINE old == providers[p]
    <3>1. old \in RowType /\ Earned(OutcomesOf(p), old.ema, old.count)
      BY <2>2 DEF RInv, RowsEarned
    <3>2. row = [old EXCEPT !.active = on]
      BY <2>2
    <3> HIDE DEF old, row
    <3>3. row \in RowType /\ row.ema = old.ema /\ row.count = old.count
      BY <3>1, <3>2 DEF RowType
    <3> QED
      BY <3>1, <3>3
  <2> QED
    BY <2>1, <2>2
<1> HIDE DEF row
<1>3. ChangeEarned'
  <2>1. change'.name = p /\ change'.row = row
    BY <1>1
  <2> QED
    BY <1>1, <1>2, <2>1, RestKnown DEF ChangeEarned
<1> QED
  BY <1>1, <1>3, RestKnown DEF RInv

\* ... and replaces whatever is there now.
LEMMA UpdateProviderStep ==
  ASSUME RInv, UpdateProvider
  PROVE  RInv'
<1> DEFINE p == change.name
           row == change.row
<1>1. /\ change # Nothing
      /\ providers' = [providers EXCEPT ![p] = row]
      /\ wanted' = [wanted EXCEPT ![p] = Word(row.active)]
      /\ change' = Nothing
      /\ UNCHANGED <<vars, pass, got>>
  BY DEF UpdateProvider
<1>2. p \in Providers /\ row \in RowType /\ row # NoRow
      /\ Earned(OutcomesOf(p), row.ema, row.count)
  BY <1>1, RowIsNoNoRow DEF RInv, ChangeEarned
<1> HIDE DEF p, row
<1>3. /\ providers'[p] = row /\ wanted'[p] = Word(row.active)
      /\ \A q \in Providers : q # p => providers'[q] = providers[q] /\ wanted'[q] = wanted[q]
  BY <1>1, <1>2 DEF RInv, RowsEarned, WordsKept
<1>4. RowsEarned'
  <2>1. providers' \in [Providers -> {NoRow} \cup RowType]
    BY <1>1, <1>2 DEF RInv, RowsEarned
  <2>2. \A q \in Providers : providers'[q] # NoRow =>
           Earned(OutcomesOf(q), providers'[q].ema, providers'[q].count)
    BY <1>2, <1>3 DEF RInv, RowsEarned
  <2> QED
    BY <1>1, <2>1, <2>2, RestKnown DEF RowsEarned
<1>5. WordsKept'
  BY <1>1, <1>2, <1>3 DEF RInv, WordsKept
<1>6. ChangeEarned'
  BY <1>1 DEF ChangeEarned
<1> QED
  BY <1>1, <1>4, <1>5, <1>6, RestKnown DEF RInv

LEMMA AccuracyStep ==
  ASSUME EInv, RInv, [NextRating]_allVars
  PROVE  RInv'
<1>1. CASE Next /\ UNCHANGED ownVars
  BY <1>1, EvaluatorsStep
<1>2. ASSUME NEW t \in Trackers, StartPass(t) \/ ReadRow(t) \/ WriteRow(t)
      PROVE  RInv'
  BY <1>2, StartPassStep, ReadRowStep, WriteRowStep
<1>3. ASSUME NEW p \in Providers,
             \/ DeleteProvider(p)
             \/ \E on \in BOOLEAN : AddProvider(p, on) \/ ReadProvider(p, on)
      PROVE  RInv'
  BY <1>3, DeleteProviderStep, AddProviderStep, ReadProviderStep
<1>4. CASE UpdateProvider
  BY <1>4, UpdateProviderStep
<1>5. CASE UNCHANGED allVars
  <2>1. UNCHANGED vars /\ UNCHANGED <<providers, wanted, pass, got, change>>
    BY <1>5 DEF allVars, vars, ownVars
  <2> QED
    BY <2>1, RestKnown DEF RInv
<1> QED
  BY <1>1, <1>2, <1>3, <1>4, <1>5 DEF NextRating

\* The weight of an accuracy is on the side of one its outcomes are on.
LEMMA WeightFair ==
  ASSUME NEW ema \in Rate
  PROVE  LET weight == Max({(3 * One) \div 10, Min({One + Half, 2 * ema})})
         IN  (ema >= Half => weight >= One) /\ (ema <= Half => weight <= One)
<1> DEFINE low == (3 * One) \div 10
           high == One + Half
           inner == Min({high, 2 * ema})
           weight == Max({low, inner})
<1>1. /\ One \in Nat /\ Half \in Nat /\ One = 2 * Half /\ ema \in Nat
      /\ low \in Nat /\ low <= One
  <2>1. One \in Nat /\ Half \in Nat /\ One = 2 * Half
    BY HalfKnown
  <2> QED
    BY <2>1 DEF Rate
<1> HIDE DEF low
<1>2. inner \in {high, 2 * ema} /\ inner <= 2 * ema /\ inner <= high
  <2>1. IsFiniteSet({high} \cup {2 * ema})
    BY FS_Singleton, FS_Union
  <2>2. {high} \cup {2 * ema} = {high, 2 * ema}
    OBVIOUS
  <2>3. IsFiniteSet({high, 2 * ema})
    BY <2>1, <2>2
  <2>4. {high, 2 * ema} # {} /\ {high, 2 * ema} \subseteq Int
    BY <1>1
  <2> HIDE DEF high
  <2> QED
    BY <2>3, <2>4, MinKnown
<1> HIDE DEF inner
<1>3. inner \in Int
  BY <1>1, <1>2
<1>4. weight \in {low, inner} /\ weight >= inner /\ weight >= low
  <2>1. IsFiniteSet({low} \cup {inner})
    BY FS_Singleton, FS_Union
  <2>2. {low} \cup {inner} = {low, inner}
    OBVIOUS
  <2>3. IsFiniteSet({low, inner})
    BY <2>1, <2>2
  <2>4. {low, inner} # {} /\ {low, inner} \subseteq Int
    BY <1>1, <1>3
  <2> QED
    BY <2>3, <2>4, MaxKnown
<1> HIDE DEF weight
<1>5. ema >= Half => weight >= One
  BY <1>1, <1>2, <1>3, <1>4
<1>6. ema <= Half => weight <= One
  BY <1>1, <1>2, <1>3, <1>4
<1> QED
  BY <1>5, <1>6 DEF low, inner, weight

\* A method with a forecast that was right has a rate.
LEMMA WinRateKnown ==
  ASSUME NEW l \in JudgedLogs, Right(l)
  PROVE  WinRate(MethodOf(l))[1] > 0
<1> DEFINE own == {x \in JudgedLogs : MethodOf(x) = MethodOf(l)}
           good == {x \in own : Right(x)}
<1>1. own \in SUBSET Logs /\ good \in SUBSET Logs /\ good # {}
  BY DEF JudgedLogs
<1>2. Accuracy(MethodOf(l)) = <<Cardinality(good), Cardinality(own)>>
  BY DEF Accuracy
<1> HIDE DEF good, own
<1>3. IsFiniteSet(good)
  BY <1>1, RatingAssumption, FS_Subset
<1>4. Cardinality(good) \in Nat /\ Cardinality(good) # 0
  BY <1>1, <1>3, FS_CardinalityType, FS_EmptySet
<1> QED
  BY <1>2, <1>4 DEF WinRate

LEMMA AccuracyFollows ==
  ASSUME RInv
  PROVE  AccuracyIsEarned
<1> SUFFICES ASSUME NEW p \in Providers
             PROVE  LET row == providers[p]
                    IN  /\ row # NoRow => row.count \in 0..MaxCount
                                        /\ row.ema \in Reachable(OutcomesOf(p))[row.count]
                        /\ wanted[p] = IF row = NoRow THEN "gone" ELSE Word(row.active)
                        /\ FALSE \notin OutcomesOf(p) => EmaWeight(p) >= One
                        /\ TRUE \notin OutcomesOf(p) => EmaWeight(p) <= One
                        /\ \A l \in JudgedLogs : Right(l) => WinRate(MethodOf(l))[1] > 0
  BY DEF AccuracyIsEarned
<1> DEFINE row == providers[p]
<1>1. row # NoRow => Earned(OutcomesOf(p), row.ema, row.count)
  BY DEF RInv, RowsEarned
<1>2. wanted[p] = IF row = NoRow THEN "gone" ELSE Word(row.active)
  BY DEF RInv, WordsKept
<1>3. /\ FALSE \notin OutcomesOf(p) => EmaWeight(p) >= One
      /\ TRUE \notin OutcomesOf(p) => EmaWeight(p) <= One
  <2>1. CASE p \notin ModelStats
    <3>1. EmaWeight(p) = One /\ One \in Nat
      BY <2>1, HalfKnown DEF EmaWeight
    <3> QED
      BY <3>1
  <2>2. CASE p \in ModelStats
    <3>1. row # NoRow /\ row.ema # Unrated
      BY <2>2 DEF ModelStats
    <3>2. EmaWeight(p) = Max({(3 * One) \div 10, Min({One + Half, 2 * row.ema})})
      BY <2>2 DEF EmaWeight
    <3> HIDE DEF row
    <3>3. Fair(OutcomesOf(p), row.ema)
      BY <1>1, <3>1, OutcomesKnown, ReachableFair DEF Earned
    <3>4. /\ row.ema \in Rate
          /\ FALSE \notin OutcomesOf(p) => row.ema >= Half
          /\ TRUE \notin OutcomesOf(p) => row.ema <= Half
      BY <3>1, <3>3 DEF Fair
    <3> QED
      BY <3>2, <3>4, WeightFair
  <2> QED
    BY <2>1, <2>2
<1>4. \A l \in JudgedLogs : Right(l) => WinRate(MethodOf(l))[1] > 0
  BY WinRateKnown
<1> QED
  BY <1>1, <1>2, <1>3, <1>4 DEF Earned

\* However the passes over the judged forecasts overlap one another and the
\* operator's changes of the providers, an accuracy is what as many outcomes as
\* are counted lead to, the operator's word holds, and the weights are on the
\* side the outcomes are on (model_performance_tracker.py, endpoints.py).
THEOREM AccuracyStaysEarned == RatingSpec => []AccuracyIsEarned
<1>1. InitRating => EInv /\ RInv
  BY EvaluationInit, RatingInit DEF InitRating
<1>2. RInv => AccuracyIsEarned
  BY AccuracyFollows
<1>3. EInv /\ RInv /\ [NextRating]_allVars => RInv'
  BY AccuracyStep
<1> QED
  BY <1>1, <1>2, <1>3, RatingIsFounded, PTL DEF RatingSpec

=============================================================================
